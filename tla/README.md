# A TLA+ model of BeWos

BeWos is a small operating system for one x86 processor: a preemptive kernel
with a round robin scheduler, semaphores, software timers, a physical page
allocator, paging, eight text consoles with a shell each, a keyboard driver and
a floppy driver that keeps its contents in memory. This directory holds a model
of it in TLA+, the TLC configurations that check the model on small instances,
and proofs of its main invariants for every size. Paths below are relative to
`src/bewos_src/bewos_src/`. The repository has no test suite and no manual:
what the code promises is said in its comments, which are in Italian and are
quoted where a property comes from one.

## 1. Inventory

What is compiled is the list OBJ of the Makefile; `fs/`, `discarica_abusiva/`
and the boot loaders are not modelled.

| component | state | operations | who calls it |
|---|---|---|---|
| scheduler (`task/scheduler.c`) | `process_table[].state`, `.quantum`, `.privilege`, `pid_cur_task`, `free_pid`, `scheduler_active` | `scheduler`, `round_robin`, `set_quantum` | the end of every interrupt (`interrupt/irq.c`) |
| tasks (`task/task.c`, `task/signals.c`) | the same table | `create_task`, `end_task`, `sleep_task`, `wakeup_task` | main, system calls, consoles, semaphores, timers |
| kill (`kernel/syscall.c`, commands of `apps/shell.c`) | the same table | `sys_kill_process` | a shell |
| semaphores and wait lists (`task/semaphores.c`, `kernel/wait.c`) | `resources`, `waiting_objects` | `create_sem`, `down`, `up`, `delete_sem`, `wait_*` | tasks |
| software timers (`interrupt/timer.c`) | `timer_list`, `timer_ticks` | `add_timer`, `del_timer`, `mod_timer`, `isr_timer` | tasks; the timer interrupt |
| delay (`kernel/delay.c`) | none of its own | `delay`, `do_wakeup_task` | `sys_sleep` |
| page allocator and kernel heap (`mm/phisicmem.c`, `phisicalloc.c`, `kmalloc.c`) | `bitmap`, the list of `mem_pages_info`, `status_kmalloc` | `alloc_pages`, `add_info_pages`, `dealloc_pages` | everything above |
| paging and malloc (`mm/paging.c`, `malloc.c`) | page directory and tables, what the processor remembers of them | `mappage`, `find_first_*_free`, `free_pages`, `malloc`, `free` | task creation, shells |
| consoles (`driver/console.c`, `kernel/printk.c`) | per console: screen, cursor, `buffer_temp`, `pid_task_shell`; `cur_console` | `make_console`, `switch_to_console`, `sys_puts`, `putk`, `goto_xy` | keyboard interrupt, tasks |
| keyboard (`driver/keyboard.c`) | `buffer_kbd`, `pos_buffer_kbd`, flags, leds | `isr_kbd`, `sys_getche` | keyboard interrupt, shells |
| virtual floppy (`apps/vfloppy.c`) | sectors, `vfloppy_flags` | `vfloppy_rd`, `vfloppy_wt` | system calls (no program makes them) |
| shell (`apps/shell.c`) | line, history | `LeggiDaKeyboard`, `LeggiStringa`, `Esegui` | its task |
| libraries (`libc/`) | `str_buffer`, `StTempo`, `sstr` (static) | string functions, `mktime`, `localtime`, `strftime`, `conv_int_string` | everyone, the timer interrupt included |
| start-up (`main.c`, `interrupt/pic8259.c`, `pit8253.c`, `mm/gdt.c`, `interrupt/idt.c`) | hardware tables | run once, then main is the idle task | boot |

How they interact. There is one processor and no kernel lock. A task loses the
processor only at an interrupt, and every interrupt handler ends in
`scheduler()`. Code protects itself by disabling interrupts
(`save_flags_irq` ... `restore_flags`), and a system call runs with interrupts
*enabled* (the `sti` of `system_call_handler`). So the hard behaviours are what an
interrupt can do between two protected sections: `down` and `delay` are several
such sections in a row, `create_task` returns after its section, `kmalloc` has
none. Next come structures shared by tasks and the interrupt (the timer list, the
keyboard buffer, the consoles' shells), the limits nobody checks (pids, records
of allocations, buffer positions) and unsigned counters that wrap (quanta,
timer delays). Nothing is persistent and nothing is sent over a network, so there
is no crash recovery and no unreliable delivery to model.

What makes each component correct:

- scheduler: only the task with the processor is RUNNING; the search for a
  task ends and starves nobody; no task runs on a wrapped quantum; the dead stay dead (the two
  exceptions are console switches, see section 3);
- semaphore: never more holders than units, an exact counter, waiters served in
  order and not left asleep beside a free unit;
- timers and delay: a timer fires when the time asked for is over (one for less than a tick does not), the list stays sound
  under every mix of operations, a sleeper is woken;
- allocator: blocks never overlap, records are the blocks, areas stay apart, what
  is freed becomes free;
- paging: an address that `malloc` returned leads to the block it allocated, in the
  tables and in what the processor remembers; empty tables are given back;
- consoles: only the shell of the console on the screen is awake, and what a hidden
  console printed is shown, in order, when it comes back;
- keyboard: the task that waits for a key gets the last one typed, and gets it;
- shell: the screen shows the line that is edited, and the line is split into the
  arguments that were typed;
- floppy: one user at a time;
- time and strings: the date shown is the date of the clock, the string functions compare, find and
  copy what they are given, and a buffer shared with the timer interrupt still ends.

`PROJECT.json` lists every hazard at its line, with the property that covers it or
the reason why none does.

## 2. Modules

    Scheduler                              Keyboard              Screen
      |                                       |                    |
    TasksAtWork --- Semaphore --.        ConsoleSwitch           Shell --- ShellProofs
      |               |         |             |                    '-- INSTANCE LineEditor
      |           INSTANCE      |     ConsoleSwitchProofs
      |     CountingSemaphore   |
      |                         |         PhysMem --- PhysMemProofs
      '------ Delay ------ TaskProofs     Paging --- PagingProofs
                |                         ClockText --- ClockTextProofs
    Timer ------'

    CString, Calendar, CommandLine, VFloppy, ConsoleOutput, Strftime --- PartsProofs

A line means EXTENDS; the INSTANCEs are refinements. Every `MCx` module extends `x` for TLC
and `x.cfg` is the run of that name. `MCParts` extends the modules that share no variable with
another one, and explores each of them from its own beginning; the two configurations that
expect a violation are named after what they show. TaskProofs uses its lemmas on Scheduler for the table under
the semaphore and under the timers. TaskProofs, PhysMemProofs, ClockTextProofs, PartsProofs and ShellProofs
cite the lemmas on numbers, sequences and folds of SequenceLemmas.

**Scheduler** models the process table. A section of code without interrupts is
one action. `timer_irq` is `gestisci_irq` for the timer: some sleeping tasks are woken
(`Woken`), the scheduler is enabled, and `scheduler` runs as one of `KeepTask`
(disabled), `CountTick` (the quantum is not over), `SwitchTask`. Other interrupts
are `other_irq`: their handlers leave the table alone, or the key pressed switches the console
(`switch_to_console`), which creates or wakes the shell of the new console and writes BLOCKED over the
entry of the one that leaves the screen, whatever its state and even if that entry is 0, because
`main` has not yet stored the pid of the first shell. `cur_console`, `pid_task_shell` and the
tasks that execute `shell` (`shells`, history) are there for that. `scheduler` takes the table its handler left as a parameter, so that
Semaphore and Delay compose with it. `pc` says where the code of a task is when it is
inside a function with interrupts enabled: `main` before and after it creates the first shell, the
waiting loop of `sleep_task`, the tail of `create_task`, the loop of `end_task`, and a shell between the test of
its kill command (`kill_check`) and `sys_kill_process`. A task acts only while
`pid_cur_task` names it, whatever its state field says: a task that has ended or been
blocked executes until its quantum is over, as in the code. Stacks, the TSS and page
directories are data that change with `pid_cur_task` and are left out. `quantum` wraps
to `UINT_MAX` on the outgoing task, as the unsigned `quantum--` does.

**TasksAtWork** is the start of the two modules that follow: all tasks exist, some of them (`Shells`) execute
`shell`, only the one on the screen is awake, and the others are programs (`Program`), which the shells may kill.
The tree contains no such program, only the functions for it; programs call `down`, `up` and `delay` in any order.

**Semaphore** adds `resources`, `waiting` and `sem_pc`, a point for each place where an
interrupt may find a task inside `down` and `up`. Task steps are steps of Scheduler or
leave the table alone. `SameWord` stands for a fault: `wait_add_unique` compares pids
by `memcmp(this->next->data, data, 4)`, which reads the memory *at the addresses* the
pids denote; which pairs look equal depends on what lies there, so it is a
constant; the theorems hold for every one. The runs use `Distinct`, where a pid equals only
itself. `delete_sem` has no caller.

**CountingSemaphore** is what a semaphore promises: `Holders` grows only while it is
smaller than the number of units. Semaphore implements it (`ImplementsPromise`).

**Timer** models the list. A node is a handle; the pages of a freed node never
become free (see PagesLeak), so handles are not reused. `isr_timer` does what the loop of
the code does at once: it decrements every linked delay modulo the width of an
unsigned long, fires what becomes 0, and cuts the list behind the last that fired.
`add_timer` gives `NULL` when there is no memory, at any time. `fate`, `asked` (the milliseconds last asked for) and
`passed` (the ticks since then) are history variables. The clock `isr_timer` draws is in ClockText.

**Delay** composes both: the timer interrupt is `isr_timer` and then `scheduler`
with the tasks whose timers fired woken. `delay` returns at once when `add_timer` gives `NULL`; `result` remembers which of
its two returns a call took. `sys_sleep` drops the result. Shells kill programs anywhere in `delay`
(`delay_kill`). `console_printerr` is the keyboard interrupt for a digit that names no console, which registers a timer
of its own; the keyboard interrupt that switches consoles is that of Scheduler.

**PhysMem** models the allocator by page number: the bitmap as a set of pages, the list
of `mem_pages_info` structs with their entries, the `status_kmalloc` flag. A call is cut
where it uses what the calls share: it reads the flag (`alloc_flag`), searches (`alloc_scan`), marks (`alloc_mark`),
looks at the first struct of records (`add_info_pages`) and enters the record (`add_entry`); a free looks at the list
(`dealloc_pages`) and then changes it (`dealloc_entry`). A caller with interrupts
disabled (`create_task`, `wait_add_unique`, and `isr_timer` with its `kfree`) goes through undisturbed; `Preemptible` names
the tasks that call with interrupts enabled (`add_timer` inside a system call, `malloc`). When the first struct is full,
`add_info_pages` calls `alloc_pages` for a page for a new one. That call goes through the same steps, reads and clears
`status_kmalloc` like any other, and finds the list as full as before for its own record; so the calls nest, until one finds no page
or the list has room again. `blocks` holds what they have found, and `Unwind` is their return. Stack use of this
recursion and the contents of a fresh struct beyond its first entry are not modelled. Three history variables say whether a
call came between the setting and the use of the flag by another one (`flag_raced`), took pages
between another one's search and marking (`scan_raced`), or went into the list while another was in it (`list_raced`).
The model ends where a caller's block overlaps a struct of the list, where `scan_raced` or `list_raced` is set, and where two structs
come to share a page, because what is written there decides the rest; the run turns the
deadlock check off for that end.

**Keyboard** models `isr_kbd` as one action with a disjunct per group of keys (extended keys in two
stages, shift, Enter, Backspace, Alt with numbers, the lock keys and their leds, the pad, characters),
and `sys_getche` cut at every access of what it shares with the interrupt: reset of the flags,
`abilita_kbd`, the loop on the flags, `disabilita_kbd`, the second reset, the read of the buffer.
The buffer has an index -1, which a backspace at position 0 writes. `typed` is a history variable: the
last character stored since the reader enabled the keyboard. `conv_scancode_to_char` ends without a
return value for some keys, which may give any value of `Undefined`.

**ConsoleSwitch** puts the shells on top of Keyboard: `switch_to_console` inside the keyboard
interrupt blocks one shell and wakes or creates another, whatever those shells were doing, `main`
creates the first one with the interrupts enabled, and a shell may kill another. The round robin is
reduced to what it decides, with no quanta: any READY task, or the current one, whatever its state,
goes on after an interrupt. This contains every behaviour of Scheduler's quanta. `muter` is a history variable: the shell
that disabled the keyboard last, until it enables it again.

**ConsoleOutput** is the other half of the consoles, what tasks print on a hidden console:
`sys_puts` into `buffer_temp`, as a call, one step for each character and a return, with the interrupts
disabled from the first to the last so that only the console on the screen at the call decides; the wrap at
the end of the buffer; the NUL, which goes into a padding byte when the text fills the buffer exactly (`buffer_temp` ends at
offset 2030 of the struct, `index_buffer` is at 2032, so no field is hit); and the loop of
`switch_to_console` that prints it and may read that byte. Characters are numbered, so that order and loss are visible.

**Screen** models `printk.c` on one console as operators over a record with cursor, position, block
and cells: wrapping, scrolling under the header rows, tabs, the bell that prints nothing, the echo of `sys_getche`, `goto_xy`,
`info_cur_console`. **Shell** is the line editor on it: `tmpBuffer` and `buffer` as arrays, the
history walked by the arrow keys, and the redrawing after every key. `Welcome` is what `main` prints before the
first `printok`, which has line ends (`main.c:77-82`) and so leaves the cursor below the header rows; the messages that
follow, the time of the log on and what commands print are any of `Message`. **LineEditor** is what it
promises: the text on the two sides of a cursor, and recall. `history[HISTORY]`, one past the array,
is a pointer nobody set: it points to a NUL or not, both are tried. Among the keys are `NUL`, which `sys_getche` returns
for a key without a character or after the buffer was emptied, and `BEL`, which Alt and 007 type. The editor inserts
both. A NUL is a character of the line for its lengths and offsets, but what is drawn, copied and entered ends at it
(`String`); a step down from the history that restores a draft cut in front of its cursor leaves the cursor behind the
line, and the model ends there (`handle_undefined`). The console stays on the screen: a switch away from it, and the
output flushed when it comes back, are not in this module. **CommandLine** is
`LeggiStringa` character by character on the flat array that the rows are in memory.

**Paging** models one task's directory and tables, the window through which the kernel sees the
tables, and the translations the processor keeps of both (`tlb`, `window`) until CR3 is loaded.
`malloc` is cut where the interrupts can switch tasks; page tables are not cleared, so `Found` says what
a new one may hold. Physical pages come in increasing order and never come back, which is what PagesLeak
shows of the allocator.

**VFloppy** models reading and writing a sector in two halves under the flag BUSY, with a task
losing the processor or killed at any point. `raced` is a history variable: the flag was set twice, or a
task died while it copied.

**CString** keeps a memory of bytes, anything at first, that the writing functions change one after another, and
states on each memory so reached in which there is a string what the functions do keep of their comments
(`StringsAgree`; section 3 lists what they do not). Bytes are signed where the code compares them as `char`. While
another part of MCParts runs the memory holds none. **Calendar** walks the loop of `localtime` day
by day and compares the date shown with the date that `mktime` was given. **ClockText** cuts the
making of a text (`readcmos`, `localtime`, `conv_int_string`, `strftime`, `vsprintf`) at every access of the
three things it shares with the clock that the timer interrupt draws. A number of more than six digits, or of six and a
sign, is written over what lies behind `str_buffer` (`overrun`), and the model ends there. **Strftime** counts the characters of a
format directive by directive, those read behind the table of names for the months 12 and 13 included (`Strays` says how
many that may be), which `localtime` gives at the turn of some years.

Each definition that stands for code is in the `map` of `PROJECT.json` with its lines.
Definitions commented "Faulty variant" are not part of any specification: each is
a plausible bug that the property named in `mutants` must catch.

## 3. Runs

Runs that pass:

| run | instance | what it shows |
|---|---|---|
| Scheduler | idle task and three more, two consoles, quanta 2 and 1 | types; one RUNNING task (`RunningHasProcessor`); `RoundRobinEnds`, and `ReadyTaskRuns`: it starves nobody; `QuantumOfCurrentIsFresh`; `KilledStaysKilled` |
| Semaphore | idle task, a shell and three users, one unit, one of the users may be killed | `MutualExclusion`, exact counter (`UnitsAccounted`), waiters woken first in first out (`WakesInOrder`), `UpReturns`, refinement of CountingSemaphore (`ImplementsPromise`) |
| Timer | three timers, delays of 0, 1 and 3 ticks, counter modulo 6 | `ListSound`, `DelayIsTimeLeft`, `FiresWhenDue`, `LostOnlyToLater`: a timer is lost only to the expiry of one registered after it |
| Delay | idle task, a shell and two sleepers, one of whom may be killed, two timers, one or two ticks, counter modulo 4 | nobody leaves `delay`'s sleep early; who sleeps on a linked timer returns unless killed or the timer is lost |
| PhysMem | two tasks, both preemptible inside a call, 6 pages, 3 of them the kernel area, 3 records in a struct, blocks of one or two pages; symmetry of the tasks | blocks disjoint and marked (`BlocksDisjoint`), records are the blocks (`RecordsAreBlocks`), areas apart (`AreasApart`), each until the race that breaks it |
| Keyboard | one reader, a buffer of two places, thirteen scancodes with one of every kind | `sys_getche` reads the key typed last, whatever comes between its steps; a stored key ends it |
| ConsoleSwitch | three consoles, three shells, a buffer of one place | only the shell on the screen is awake; what revives a killed shell; what leaves the screen deaf; what lets the processor spin |
| Shell | a screen of 3 columns and 3 rows under the header, a prompt of 2 and lines of up to 2 characters, one of them NUL or the bell, a history of 2, three lines entered | the screen shows the line (`LineShown`), the prompt is safe (`BlockAfterPrompt`), LineEditor is implemented (`ImplementsLineEditor`) |
| Paging | two tables of two entries, seven physical pages, new tables empty or with one stray entry | addresses lead to their blocks; stale translations only at reused addresses; empty tables are returned |
| Parts | a memory of 5 bytes, of which one is above 127; 34 years of days, dates of three of them; two instants, numbers of up to seven digits; buffers of 1, 12, 20 and 26, a time in month 12; lines of 6 characters in an array of 3 by 4; buffers of 5 and three consoles; two tasks and one sector | `StringsAgree`, `DateKept`, `TextEnds` and `RightUnlessDisturbed`, `BufferKept`, `ArgumentsAsTyped`, `FlushFaithful`, `AloneUnlessRaced` |

Many of these properties have an antecedent or an exception ("unless", "only"). Each names the one way
in which the code does lose the promise, and the property shows that there is no other:

- `RoundRobinEnds`, `KilledStaysKilled`, `ReadyTaskRuns`: `driver/console.c:169` writes BLOCKED over the entry of the shell
  that leaves the screen, in whatever state it is. That may be a killed one, a READY one that has not run yet, or,
  until `main` has stored a pid (`main.c:160`), entry 0, the idle task; without it round robin may find nobody.
- `FiresWhenDue`, `DelayIsTimeLeft`: a timer for less than a tick has delay 0, which `isr_timer` decrements to
  `ULONG_MAX` (`interrupt/timer.c:206`); it fires a whole turn of the counter late.
- `NeverEarly`: without memory for a timer `delay` returns at once (`kernel/delay.c:58`), and a killed sleeper never returns.
- `LostOnlyToLater`: `isr_timer` sets `timer_list.next = this->next` (`interrupt/timer.c:211`), which unlinks
  every timer in front of the expired one, expired or not. Line 189 says only the expired one is removed.
- `SleepEndsUnlessLost`: `delay` registers its timer and sleeps in two steps (`kernel/delay.c:58-61`). A timer
  that fires in between wakes nobody, and the task sleeps for ever: it no longer has a linked timer. A task that is
  killed while it sleeps does not return either.
- `AreasApart`, `BlocksDisjoint`, `RecordsAreBlocks`: `kmalloc` sets `status_kmalloc` and `alloc_pages` reads it later,
  `alloc_pages` marks what it found later, and `add_info_pages` and `dealloc_pages` change the list they read before, with the
  interrupts of the caller enabled in `add_timer`, `malloc` and `free`. The nested call for a page of records
  (`mm/phisicmem.c:335`) takes the flag of a preempted `kmalloc` like any other call, looks for its page in the kernel area and
  leaves the other a block of the user area. A record is dropped when that page is not found.
- `ReadsTypedKey`: any interrupt with a full buffer empties it (`driver/keyboard.c:131`), also the release of
  the key that filled it, before `sys_getche` has read it; the shell then gets a NUL.
- `RevivedOnlyBySwitch`: `driver/console.c:169` writes BLOCKED over the state of the old shell. A killed one is
  BLOCKED again, and the next switch to its console wakes it instead of creating a new one.
- `DeafOnlyBehindAnother`: a shell that saw its key and is blocked by a switch before
  `disabilita_kbd` disables the keyboard that the next shell has just enabled. The property says that whenever the
  shell on the screen waits with the keyboard disabled, the shell that disabled it is of another console and has not
  called `abilita_kbd` since.
- `FlushFaithful`: characters that find the hidden buffer full start again at its beginning, and one of them is dropped; what
  fits is kept whole.
- `LineShown`: the text is drawn up to a NUL in it, and the character '\a' takes a place in the offsets and none on the screen.
- `ImplementsLineEditor`: only what stands in front of a NUL is stored, in the history and in the draft; of a draft whose cursor stood
  behind it LineEditor promises nothing.
- `SpinsOnlyAfterEarlySwitch`: a console switch between the creation of the first shell and the
  assignment of its pid (`main.c:160`) blocks entry 0 instead, the idle task: `EarlySwitch` is that state.
- `StaleOnlyWhenReused`: `free_pages` does not invalidate the translation (`mm/paging.c:500`). An address freed and
  given out again in the same turn of the task reaches the old page.
- `BlocksTranslate`: a table removed and replaced in one turn is written through the
  old entry of the window (`lost`), and so is a NULL taken for a table (`mm/malloc.c:63`).
- `EmptyTablesGone`: `mm/paging.c:493` judges the scan by its last value, so a table whose last block lies in its last
  entry stays; so does one that was found with a PRESENT entry, for new tables are not cleared.
- `DateKept`: in years that are not leap years `localtime` adds a day after the walk (`libc/time.c:421`),
  which shows the first of a month as day 0 and blurs the turn of the year; `mktime` subtracts 200
  seconds too few (`libc/time.c:503`), and counts days of the month into months at the end of one (`:491`).
- `RightUnlessDisturbed`: a clock drawn while a task converts a number, reads the CMOS or copies the
  static date changes its text. `TextEnds` shows that it still ends, inside the buffer unless the number has six digits;
  of longer numbers, which `%d` accepts, nothing is claimed.
- `BufferKept`: `%x` and `%X` are not counted (`libc/time.c:242`), and the name of month 12 or 13, which `localtime`
  gives for the day after the last of some years, is whatever lies behind the table.
- `ArgumentsAsTyped`: a quote at the beginning of a word looks in front of the row, and one behind a space
  ends the word early (`apps/shell.c:272`).
- `AloneUnlessRaced`: two tasks pass the test of BUSY before either sets it (`apps/vfloppy.c:62-70`).
- `StringsAgree` leaves out what the code does not do of what its comments say. `strcmp` is -1 where the first
  string is a proper beginning of the second and 1 for all others that differ (`libc/string.c:142-156`). `strncmp` is 0 only for
  strings that are alike in just `size` characters (`:271-284`). `strchr` and `strrchr` compare a signed `char` with an unsigned one and
  never find a byte above 127 (`:135`, `:320`), and `strrchr` also looks at the byte before the string.
  `strstr` does not look at the first character and misses a match begun twice. Of `strpbrk` and `strtok` nothing is claimed, though
  both are modelled, and `memset` is claimed only to keep a memory of bytes.

Why the bounds are enough. Three tasks are the least with a current task, a waiting one
and one that overtakes; with the idle task that is four, and a shell that kills makes five for the semaphore. Two consoles
let a shell be left, killed, replaced and returned to; ConsoleSwitch has three. Quanta of 1 and 2
already let a task be interrupted with and without a switch; longer ones repeat the
second case. Three timers let one be lost in front of, and one stay behind,
an expiry, and the counter wraps within a behaviour. The records fill up before
the pages do, so that `add_info_pages` asks for new structs with none, one and more pages left. A keyboard buffer of two
places is empty, half full and full. Three consoles let a shell be left, overtaken and returned to; three
shells let one be killed, replaced and revived. On the screen of Shell a line of one character
fills its row, one of two wraps, and the third line entered scrolls; three lines overflow the history. Two
tables of two entries are the least where a table has a last entry and a neighbour. The years 2000, 2001
and 2003 are a leap year, the one after and the one before; one letter of CString is a byte above 127; the walk of days passes every kind of month.
`TaskBound`, `TimerBound`, `NpadBound`, `MaxLen`, `LineBound`, `BootBound`, `LastDay`, `DrawBound`,
`DirectiveBound` and `OutBound` cap what a behaviour does; the code has no such limits (a line
has LINE_MAXLEN characters, which nothing checks).

Scheduler, ConsoleSwitch, Shell, PhysMem and Parts may stop, at such a bound, in the loop of a `round_robin` that finds
nobody, or in a state from which the code does something undefined, and turn the deadlock check off.

Runs that find a disagreement between a comment and the code:

| run | what happens |
|---|---|
| LostWakeup | the unprotected gaps of `down` lose a release: all tasks asleep, one unit free (`NoSleepBesideFreeUnit`) |
| PagesLeak | the loop of `dealloc_pages` ends before it reads the length, so no page is freed (`PagesBecomeFree`) |

Further disagreements, seen while modelling, besides the exceptions above:

- `create_task` reads `process_table[free_pid-1].pid` after `restore_flags` (`task/task.c:271`); another creator in
  between makes it return the other's pid. The model has both steps.
- `free_pid` is never compared with `MAX_TASK`, and entries are not reused.
- `wait_add_unique` compares the words at two pids with `memcmp` (`kernel/wait.c:108`). With a `SameWord` that
  relates two tasks TLC shows the second asleep without an entry in the list.
- A task killed while it waits stays in the wait list, and the release that reaches it
  is spent on it (the run Semaphore contains these behaviours).
- `sleep_task` says the switch happens at once (`task/signals.c:49`); the scheduler only
  switches when the quantum is over.
- The clock is drawn every `MS_PIT` ticks, the comment says each second
  (`interrupt/timer.c:220`).
- A struct of records whose only entry is freed has its page released but stays at
  the head of the list (`mm/phisicmem.c:449`), and `dealloc_pages` never looks at entry 0
  of a struct after the first (`mm/phisicmem.c:390`).
- `malloc` does not test the physical block for NULL (`mm/malloc.c:46`) and maps only its first page
  (`:72`), although the shell asks for more (LINE_MAXLEN is 5632).
- An unknown extended scancode stores the previous key again (`driver/keyboard.c:181`).
- The shell tests the state of a task and kills it later, with the interrupts enabled, so it may kill a task that has ended, or,
  blocked by a switch while it still has the processor, itself; and it accepts pids up to 999
  for a table of 100 (`apps/shell.c:497-507`).
- A shell that was left goes on drawing, on the console that took its place, until its quantum is
  over (`apps/shell.c:225-236` use `cur_console`).
- `conv_int_string` writes the digits behind those it sorts, in a buffer of 12 bytes: a number of six digits has its
  NUL behind the buffer, and seven run over what follows it (`libc/string.c:474`).
- `localtime` counts days of the week from Monday (`libc/time.c:585`), `strftime` names them from Sunday (`:43`).

## 4. Fairness

`FairSpec` assumes weak fairness of the timer interrupt: the PIT raises it for ever, and
no section keeps interrupts disabled for ever but a `round_robin` that finds nobody. That happens only after a console switch
has blocked the idle task (`RoundRobinEnds`); `timer_irq` is not enabled then, and fairness asks nothing of it; no task is
READY there either, so `ReadyTaskRuns` asks for nothing. In Semaphore and Delay `main` has stored its pid, and
it does not happen. Nothing is assumed of the tasks.
`SemFairSpec` and `DelayFairSpec` add strong fairness of the steps of a task that may be
waiting for the processor: such a step is enabled only while the task has the
processor, a quantum is milliseconds and a step a few instructions, so a task that is
given the processor again and again executes. `KbdFairSpec` assumes weak fairness of the steps of a
reader inside `sys_getche`: a shell that waits spins with the interrupts enabled and is never blocked in
that module. Nothing is assumed of the keyboard, and nothing forces a task to call `up`,
`sys_getche`, or any function at all.

## 5. Proofs

TLAPS checks what follows for every value of the constants that the named assumptions of the
modules allow. They say that sizes are natural numbers, and positive where the code has at least one of
a thing: `SchedulerAssumption`, `SemaphoreAssumption`, `TimerAssumption` (delays fit an unsigned long),
`PhysMemAssumption` (the kernel image lies in the kernel area, that in the machine), `KeyboardAssumption`,
`ConsoleAssumption`, `PagingAssumption`, `ClockTextAssumption` (fields of at most five digits, numbers any integers),
`WorkAssumption` (the idle task is no shell), `OutputAssumption`, `StrftimeAssumption` (the fields of a time are in the ranges `localtime` gives, months 12 and 13 included), `VFloppyAssumption`,
`CStringAssumption` (letters are bytes other than NUL), `CalendarAssumption` (the years 2000 to 2079 that two digits of the
clock give, and a second of the day), `CommandLineAssumption` and `WordCharsAssumption` (the quote, the space and the NUL are
three characters, and none of them is another one), `ScreenAssumption` (two header rows and two more, a tab and a clock that are
shorter than a row, a word that holds every place of the screen) and `ShellAssumption`. The last keeps letters,
function keys and control characters apart (NUL and the bell are typed beside the letters), lets the prompt be any text without
control characters that is shorter than a row, wants
the two line ends of `Welcome`, and bounds a line (`MaxLen`) so that a row stays free below it: the code checks
no length, and with a line of more rows than the screen has the first one is gone. TLC evaluates each of
them in the run of its module. No theorem has a hypothesis beyond its specification, except
`KeyboardReadsTypedKey`, which is about one reader.

Every safety proof has the same form: the property is a consequence of an inductive invariant, an
`...InitInv` or `...Starts` lemma says it holds at first, and one lemma per action says that the action keeps it.

**TaskProofs, the table.** `TypeOK` is inductive by itself (`TypeCorrect`); the lemma `SchedulerTypeOK` covers what
`scheduler` does to any table an interrupt handler may leave. `RunningIsCurrent`, `RoundRobinAlwaysEnds`,
`QuantumFresh` and `KilledForEver` come from `SchedulerInv`, for none of them is inductive alone.
`RoundRobinEnds` needs the idle task to be READY or RUNNING unless a switch has blocked it, which needs that it never sleeps,
ends or is killed, by a kill command that was tested some steps ago either (the conjunct on `target`); and the idle task
is READY, not RUNNING, while another task has the processor, by
`RunningHasProcessor`. Killed tasks stay dead because a killed task with the processor is one that
ended and executes nothing but the loop of `end_task`, or a shell that killed itself and never sleeps (the last conjunct).

**TaskProofs, what tasks sleep on.** The semaphore: `CounterIsExact` and `NeverOverlent` come from `CounterInv`, the two properties with the types
of the counter and the points. A step adds or removes one task of `Holders` or `Refused`, or neither, and
the lemmas `Acquires`, `IsRefused`, `UndoesRefusal`, `Releases`, `MovesElsewhere` say what it does to the
sizes of the two sets. `SemaphoreKeepsPromise`: a successful `down_dec` is `Acquire`, `up_inc` is `Release`,
every other step is a stutter of CountingSemaphore. `WokenInOrder` needs only the types: `down_queue`
appends, and the one step that shortens the list is the release. `WaitersSleep` comes from `WaitInv`: the list holds no
task twice, and a task of it that has gone to sleep is BLOCKED, or KILLED, until a release removes it
(`WaitersAreAsleep`, `AsleepInList`), for `down` goes on only from another state and by `SchedulerInv` a killed task
never runs again. Both hold whatever `memcmp` answers. `SemTypeCorrect`: every step of Semaphore is a step of
Scheduler for the table (`SemStepsAreScheduled`), so `SchedulerInv` carries over.

The timers: `TimersSound`, `DelaysAreTimeLeft`, `TimersFireWhenDue` and `TimersLostOnlyToLater` come from
`TimerInv`: the types, `ListSound`, `DelayIsTimeLeft` and `HandlesOnce`. That the list is in the order of
registration needs that a handle not yet given out has no fate (`HandlesOnce`). That a timer fires when the time asked for is over
needs `DelayIsTimeLeft`, across the wrap of the counter (`WrapTick`, and `ZeroIsFresh` for the one exception). `IsrTimerLinks` says what the loop of
`isr_timer` leaves linked, the suffix behind the last timer that fired. Delay changes the timers by
steps of Timer only, so all of this carries over (`DelayUsesTimers`, a refinement). `DelayNeverEarly` then comes from
`DelayInv`, which adds that the timer a task sleeps on names that task, and no other task's timer does
(`TimersNameTheirCallers`). It is about tasks that live: a killed one is neither woken nor returns.

**PhysMemProofs.** `MemAreasApart`, `MemBlocksDisjoint` and `MemRecordsAreBlocks` come from `MemInv`. The areas need
that the flag is that of the one call that has not read it yet, and is down for a nested call (`FlagIsCallers`, `ForKernel`).
Disjoint blocks need the same of the blocks found and not yet marked, recorded or given back, those a nested call found included
(`BlocksApart`), and that each page of a struct of the list is either
marked and nobody's (`LiveStruct`) or was freed once and will not be again (`SpentStruct`): without the
second, the struct whose last entry is freed (`mm/phisicmem.c:449`) breaks the induction. The records need that one call at a
time is in the list and that the index it has read is free (`ListAlone`). `RecordsOnce` says without
counting that the records are the blocks, each once.

**ConsoleSwitchProofs.** `ConsolesOneShellAwake`, `ConsolesNeverSpin`, `ConsolesRevive` and `ConsolesDeaf` come from
`SwitchInv`. Unless a key came too early, the idle task can be given the processor (`IdleReady`); the
shell of a console belongs to it and sleeps while another is on the screen (`ShellsPlaced`); and a shell that was
replaced is dead and has the processor only while its successor has not run (`ReplacedAreDead`), for otherwise it could
still enable or disable the keyboard. `StartUp` is about the states before `main` has stored the first pid.
For Keyboard alone, `KeyboardTyped` proves that the last key typed is the last of the buffer or lost with all of it
(`LastKeyKept`), with any number of readers. `KeyboardReadsTypedKey` adds that the one reader has seen a
key when it is past its loop (`OneReaderSees`); with several the keys of one go to another, which is why it has
its hypothesis. The module ConsoleSwitch, where shells are several, does not claim it.

**PagingProofs.** `PagingTyped`, `PagingBlocksTranslate`, `PagingStale` and `PagingEmptyTables` come from `PagingInv`.
As long as no table is lost, no two entries of the directory share a table and the window differs from the
directory only at the entry `malloc` is about to write (`TablesApart`), which is what makes a write through the window
reach its table. `EntriesKnown` and `TlbKnown` say whose an entry of a table and a remembered translation
are; `EmptyKnown` is `EmptyTablesGone` at every point of `malloc`.

**PartsProofs.** Six parts that no other uses.
- `DiskAloneUnlessRaced`, from `VFloppyInv`: that a sector is whole after the second half of a copy needs that the
  first half still agrees with the buffer (`CopyUnderWay`), which needs that nobody else copied in between
  (`BusyIsOne`), that what is written is whole and that the tests admitted an existing sector
  (`CallsSound`, which holds whatever races happened).
- `OutputFlushedFaithfully`, from `OutInv`: the text of a hidden console rises and ends at its index, or fills the buffer
  and ends in the padding byte behind it (`HiddenSound`). The memset of the
  wrong buffer (`kernel/syscall.c:251`) is harmless only because the buffer of the console on the screen is empty, so
  that is a conjunct.
- `FormatsFit`, from `StrftimeInv`: the count that `strftime` keeps bounds the text up to eight characters for each
  `%x` and `%X` as long as `%c` names a month of the year, and `CallersCounted` says how much the prefixes of the callers' three formats have used.
- `CalendarKeepsDates`, from `CalendarInv`: the walk of `localtime` stands on the day whose number is that of the
  iterations it has gone, which fixes the date, and that number modulo seven is the day of the week (`WalkIsDay`). The
  sum over the months that `mktime` makes is that of their starts (`MonthByMonth`), two dates with the same number are the same
  (`DateUnique`), and `ReturnedDate` says what `localtime` gives of the seconds `mktime` makes of a date.
- `CStringKeepsContract`, from the invariant that the memory is one of bytes. What a string function computes is
  independent of how the memory came about, so `StringContract` is one lemma for each group, `ComparisonsHold`,
  `SearchesHold` and `CopiesHold`, of every memory of numbers. It holds also of memories without a string;
  `CStringAgrees` is the part the run checks.
- `LineSplitAsTyped`, from `LineInv`: while the line is read the words typed so far are in their rows, but for
  the place that is written next, where a quote may be left. `Split` is a fold over the line; `SplitOn` says what one more
  character makes of it, `HarmlessBefore` and `FitsBefore` that a line that is harmless and fits was so before its last one.

**ShellProofs.** `ShellImplementsEditor`: the arrays and indices of `LeggiDaKeyboard` implement LineEditor, from `EditorInv`. The
copy of the line being written is read as a string when the user comes down from the history; that it is still
one needs `DraftKept`: an edit writes the beginning of the copy without a NUL, but it also ends browsing. That the cursor has its
place in it is not so of a line with a NUL before the cursor; `handle_undefined` is that step.
`HistoryKept` says that the array holds the last lines entered. The lemmas on `strcpy` (`Copied`, `Overwritten`) and on
the two sides of a cursor (`Sides`, `Inserted`, `RemovedAt`, `OneLess`) turn shifts of an array into the moves of the editor.

`ShellShowsLine` and `PromptNotErased` come from `EditorInv` and `ScreenInv`. Wherever the shell prints, the cursor is on
the screen, below the header, and agrees with the place in the video memory (`Sound`). From a key to the next the rows of
the line end above the last row of the screen, the block of the screen is right after the prompt (`LineAt`), the
prompt and the line are shown and the cursor is at its place (`Showing_line`). The free row is what keeps the line on the
screen: it takes the line end that the prompt prints to make room, and the cursor behind a row that is full. The line moves when
the screen scrolls; that `startline` and the block move with it is `NewlinesFollowed`, for the line ends that
`LeggiDaKeyboard` prints to make room, one `Scrolled` each. Between the press of a key and its handling only the echo of
`sys_getche` has changed the screen, at the cursor or one place before it and never before the block, so the prompt still
stands; the redrawing puts everything else back. `PutsText` says what a text leaves on the screen, by `PutsRun`, the fold of `putk`
over its characters, first those before a bell and then the others (`PutsPrefix`), and `Redrawn` what one redrawing does.

**ClockTextProofs.** `ClockTextEnds` comes from `EndsInv`: a conversion by the interrupt leaves a NUL at or behind each
place that had one at or behind it (`ConvertedEnds`), and the text of the task fits, because its places, once
reversed and once in order, and the sign leave the last byte free (`RoomLeft`); with six digits they do not, and
the NUL is behind the buffer; longer numbers end the task's run at once. `ClockTextRight` comes from `RightInv`, which says of an undisturbed text what has been read of
the clock (`DateRead`), which digits are in the buffer, reversed or in order (`NumberConverted`), and what has been copied out
(`TextCopied`). The digits are a function of the powers of ten, not a recursion, so that nothing
needs induction: `PlacesUnique`, `LastDigit` and `NextPower` say how many there are and what a division by ten leaves.

**SequenceLemmas** holds what the other proofs need and the libraries do not prove. `MinIs`, `MinIsLeast` and
`MaxIsGreatest` say what the least and the greatest of a set of numbers are, `RemoveAtProperties` what `RemoveAt` leaves.
Where a definition walks data the proof needs an induction, and the induction theorems of the library, which take
an operator, cannot be used. `LeastNatural` stands in for them: every set of natural numbers has a least element, so the set of the
counterexamples has one, and what comes before it holds. `UpTo` is the same as a step from each number to the next. A fold or a
recursive function is defined as a chosen function that satisfies its equation; `FoldExists` and
`WalkExists` show that there is one, and with `FirstK` the fold over a sequence becomes a function of how much of it was read.

Only model-checked are liveness (`ReadyTaskRuns`, `UpReturns`, `SleepEndsUnlessLost`, `KeyEndsGetche`), which is beyond
this prover, and with it whatever is ENABLED. Every invariant and every safety property of a step that a run
checks is the statement of a theorem. The two findings, `NoSleepBesideFreeUnit` and `PagesBecomeFree`, are violated.

## 6. Plan

All modules planned exist, and all the safety the runs check is proved. What would come next:

1. Composition: a Scheduler with quanta under ConsoleSwitch, to replace its reduced round robin.
2. PhysMem: the entries of a struct in their order, for the misses of `dealloc_pages` beyond the one of PagesLeak.

The type invariants `KbdTypeOK`, `SwitchTypeOK` and `ShellTypeOK`, and `SchedulerInv`, hold on the
instances above; the runs leave their room to the properties that follow from them.

Not modelled, and why: page contents, descriptor tables, interrupt controller and
port writes (hardware set-up executed once), exception handlers (print and halt), the colours and
texts of the commands (wording), `%f`, `%s` and `%x` of `vsprintf` and `pow` (formatting), `size_mem` (probes the RAM),
`GetTypeFloppy` (asks the hardware), `scank`, `delete_sem` and the `wait_*` functions without a caller, the file
system (not compiled).
