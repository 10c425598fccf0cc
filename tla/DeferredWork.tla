---------------------------- MODULE DeferredWork ----------------------------
(***************************************************************************)
(* The example modules that defer work - to a tasklet, a work item, a      *)
(* timer or a thread - and how each of them is unloaded while that work is *)
(* pending.  In userdata.c an ioctl waits for the result of the work.      *)
(* taskletuserdata.c is not one of them: its ioctl initialises a tasklet   *)
(* that may be queued, and what the kernel does then is undefined.         *)
(*                                                                         *)
(* The kernel's part is external: an item waits in a queue, one at a time  *)
(* runs, and an item that is queued already is not queued again.           *)
(***************************************************************************)
EXTENDS Naturals, Sequences

CONSTANTS Callers,   \* processes that call the ioctl
          Inputs,    \* their arguments
          None       \* no item

\* Mutant: the exit of workqueu.c does not wait either.
ExitStepsUnflushed ==
  [top_bottom      |-> <<"wait", "free_irq">>,
   tasklet         |-> <<"wait">>,
   workqueu        |-> <<>>,
   wrkqueue        |-> <<"free_irq">>,
   userdata        |-> <<"wait">>,
   simple_pseduo   |-> <<"close", "cancel">>,
   simple2_pseduo  |-> <<"close", "cancel">>,
   simple_kthred   |-> <<"cancel">>,
   completion      |-> <<>>]

\* The module exit of each example.  "wait" (tasklet_kill, flush_workqueue) waits
\* until nothing is queued or runs, "cancel" (del_timer_sync, kthread_stop) takes
\* a queued item away and waits for one that runs, "free_irq" and "close"
\* (netif_running becomes false) end the events.
ExitSteps ==
  [top_bottom      |-> <<"wait", "free_irq">>,
   tasklet         |-> <<"wait">>,
   workqueu        |-> <<"wait">>,
   wrkqueue        |-> <<"free_irq">>,
   userdata        |-> <<"wait">>,
   simple_pseduo   |-> <<"close", "cancel">>,
   simple2_pseduo  |-> <<"close", "cancel">>,
   simple_kthred   |-> <<"cancel">>,
   completion      |-> <<>>]

Examples == DOMAIN ExitSteps
IrqExamples == {"top_bottom", "wrkqueue"}
NetExamples == {"simple_pseduo", "simple2_pseduo"}

\* The item of an example that has only one.
TheItem == "item"

VARIABLES
  example,    \* which of the modules is loaded
  stage,      \* "loaded", "exit", "gone"
  step,       \* steps of the exit that have been done
  source,     \* is the IRQ requested, the interface up?
  queue,      \* items that are queued
  current,    \* the item that runs
  result,     \* the local variable of each process that its work item writes
  caller      \* the processes in the ioctl

vars == <<example, stage, step, source, queue, current, result, caller>>

NoCall == [pc |-> "idle", in |-> 0, out |-> 0]

\* Module init: an item is queued by the init of four of the examples, and by the
\* handler that the init of wrkqueue.c calls.
Init ==
  /\ example \in Examples
  /\ stage = "loaded" /\ step = 0
  /\ source = (example \in IrqExamples)
  /\ queue = IF example \in {"tasklet", "workqueu", "wrkqueue", "simple_kthred", "completion"}
             THEN <<TheItem>> ELSE <<>>
  /\ current = None /\ result = [c \in Callers |-> 0]
  /\ caller = [c \in Callers |-> NoCall]

Queued(item) == \E i \in DOMAIN queue : queue[i] = item
Schedule(item) == queue' = IF Queued(item) THEN queue ELSE Append(queue, item)

-----------------------------------------------------------------------------
\* The interrupt handlers of top_bottom.c and wrkqueue.c, as long as the IRQ is
\* requested, also during the exit.
Interrupt ==
  /\ example \in IrqExamples /\ source
  /\ Schedule(TheItem)
  /\ UNCHANGED <<example, stage, step, source, current, result, caller>>

\* pseudo_open starts the timer; the interface goes down (netif_running becomes
\* false) before pseudo_stop deletes it.
PseudoOpen ==
  /\ example \in NetExamples /\ stage = "loaded" /\ ~source
  /\ queue = <<>> /\ current = None
  /\ source' = TRUE /\ queue' = <<TheItem>>
  /\ UNCHANGED <<example, stage, step, current, result, caller>>

PseudoClose ==
  /\ example \in NetExamples /\ stage = "loaded" /\ source
  /\ source' = FALSE
  /\ UNCHANGED <<example, stage, step, queue, current, result, caller>>

PseudoStop ==
  /\ example \in NetExamples /\ stage = "loaded" /\ ~source
  /\ current = None /\ queue # <<>> /\ queue' = <<>>
  /\ UNCHANGED <<example, stage, step, source, current, result, caller>>

\* An item starts: it is no longer queued, and may be queued again.
Start ==
  /\ current = None /\ queue # <<>>
  /\ current' = Head(queue) /\ queue' = Tail(queue)
  /\ UNCHANGED <<example, stage, step, source, result, caller>>

\* What an item does, and whether it is queued again: the timer of simple_pseduo.c
\* unless it gets no skb, that of simple2_pseduo.c while the interface is up, the
\* thread until kthread_stop.
Again ==
  CASE example = "simple_pseduo" -> {TRUE, FALSE}
    [] example = "simple2_pseduo" -> {source}
    [] example = "simple_kthred" -> {TRUE}
    [] OTHER -> {FALSE}

Finish ==
  /\ current # None /\ current' = None
  /\ \E again \in Again : IF again THEN Schedule(current) ELSE UNCHANGED queue
  /\ result' = IF example = "userdata" THEN [result EXCEPT ![current] = 2 * caller[current].in]
               ELSE result
  /\ UNCHANGED <<example, stage, step, source, caller>>

-----------------------------------------------------------------------------
\* The ioctl of userdata.c: each call has a work item of its own, and its own result.
Ioctl(c, v) ==
  /\ example = "userdata" /\ stage = "loaded" /\ caller[c].pc \in {"idle", "done"}
  /\ result' = [result EXCEPT ![c] = 0]
  /\ caller' = [caller EXCEPT ![c] = [pc |-> "schedule", in |-> v, out |-> 0]]
  /\ UNCHANGED <<example, stage, step, source, queue, current>>

IoctlSchedule(c) ==
  /\ caller[c].pc = "schedule"
  /\ Schedule(c)
  /\ caller' = [caller EXCEPT ![c].pc = "wait"]
  /\ UNCHANGED <<example, stage, step, source, current, result>>

\* Mutant: the wait looks at what runs.
WaitedForRunning(c) == current = None

\* flush_workqueue waits for what was queued before.
Waited(c) == ~Queued(c) /\ current # c

IoctlReturn(c) ==
  /\ caller[c].pc = "wait" /\ Waited(c)
  /\ caller' = [caller EXCEPT ![c].pc = "done", ![c].out = result[c]]
  /\ UNCHANGED <<example, stage, step, source, queue, current, result>>

-----------------------------------------------------------------------------
\* rmmod, when no ioctl holds the module.
BeginExit ==
  /\ stage = "loaded" /\ \A c \in Callers : caller[c].pc \in {"idle", "done"}
  /\ stage' = "exit"
  /\ UNCHANGED <<example, step, source, queue, current, result, caller>>

ExitStep ==
  LET s == ExitSteps[example][step + 1]
  IN /\ stage = "exit" /\ step < Len(ExitSteps[example])
     /\ s = "wait" => queue = <<>> /\ current = None
     /\ s = "cancel" => current = None
     /\ queue' = IF s = "cancel" THEN <<>> ELSE queue
     /\ source' = (source /\ s \notin {"free_irq", "close"})
     /\ step' = step + 1
     /\ UNCHANGED <<example, stage, current, result, caller>>

Gone ==
  /\ stage = "exit" /\ step = Len(ExitSteps[example])
  /\ stage' = "gone"
  /\ UNCHANGED <<example, step, source, queue, current, result, caller>>

Next ==
  \/ Interrupt \/ PseudoOpen \/ PseudoClose \/ PseudoStop \/ Start \/ Finish \/ BeginExit \/ ExitStep \/ Gone
  \/ \E c \in Callers : IoctlSchedule(c) \/ IoctlReturn(c) \/ \E v \in Inputs : Ioctl(c, v)

Spec == Init /\ [][Next]_vars

-----------------------------------------------------------------------------
\* The state is well typed.
TypeOK ==
  /\ example \in Examples /\ stage \in {"loaded", "exit", "gone"}
  /\ step \in 0 .. Len(ExitSteps[example]) /\ source \in BOOLEAN
  /\ queue \in Seq(Callers \cup {TheItem}) /\ current \in Callers \cup {TheItem, None}
  /\ result \in [Callers -> Nat]
  /\ caller \in [Callers -> [pc : {"idle", "schedule", "wait", "done"}, in : Nat, out : Nat]]

\* The code of a module does not run after the module is gone.  Three of the nine
\* do not promise it: top_bottom.c, which waits for the tasklet before it frees the
\* IRQ, wrkqueue.c, whose flush is commented out, and completion.c, whose thread
\* nobody waits for.
QuietWhenGone ==
  stage = "gone" /\ example \notin {"top_bottom", "wrkqueue", "completion"} =>
    queue = <<>> /\ current = None /\ ~source

\* Processes that call userdata.c at the same time each get the double of their
\* own argument.
ResultIsOwn ==
  \A c \in Callers :
    example = "userdata" /\ caller[c].pc = "done" => caller[c].out = 2 * caller[c].in
=============================================================================
