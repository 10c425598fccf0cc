------------------------- MODULE DeferredWorkProofs -------------------------
(***************************************************************************)
(* Proofs about DeferredWork: six of the nine example modules leave        *)
(* nothing behind when they are unloaded, and every process that calls     *)
(* userdata.c gets its own result, for every set of processes and of       *)
(* arguments.                                                              *)
(***************************************************************************)
EXTENDS DeferredWork, Integers, TLAPS

\* No process is the absent item, and arguments are numbers.
Given == None \notin Callers /\ Inputs \subseteq Nat

\* The examples that promise to be quiet.
Careful == Examples \ {"top_bottom", "wrkqueue", "completion"}

-----------------------------------------------------------------------------
(* The inductive invariant.                                                *)

\* The exit goes step by step, when no ioctl holds the module; the events have ended
\* before the work is cancelled; and after the last step nothing is left.
ExitOrder ==
  /\ stage = "loaded" => step = 0
  /\ stage # "loaded" => \A c \in Callers : caller[c].pc \in {"idle", "done"}
  /\ stage = "gone" => step = Len(ExitSteps[example])
  /\ source => example \in NetExamples \cup IrqExamples
  /\ example \in NetExamples /\ step >= 1 => ~source
  /\ example \in Careful /\ step = Len(ExitSteps[example]) =>
       queue = <<>> /\ current = None /\ ~source

\* In userdata.c each process has its own item, which is queued or runs only while
\* the process waits for it; if it does not any more, the result is there.
OwnItems ==
  example = "userdata" =>
    /\ queue \in Seq(Callers) /\ current \in Callers \cup {None}
    /\ \A c \in Callers :
         /\ caller[c].pc # "wait" => ~Queued(c) /\ current # c
         /\ caller[c].pc = "wait" /\ ~Queued(c) /\ current # c => result[c] = 2 * caller[c].in
         /\ caller[c].pc = "done" => caller[c].out = 2 * caller[c].in

IInv == TypeOK /\ ExitOrder /\ OwnItems
-----------------------------------------------------------------------------
(* The steps of the exits, and queues.                                     *)

\* What the exit functions do, one after the other.
LEMMA ExitStepsAre ==
  /\ Examples = {"top_bottom", "tasklet", "workqueu", "wrkqueue",
                 "userdata", "simple_pseduo", "simple2_pseduo", "simple_kthred", "completion"}
  /\ \A e \in {"tasklet", "workqueu", "userdata"} :
       ExitSteps[e] = <<"wait">>
  /\ ExitSteps["simple_kthred"] = <<"cancel">>
  /\ \A e \in NetExamples : ExitSteps[e] = <<"close", "cancel">>
  /\ ExitSteps["top_bottom"] = <<"wait", "free_irq">>
  /\ ExitSteps["wrkqueue"] = <<"free_irq">>
  /\ ExitSteps["completion"] = <<>>
BY DEF Examples, ExitSteps, NetExamples

\* How many steps they have, and which the careful ones begin with.
LEMMA ExitLengths ==
  /\ \A e \in Examples : Len(ExitSteps[e]) \in Nat
  /\ \A e \in Careful \ NetExamples :
       Len(ExitSteps[e]) = 1 /\ ExitSteps[e][1] \in {"wait", "cancel"}
  /\ NetExamples \subseteq Careful /\ IrqExamples \cap Careful = {}
  /\ \A e \in NetExamples :
       Len(ExitSteps[e]) = 2 /\ ExitSteps[e][1] = "close" /\ ExitSteps[e][2] = "cancel"
<1>1. /\ Len(<<"wait">>) = 1 /\ <<"wait">>[1] = "wait"
      /\ Len(<<"cancel">>) = 1 /\ <<"cancel">>[1] = "cancel"
      /\ Len(<<"close", "cancel">>) = 2
      /\ <<"close", "cancel">>[1] = "close" /\ <<"close", "cancel">>[2] = "cancel"
      /\ Len(<<"wait", "free_irq">>) = 2 /\ Len(<<"free_irq">>) = 1 /\ Len(<<>>) = 0
  OBVIOUS
<1>2. Careful \ NetExamples = {"tasklet", "workqueu", "userdata", "simple_kthred"}
  BY ExitStepsAre DEF Careful, NetExamples
<1>3. NetExamples \subseteq Careful /\ IrqExamples \cap Careful = {}
  BY ExitStepsAre DEF Careful, NetExamples, IrqExamples
<1>4. \A e \in Examples :
        \/ e \in {"tasklet", "workqueu", "userdata", "simple_kthred"}
        \/ e \in NetExamples \/ e \in {"top_bottom", "wrkqueue", "completion"}
  BY ExitStepsAre DEF NetExamples
<1>5. \A e \in Careful \ NetExamples :
        Len(ExitSteps[e]) = 1 /\ ExitSteps[e][1] \in {"wait", "cancel"}
  BY <1>1, <1>2, ExitStepsAre
<1>6. \A e \in NetExamples :
        Len(ExitSteps[e]) = 2 /\ ExitSteps[e][1] = "close" /\ ExitSteps[e][2] = "cancel"
  BY <1>1, ExitStepsAre
<1>7. \A e \in {"top_bottom", "wrkqueue", "completion"} : Len(ExitSteps[e]) \in Nat
  BY <1>1, ExitStepsAre
<1> QED BY <1>2, <1>3, <1>4, <1>5, <1>6, <1>7

\* What Append does to a queue of work.
LEMMA Appended ==
  ASSUME NEW S, NEW q \in Seq(S), NEW e \in S
  PROVE  /\ Append(q, e) \in Seq(S) /\ Append(q, e) # <<>>
         /\ \A x : (\E i \in DOMAIN Append(q, e) : Append(q, e)[i] = x)
                     <=> x = e \/ \E i \in DOMAIN q : q[i] = x
<1>1. /\ Append(q, e) \in Seq(S) /\ Len(Append(q, e)) = Len(q) + 1 /\ Len(q) \in Nat
      /\ \A i \in 1 .. Len(q) : Append(q, e)[i] = q[i]
      /\ Append(q, e)[Len(q) + 1] = e
  OBVIOUS
<1>2. DOMAIN q = 1 .. Len(q) /\ DOMAIN Append(q, e) = 1 .. Len(q) + 1
  BY <1>1
<1>3. \A i \in 1 .. Len(q) + 1 : i \in 1 .. Len(q) \/ i = Len(q) + 1
  BY <1>1
<1>4. \A i \in 1 .. Len(q) : i \in 1 .. Len(q) + 1
  BY <1>1
<1>5. Len(q) + 1 \in 1 .. Len(q) + 1
  BY <1>1
<1>6. Append(q, e) # <<>>
  <2>1. Len(<<>>) = 0
    OBVIOUS
  <2> QED BY <1>1, <2>1
<1> QED BY <1>1, <1>2, <1>3, <1>4, <1>5, <1>6

\* What running its oldest work does to a queue.
LEMMA Dequeued ==
  ASSUME NEW S, NEW q \in Seq(S), q # <<>>
  PROVE  /\ Tail(q) \in Seq(S) /\ Head(q) \in S
         /\ \A x : (\E i \in DOMAIN q : q[i] = x) =>
                     x = Head(q) \/ \E i \in DOMAIN Tail(q) : Tail(q)[i] = x
         /\ \A x : (\E i \in DOMAIN Tail(q) : Tail(q)[i] = x) => \E i \in DOMAIN q : q[i] = x
<1>1. /\ Tail(q) \in Seq(S) /\ Head(q) \in S /\ Head(q) = q[1]
      /\ Len(Tail(q)) = Len(q) - 1 /\ Len(q) \in Nat \ {0}
      /\ \A k \in 1 .. Len(q) - 1 : Tail(q)[k] = q[k + 1]
  OBVIOUS
<1>2. DOMAIN q = 1 .. Len(q) /\ DOMAIN Tail(q) = 1 .. Len(q) - 1
  BY <1>1
<1>3. \A i \in 1 .. Len(q) : i = 1 \/ (i - 1 \in 1 .. Len(q) - 1 /\ (i - 1) + 1 = i)
  BY <1>1
<1>4. \A i \in 1 .. Len(q) - 1 : i + 1 \in 1 .. Len(q)
  BY <1>1
<1>5. \A x : (\E i \in DOMAIN q : q[i] = x) =>
               x = Head(q) \/ \E i \in DOMAIN Tail(q) : Tail(q)[i] = x
  <2>1. SUFFICES ASSUME NEW i \in 1 .. Len(q), i # 1
                 PROVE  i - 1 \in DOMAIN Tail(q) /\ Tail(q)[i - 1] = q[i]
    BY <1>1, <1>2
  <2>2. i - 1 \in 1 .. Len(q) - 1 /\ (i - 1) + 1 = i
    BY <1>3, <2>1
  <2> QED BY <1>1, <1>2, <2>2
<1>6. \A x : (\E i \in DOMAIN Tail(q) : Tail(q)[i] = x) => \E i \in DOMAIN q : q[i] = x
  BY <1>1, <1>2, <1>4
<1> QED BY <1>1, <1>5, <1>6

\* What an item in Schedule may be, and what is queued after it.
LEMMA Scheduled ==
  ASSUME NEW S, queue \in Seq(S), NEW item \in S, Schedule(item)
  PROVE  /\ queue' \in Seq(S) /\ queue' # <<>>
         /\ \A x : Queued(x)' <=> Queued(x) \/ x = item
<1>1. CASE Queued(item)
  <2>1. queue' = queue
    BY <1>1 DEF Schedule
  <2>2. queue # <<>>
    BY <1>1 DEF Queued
  <2> QED BY <1>1, <2>1, <2>2 DEF Queued
<1>2. CASE ~Queued(item)
  <2>1. queue' = Append(queue, item)
    BY <1>2 DEF Schedule
  <2> QED BY <2>1, Appended DEF Queued
<1> QED BY <1>1, <1>2
-----------------------------------------------------------------------------
(* The steps.                                                              *)

\* A module is loaded with nothing queued.
LEMMA InitIInv == ASSUME Given, Init PROVE IInv
<1>1. /\ example \in Examples /\ stage = "loaded" /\ step = 0
      /\ source = (example \in IrqExamples) /\ current = None
      /\ result = [c \in Callers |-> 0]
      /\ caller = [c \in Callers |-> NoCall]
      /\ queue = <<>> \/ (queue = <<TheItem>> /\ example # "userdata")
  BY DEF Init
<1>2. queue \in Seq(Callers \cup {TheItem})
  <2>1. TheItem \in Callers \cup {TheItem}
    OBVIOUS
  <2>2. <<>> \in Seq(Callers \cup {TheItem}) /\ <<TheItem>> \in Seq(Callers \cup {TheItem})
    BY <2>1
  <2> QED BY <1>1, <2>2
<1>3. TypeOK
  <2>1. 0 \in 0 .. Len(ExitSteps[example])
    BY <1>1, ExitLengths
  <2> QED BY <1>1, <1>2, <2>1 DEF TypeOK, NoCall
<1>4. ExitOrder
  <2>1. example \in Careful => Len(ExitSteps[example]) # 0 /\ example \notin IrqExamples
    BY <1>1, ExitLengths
  <2>2. step = 0 /\ ~(step >= 1)
    BY <1>1
  <2> QED BY <1>1, <2>1, <2>2 DEF ExitOrder
<1>5. OwnItems
  <2>1. SUFFICES ASSUME example = "userdata" PROVE OwnItems
    BY DEF OwnItems
  <2>2. queue = <<>> /\ \A c \in Callers : ~Queued(c) /\ caller[c].pc = "idle" /\ current # c
    BY <1>1, <2>1 DEF Given, Queued, NoCall
  <2> QED BY <1>1, <2>2 DEF OwnItems
<1> QED BY <1>3, <1>4, <1>5 DEF IInv

\* The types of the state, one by one.
LEMMA Types ==
  ASSUME Given, IInv
  PROVE  /\ example \in Examples /\ stage \in {"loaded", "exit", "gone"}
         /\ Len(ExitSteps[example]) \in Nat /\ step \in Nat
         /\ step <= Len(ExitSteps[example]) /\ source \in BOOLEAN
         /\ queue \in Seq(Callers \cup {TheItem}) /\ current \in Callers \cup {TheItem, None}
         /\ result \in [Callers -> Nat]
         /\ caller \in [Callers -> [pc : {"idle", "schedule", "wait", "done"}, in : Nat, out : Nat]]
<1>1. Len(ExitSteps[example]) \in Nat
  BY ExitLengths DEF IInv, TypeOK
<1> QED BY <1>1 DEF IInv, TypeOK, Given

\* Steps of the work and of its events.
LEMMA WorkTypes ==
  ASSUME Given, IInv,
         Interrupt \/ PseudoOpen \/ PseudoClose \/ PseudoStop \/ Start \/ Finish
  PROVE  TypeOK'
<1> USE Types
<1>1. CASE Interrupt
  <2>1. queue' \in Seq(Callers \cup {TheItem})
    BY <1>1, Scheduled DEF Interrupt
  <2> QED BY <1>1, <2>1 DEF Interrupt, TypeOK
<1>2. CASE PseudoOpen
  <2>1. queue' \in Seq(Callers \cup {TheItem})
    BY <1>2 DEF PseudoOpen
  <2> QED BY <1>2, <2>1 DEF PseudoOpen, TypeOK
<1>3. CASE PseudoClose
  <2>1. /\ source' \in BOOLEAN
        /\ UNCHANGED <<example, stage, step, queue, current, result, caller>>
    BY <1>3 DEF PseudoClose
  <2> QED BY <2>1 DEF TypeOK
<1>4. CASE PseudoStop
  <2>1. queue' \in Seq(Callers \cup {TheItem})
    BY <1>4 DEF PseudoStop
  <2> QED BY <1>4, <2>1 DEF PseudoStop, TypeOK
<1>5. CASE Start
  <2>1. queue' \in Seq(Callers \cup {TheItem}) /\ current' \in Callers \cup {TheItem}
    BY <1>5, Dequeued DEF Start
  <2> QED BY <1>5, <2>1 DEF Start, TypeOK
<1>6. CASE Finish
  <2>1. /\ current \in Callers \cup {TheItem} /\ current' = None
        /\ UNCHANGED <<example, stage, step, source, caller>>
    BY <1>6 DEF Finish
  <2>2. queue' \in Seq(Callers \cup {TheItem})
    BY <1>6, <2>1, Scheduled DEF Finish
  <2>3. result' \in [Callers -> Nat]
    <3>1. CASE example = "userdata"
      <4>1. current \in Callers
        BY <2>1, <3>1, <1>6 DEF IInv, OwnItems, Finish
      <4>2. caller[current].in \in Nat
        BY <4>1
      <4>3. 2 * caller[current].in \in Nat
        BY <4>2
      <4> QED BY <1>6, <3>1, <4>3 DEF Finish
    <3>2. CASE example # "userdata"
      BY <1>6, <3>2 DEF Finish
    <3> QED BY <3>1, <3>2
  <2> QED BY <2>1, <2>2, <2>3 DEF TypeOK
<1> QED BY <1>1, <1>2, <1>3, <1>4, <1>5, <1>6

\* Steps of the processes and of the exit.
LEMMA CallerTypes ==
  ASSUME Given, IInv,
         \/ BeginExit \/ ExitStep \/ Gone
         \/ \E c \in Callers : IoctlSchedule(c) \/ IoctlReturn(c) \/ \E v \in Inputs : Ioctl(c, v)
  PROVE  TypeOK'
<1> USE Types
<1>1. CASE BeginExit
  BY <1>1 DEF BeginExit, TypeOK
<1>2. CASE ExitStep
  <2>1. /\ step < Len(ExitSteps[example]) /\ step' = step + 1
        /\ source' \in BOOLEAN /\ (queue' = <<>> \/ queue' = queue)
        /\ UNCHANGED <<example, stage, current, result, caller>>
    BY <1>2 DEF ExitStep
  <2>2. step' \in 0 .. Len(ExitSteps[example])
    BY <2>1
  <2>3. queue' \in Seq(Callers \cup {TheItem})
    <3>1. <<>> \in Seq(Callers \cup {TheItem})
      OBVIOUS
    <3> QED BY <2>1, <3>1
  <2> QED BY <2>1, <2>2, <2>3 DEF TypeOK
<1>3. CASE Gone
  BY <1>3 DEF Gone, TypeOK
<1>4. ASSUME NEW c \in Callers, NEW v \in Inputs, Ioctl(c, v) PROVE TypeOK'
  <2>1. v \in Nat
    BY DEF Given
  <2>2. result' \in [Callers -> Nat]
    BY <1>4 DEF Ioctl
  <2>3. caller' \in [Callers -> [pc : {"idle", "schedule", "wait", "done"}, in : Nat, out : Nat]]
    BY <1>4, <2>1 DEF Ioctl
  <2> QED BY <1>4, <2>2, <2>3 DEF Ioctl, TypeOK
<1>5. ASSUME NEW c \in Callers, IoctlSchedule(c) PROVE TypeOK'
  <2>1. queue' \in Seq(Callers \cup {TheItem})
    BY <1>5, Scheduled DEF IoctlSchedule
  <2>2. caller' \in [Callers -> [pc : {"idle", "schedule", "wait", "done"}, in : Nat, out : Nat]]
    BY <1>5 DEF IoctlSchedule
  <2> QED BY <1>5, <2>1, <2>2 DEF IoctlSchedule, TypeOK
<1>6. ASSUME NEW c \in Callers, IoctlReturn(c) PROVE TypeOK'
  <2>1. result[c] \in Nat
    OBVIOUS
  <2>2. caller' \in [Callers -> [pc : {"idle", "schedule", "wait", "done"}, in : Nat, out : Nat]]
    BY <1>6, <2>1, ZenonT(40) DEF IoctlReturn
  <2> QED BY <1>6, <2>2 DEF IoctlReturn, TypeOK
<1> QED BY <1>1, <1>2, <1>3, <1>4, <1>5, <1>6

\* What is left when the exit is done cannot come back.
LEMMA ExitOrderStep == ASSUME Given, IInv, Next PROVE ExitOrder'
<1> USE Types
<1>1. /\ stage = "loaded" => step = 0
      /\ stage # "loaded" => \A c \in Callers : caller[c].pc \in {"idle", "done"}
      /\ stage = "gone" => step = Len(ExitSteps[example])
      /\ source => example \in NetExamples \cup IrqExamples
      /\ example \in NetExamples /\ step >= 1 => ~source
      /\ example \in Careful /\ step = Len(ExitSteps[example]) =>
           queue = <<>> /\ current = None /\ ~source
  BY DEF IInv, ExitOrder
<1>2. \A e \in Careful : Len(ExitSteps[e]) >= 1
  BY ExitLengths DEF Careful
<1>3. example \in Careful => example \notin IrqExamples
  BY ExitLengths
<1>4. CASE Interrupt
  BY <1>1, <1>3, <1>4 DEF Interrupt, ExitOrder
<1>5. CASE PseudoOpen
  <2>1. /\ stage' = stage /\ stage = "loaded" /\ step' = step /\ step = 0
        /\ example \in NetExamples /\ example' = example /\ caller' = caller
    BY <1>1, <1>5 DEF PseudoOpen
  <2>2. step' # Len(ExitSteps[example]) /\ ~(step' >= 1)
    BY <1>2, <2>1, ExitLengths
  <2> QED BY <2>1, <2>2 DEF ExitOrder
<1>6. CASE PseudoClose \/ PseudoStop
  BY <1>1, <1>6 DEF PseudoClose, PseudoStop, ExitOrder
<1>7. CASE Start
  BY <1>1, <1>7 DEF Start, ExitOrder
<1>8. CASE Finish
  <2>1. current # None /\ UNCHANGED <<example, stage, step, source, caller>>
    BY <1>8 DEF Finish
  <2> QED BY <1>1, <2>1 DEF ExitOrder
<1>9. CASE BeginExit
  <2>1. /\ stage' = "exit" /\ \A c \in Callers : caller[c].pc \in {"idle", "done"}
        /\ UNCHANGED <<example, step, source, queue, current, caller>>
    BY <1>9 DEF BeginExit
  <2> QED BY <1>1, <2>1 DEF ExitOrder
<1>10. CASE Gone
  <2>1. /\ stage' = "gone" /\ stage = "exit" /\ step = Len(ExitSteps[example])
        /\ UNCHANGED <<example, step, source, queue, current, caller>>
    BY <1>10 DEF Gone
  <2> QED BY <1>1, <2>1 DEF ExitOrder
<1>11. CASE ExitStep
  <2> DEFINE s == ExitSteps[example][step + 1]
  <2>1. /\ stage = "exit" /\ step < Len(ExitSteps[example])
        /\ s = "wait" => queue = <<>> /\ current = None
        /\ s = "cancel" => current = None
        /\ queue' = IF s = "cancel" THEN <<>> ELSE queue
        /\ source' = (source /\ s \notin {"free_irq", "close"})
        /\ step' = step + 1
        /\ UNCHANGED <<example, stage, current, caller>>
    BY <1>11 DEF ExitStep
  <2>2. /\ example' \in NetExamples /\ step' >= 1 => ~source'
    <3>1. SUFFICES ASSUME example \in NetExamples, source' PROVE FALSE
      BY <2>1
    <3>2. source
      BY <2>1, <3>1
    <3>3. step = 0
      BY <1>1, <3>1, <3>2
    <3>4. step + 1 = 1
      BY <3>3
    <3>5. s = "close"
      BY <3>1, <3>4, ExitLengths
    <3> QED BY <2>1, <3>1, <3>5
  <2>3. ASSUME example \in Careful, step' = Len(ExitSteps[example])
        PROVE  queue' = <<>> /\ current' = None /\ ~source'
    <3>1. CASE example \in NetExamples
      <4>1. step + 1 = 2 /\ step >= 1
        BY <2>1, <2>3, <3>1, ExitLengths
      <4>2. s = "cancel"
        BY <3>1, <4>1, ExitLengths
      <4> QED BY <1>1, <2>1, <3>1, <4>1, <4>2
    <3>2. CASE example \notin NetExamples
      <4>1. step + 1 = 1
        BY <2>1, <2>3, <3>2, ExitLengths
      <4>2. s \in {"wait", "cancel"}
        BY <2>3, <3>2, <4>1, ExitLengths
      <4>3. ~source
        BY <1>1, <1>3, <2>3, <3>2
      <4> QED BY <2>1, <4>2, <4>3
    <3> QED BY <3>1, <3>2
  <2>4. source' => example' \in NetExamples \cup IrqExamples
    BY <1>1, <2>1
  <2> QED BY <1>1, <2>1, <2>2, <2>3, <2>4 DEF ExitOrder
<1>12. ASSUME NEW c \in Callers, NEW v \in Inputs, Ioctl(c, v) PROVE ExitOrder'
  <2>1. /\ stage = "loaded" /\ UNCHANGED <<example, stage, step, source, queue, current>>
    BY <1>12 DEF Ioctl
  <2> QED BY <1>1, <2>1 DEF ExitOrder
<1>13. ASSUME NEW c \in Callers, IoctlSchedule(c) PROVE ExitOrder'
  <2>1. /\ caller[c].pc = "schedule" /\ UNCHANGED <<example, stage, step, source, current>>
    BY <1>13 DEF IoctlSchedule
  <2>2. stage = "loaded" /\ step = 0
    BY <1>1, <2>1
  <2>3. example \in Careful => step' # Len(ExitSteps[example])
    BY <1>2, <2>1, <2>2
  <2> QED BY <1>1, <2>1, <2>2, <2>3 DEF ExitOrder
<1>14. ASSUME NEW c \in Callers, IoctlReturn(c) PROVE ExitOrder'
  <2>1. /\ caller[c].pc = "wait" /\ UNCHANGED <<example, stage, step, source, queue, current>>
    BY <1>14 DEF IoctlReturn
  <2>2. stage = "loaded"
    BY <1>1, <2>1
  <2> QED BY <1>1, <2>1, <2>2 DEF ExitOrder
<1> QED BY <1>4, <1>5, <1>6, <1>7, <1>8, <1>9, <1>10, <1>11, <1>12, <1>13, <1>14 DEF Next

\* Every process keeps its own item and its own result.
LEMMA OwnItemsStep == ASSUME Given, IInv, Next PROVE OwnItems'
<1> USE Types
<1>1. SUFFICES ASSUME example' = "userdata" PROVE OwnItems'
  BY DEF OwnItems
<1>2. example = "userdata"
  BY <1>1 DEF Next, Interrupt, PseudoOpen, PseudoClose, PseudoStop, Start, Finish, BeginExit,
              ExitStep, Gone, IoctlSchedule, IoctlReturn, Ioctl
<1>3. /\ queue \in Seq(Callers) /\ current \in Callers \cup {None}
      /\ \A c \in Callers :
           /\ caller[c].pc # "wait" => ~Queued(c) /\ current # c
           /\ caller[c].pc = "wait" /\ ~Queued(c) /\ current # c => result[c] = 2 * caller[c].in
           /\ caller[c].pc = "done" => caller[c].out = 2 * caller[c].in
  BY <1>2 DEF IInv, OwnItems
<1>4. CASE Interrupt \/ PseudoOpen \/ PseudoClose \/ PseudoStop
  BY <1>2, <1>4 DEF Interrupt, PseudoOpen, PseudoClose, PseudoStop, IrqExamples, NetExamples
<1>5. CASE BeginExit \/ Gone
  <2>1. UNCHANGED <<example, queue, current, result, caller>>
    BY <1>5 DEF BeginExit, Gone
  <2> QED BY <1>3, <2>1 DEF OwnItems, Queued
<1>6. CASE ExitStep
  <2>1. step = 0 /\ ExitSteps[example][step + 1] = "wait"
    <3>1. example \in Careful \ NetExamples /\ ExitSteps[example] = <<"wait">>
      BY <1>2, ExitStepsAre DEF Careful, NetExamples
    <3>2. step < Len(ExitSteps[example])
      BY <1>6 DEF ExitStep
    <3>3. step = 0 /\ step + 1 = 1
      BY <3>1, <3>2, ExitLengths
    <3> QED BY <3>1, <3>3
  <2>2. UNCHANGED <<example, queue, current, result, caller>>
    BY <1>6, <2>1 DEF ExitStep
  <2> QED BY <1>3, <2>2 DEF OwnItems, Queued
<1>7. CASE Start
  <2>1. /\ current = None /\ queue # <<>> /\ current' = Head(queue) /\ queue' = Tail(queue)
        /\ UNCHANGED <<example, result, caller>>
    BY <1>7 DEF Start
  <2>2. queue' \in Seq(Callers) /\ current' \in Callers
    BY <1>3, <2>1, Dequeued
  <2>3. ASSUME NEW c \in Callers
        PROVE  Queued(c) => Queued(c)' \/ current' = c
    <3>1. /\ \A x : (\E i \in DOMAIN queue : queue[i] = x) =>
                   x = Head(queue) \/ \E i \in DOMAIN Tail(queue) : Tail(queue)[i] = x
      BY <1>3, <2>1, Dequeued
    <3> QED BY <2>1, <3>1 DEF Queued
  <2>4. ASSUME NEW c \in Callers
        PROVE  Queued(c)' \/ current' = c => Queued(c)
    <3>1. Queued(Head(queue))
      <4>1. 1 \in DOMAIN queue /\ Head(queue) = queue[1]
        BY <1>3, <2>1
      <4> QED BY <4>1 DEF Queued
    <3>2. ASSUME \E i \in DOMAIN Tail(queue) : Tail(queue)[i] = c
          PROVE  \E i \in DOMAIN queue : queue[i] = c
      <4>1. \A x : (\E i \in DOMAIN Tail(queue) : Tail(queue)[i] = x) =>
                  \E i \in DOMAIN queue : queue[i] = x
        <5> HIDE Types
        <5> QED BY <1>3, <2>1, Dequeued
      <4> QED BY <3>2, <4>1
    <3> QED BY <2>1, <3>1, <3>2 DEF Queued
  <2>5. ASSUME NEW c \in Callers PROVE current # c
    BY <2>1 DEF Given
  <2> QED BY <1>3, <2>1, <2>2, <2>3, <2>4, <2>5 DEF OwnItems
<1>8. CASE Finish
  <2>1. /\ current # None /\ current' = None /\ queue' = queue
        /\ result' = [result EXCEPT ![current] = 2 * caller[current].in]
        /\ UNCHANGED <<example, caller>>
    BY <1>2, <1>8 DEF Finish, Again
  <2>2. current \in Callers
    BY <1>3, <2>1
  <2>3. ASSUME NEW c \in Callers
        PROVE  current' # c /\ result'[c] = IF c = current THEN 2 * caller[c].in ELSE result[c]
    BY <2>1, <2>2 DEF Given
  <2>4. ASSUME NEW c \in Callers PROVE Queued(c)' <=> Queued(c)
    BY <2>1 DEF Queued
  <2> QED BY <1>3, <2>1, <2>3, <2>4 DEF OwnItems
<1>9. ASSUME NEW c \in Callers, NEW v \in Inputs, Ioctl(c, v) PROVE OwnItems'
  <2>1. /\ caller[c].pc \in {"idle", "done"} /\ UNCHANGED <<example, queue, current>>
        /\ result' = [result EXCEPT ![c] = 0]
        /\ caller' = [caller EXCEPT ![c] = [pc |-> "schedule", in |-> v, out |-> 0]]
    BY <1>2, <1>9 DEF Ioctl
  <2>2. ASSUME NEW d \in Callers
        PROVE  /\ (Queued(d)' <=> Queued(d)) /\ current' = current
               /\ d # c => caller'[d] = caller[d] /\ result'[d] = result[d]
               /\ d = c => caller'[d].pc = "schedule" /\ ~Queued(d) /\ current # d
    BY <1>3, <2>1 DEF Queued
  <2> QED BY <1>3, <2>1, <2>2 DEF OwnItems
<1>10. ASSUME NEW c \in Callers, IoctlSchedule(c) PROVE OwnItems'
  <2>1. /\ caller[c].pc = "schedule" /\ Schedule(c)
        /\ caller' = [caller EXCEPT ![c].pc = "wait"]
        /\ UNCHANGED <<example, current, result>>
    BY <1>2, <1>10 DEF IoctlSchedule
  <2>2. queue' \in Seq(Callers) /\ \A x : Queued(x)' <=> Queued(x) \/ x = c
    BY <1>3, <2>1, Scheduled
  <2>3. ASSUME NEW d \in Callers
        PROVE  /\ d # c => caller'[d] = caller[d]
               /\ d = c => caller'[d].pc = "wait"
    BY <2>1
  <2> QED BY <1>3, <2>1, <2>2, <2>3 DEF OwnItems
<1>11. ASSUME NEW c \in Callers, IoctlReturn(c) PROVE OwnItems'
  <2>1. /\ caller[c].pc = "wait" /\ ~Queued(c) /\ current # c
        /\ caller' = [caller EXCEPT ![c].pc = "done", ![c].out = result[c]]
        /\ UNCHANGED <<example, queue, current, result>>
    BY <1>2, <1>11 DEF IoctlReturn, Waited
  <2>2. ASSUME NEW d \in Callers
        PROVE  /\ d # c => caller'[d] = caller[d]
               /\ d = c => /\ caller'[d].pc = "done" /\ caller'[d].in = caller[d].in
                           /\ caller'[d].out = result[d]
               /\ (Queued(d)' <=> Queued(d))
    BY <2>1 DEF Queued
  <2>3. result[c] = 2 * caller[c].in
    BY <1>3, <2>1
  <2> QED BY <1>3, <2>1, <2>2, <2>3, SMTT(30) DEF OwnItems
<1> QED BY <1>4, <1>5, <1>6, <1>7, <1>8, <1>9, <1>10, <1>11 DEF Next

\* Every step of every example keeps the inductive invariant.
LEMMA NextIInv == ASSUME Given, IInv, [Next]_vars PROVE IInv'
<1>1. CASE Next
  <2>1. TypeOK'
    BY <1>1, WorkTypes, CallerTypes DEF Next
  <2> QED BY <1>1, <2>1, ExitOrderStep, OwnItemsStep DEF IInv
<1>2. CASE UNCHANGED vars
  BY <1>2 DEF vars, IInv, TypeOK, ExitOrder, OwnItems, Queued
<1> QED BY <1>1, <1>2
-----------------------------------------------------------------------------
(* The theorems.                                                           *)

\* The inductive invariant holds for every set of processes and of arguments.
THEOREM Invariance == ASSUME Given PROVE Spec => []IInv
<1>1. Init => IInv
  BY InitIInv
<1>2. IInv /\ [Next]_vars => IInv'
  BY NextIInv
<1> QED BY <1>1, <1>2, PTL DEF Spec

\* What is queued and runs is an item of the example, and results are numbers.
THEOREM TypeCorrect == ASSUME Given PROVE Spec => []TypeOK
<1>1. IInv => TypeOK
  BY DEF IInv
<1> QED BY <1>1, Invariance, PTL

\* Six of the examples: when the module is gone nothing of it is queued or runs,
\* and no event can come that would queue it.
THEOREM UnloadedIsQuiet == ASSUME Given PROVE Spec => []QuietWhenGone
<1>1. ASSUME IInv PROVE QuietWhenGone
  BY <1>1, ExitStepsAre DEF IInv, TypeOK, ExitOrder, QuietWhenGone, Careful
<1> QED BY <1>1, Invariance, PTL

\* userdata.c: however the work items of concurrent ioctls interleave, each returns
\* the double of its own argument.
THEOREM OwnResults == ASSUME Given PROVE Spec => []ResultIsOwn
<1>1. ASSUME IInv PROVE ResultIsOwn
  BY <1>1 DEF IInv, OwnItems, ResultIsOwn
<1> QED BY <1>1, Invariance, PTL
=============================================================================
