---------------------------- MODULE CpswRxProofs ----------------------------
(***************************************************************************)
(* Proofs about CpswRx: a page has one owner, a descriptor is never lost,  *)
(* the rings are empty after the last close, and on one CPU the RX ring    *)
(* stays full and frames keep their end; for every set of pages and        *)
(* netdevs and all quotas.                                                 *)
(***************************************************************************)
EXTENDS CpswRx, TLAPS

-----------------------------------------------------------------------------
(* The inductive invariant.                                                *)

\* PagesConserved in the form the steps are proved in: each place is disjoint
\* from all that follow it.
NoTwoOwners ==
  /\ PagesOf(ring) \cap (InTx \cup cache \cup stack \cup away \cup Handled) = {}
  /\ InTx \cap (cache \cup stack \cup away \cup Handled) = {}
  /\ cache \cap (stack \cup away \cup Handled) = {}
  /\ stack \cap (away \cup Handled) = {}
  /\ away \cap Handled = {}

NoRepeats(q) == \A i, j \in DOMAIN q : q[i] = q[j] => i = j \/ q[i] = Foreign

ListsOnce ==
  /\ NoRepeats(ring) /\ NoRepeats(txq)
  /\ tx.entry # Foreign => tx.entry \notin PagesOf(txq)

\* What the handler holds at each place, and how much of the frame it has cut off.
RxHolds ==
  /\ rx.pc \in {"free", "handler", "xdp", "build"} <=> rx.page # NoPage
  /\ rx.pc \in {"xdp", "build", "requeue"} <=> rx.new # NoPage
  /\ rx.page = rx.new => rx.page = NoPage
  /\ rx.off <= EncapHdr
  /\ rx.pc \in {"free", "handler", "xdp"} => rx.len = FrameLen
  /\ rx.pc \in {"free", "handler"} => rx.off = 0

TxHolds == tx.pc = "idle" => tx.entry = Foreign

\* A descriptor is free, in a list, or unlinked and not yet given back.
InHand(context) == IF context.pc = "free" THEN 1 ELSE 0

DescriptorsCounted ==
  /\ free + Len(ring) + Len(txq) + InHand(rx) + InHand(tx) = PoolSize
  /\ Len(ring) <= RxQuota /\ Len(txq) <= TxQuota

\* What the teardown has finished with in each phase.
TeardownOrder ==
  /\ phase = "closed" => ring = <<>> /\ cache = {}
  /\ phase \in {"closed", "cleanup"} => txq = <<>> /\ rx.pc = "idle"
  /\ phase \in {"closed", "drain", "cleanup"} => tx.pc = "idle"

\* On one CPU the two softirqs alternate, the handler replaces what it takes, and
\* the program stays while a packet is handled.
OneCpu ==
  ~smp =>
    /\ rx.pc = "idle" \/ tx.pc = "idle"
    /\ phase = "active" => Len(ring) = IF rx.pc = "idle" THEN RxQuota ELSE RxQuota - 1
    /\ rx.pc = "xdp" => rx.ndev \in prog
    /\ rx.pc = "build" => rx.off + rx.len = FrameLen

Places == NoTwoOwners /\ ListsOnce
Counts == DescriptorsCounted /\ TeardownOrder /\ OneCpu
IInv == TypeOK /\ RxHolds /\ TxHolds /\ Places /\ Counts
-----------------------------------------------------------------------------
(* Lists and the pages in them.                                            *)

\* The pages of a queue that a page is put into.
LEMMA AppendPages ==
  ASSUME NEW S, NEW q \in Seq(S), NEW p \in S
  PROVE  /\ Append(q, p) \in Seq(S)
         /\ Len(q) \in Nat /\ Len(Append(q, p)) = Len(q) + 1
         /\ PagesOf(Append(q, p)) = PagesOf(q) \cup ({p} \ {Foreign})
         /\ NoRepeats(q) /\ p \notin PagesOf(q) => NoRepeats(Append(q, p))
<1>1. /\ Append(q, p) \in Seq(S)
      /\ Len(q) \in Nat
      /\ DOMAIN q = 1 .. Len(q)
      /\ DOMAIN Append(q, p) = 1 .. Len(q) + 1
      /\ Len(Append(q, p)) = Len(q) + 1
      /\ \A i \in 1 .. Len(q) : Append(q, p)[i] = q[i]
      /\ Append(q, p)[Len(q) + 1] = p
  OBVIOUS
<1>2. PagesOf(Append(q, p)) = PagesOf(q) \cup ({p} \ {Foreign})
  BY <1>1 DEF PagesOf
<1>3. NoRepeats(q) /\ p \notin PagesOf(q) => NoRepeats(Append(q, p))
  BY <1>1 DEF PagesOf, NoRepeats
<1> QED BY <1>1, <1>2, <1>3

\* The pages of a queue whose oldest is taken.
LEMMA TailPages ==
  ASSUME NEW S, NEW q \in Seq(S), q # <<>>
  PROVE  /\ Head(q) \in S
         /\ Tail(q) \in Seq(S)
         /\ Len(q) \in Nat \ {0} /\ Len(Tail(q)) = Len(q) - 1
         /\ Head(q) # Foreign => Head(q) \in PagesOf(q)
         /\ NoRepeats(q) => /\ PagesOf(Tail(q)) = PagesOf(q) \ {Head(q)}
                            /\ NoRepeats(Tail(q))
<1>1. /\ Head(q) \in S /\ Head(q) = q[1]
      /\ Tail(q) \in Seq(S)
      /\ Len(q) \in Nat \ {0}
      /\ DOMAIN q = 1 .. Len(q)
      /\ DOMAIN Tail(q) = 1 .. Len(q) - 1
      /\ Len(Tail(q)) = Len(q) - 1
      /\ \A i \in 1 .. Len(q) - 1 : Tail(q)[i] = q[i + 1]
  OBVIOUS
<1>2. Head(q) # Foreign => Head(q) \in PagesOf(q)
  BY <1>1 DEF PagesOf
<1>3. ASSUME NoRepeats(q) PROVE NoRepeats(Tail(q))
  BY <1>1, <1>3 DEF NoRepeats
<1>4. ASSUME NoRepeats(q) PROVE PagesOf(Tail(q)) = PagesOf(q) \ {Head(q)}
  <2>1. ASSUME NEW p \in PagesOf(Tail(q)) PROVE p \in PagesOf(q) \ {Head(q)}
    <3>1. PICK i \in 1 .. Len(q) - 1 : p = q[i + 1] /\ p # Foreign
      BY <1>1, <2>1 DEF PagesOf
    <3>2. i + 1 \in DOMAIN q /\ 1 \in DOMAIN q /\ i + 1 # 1
      BY <1>1, <3>1
    <3> QED BY <1>1, <1>4, <3>1, <3>2 DEF PagesOf, NoRepeats
  <2>2. ASSUME NEW p \in PagesOf(q) \ {Head(q)} PROVE p \in PagesOf(Tail(q))
    <3>1. PICK i \in 1 .. Len(q) : p = q[i] /\ p # Foreign
      BY <1>1, <2>2 DEF PagesOf
    <3>2. i - 1 \in DOMAIN Tail(q) /\ (i - 1) + 1 = i
      BY <1>1, <2>2, <3>1
    <3>3. Tail(q)[i - 1] = p
      BY <1>1, <3>1, <3>2
    <3> QED BY <3>1, <3>2, <3>3 DEF PagesOf
  <2> QED BY <2>1, <2>2
<1> QED BY <1>1, <1>2, <1>3, <1>4

\* An empty queue has no page.
LEMMA EmptyPages == PagesOf(<<>>) = {} /\ NoRepeats(<<>>)
BY DEF PagesOf, NoRepeats
-----------------------------------------------------------------------------
(* Steps that move no page between the places.                             *)

\* The numbers of the invariant are natural ones.
LEMMA Numbers ==
  ASSUME IInv
  PROVE  /\ free \in Nat /\ Len(ring) \in Nat /\ Len(txq) \in Nat
         /\ RxQuota \in Nat \ {0} /\ TxQuota \in Nat \ {0}
         /\ PoolSize = RxQuota + TxQuota
         /\ InHand(rx) \in {0, 1} /\ InHand(tx) \in {0, 1}
BY QuotaAssumption DEF IInv, TypeOK, PoolSize, InHand

\* The descriptor of a received page returns to the pool.
LEMMA RxFreeStep ==
  ASSUME IInv, RxFree
  PROVE  IInv'
<1> USE DEF IInv, Places, Counts, RxFree
<1>1. TypeOK'
  <2>1. rx' \in RxRecord
    BY DEF TypeOK, RxRecord
  <2>2. free' \in 0 .. PoolSize
    BY Numbers DEF DescriptorsCounted, InHand, TypeOK, RxRecord
  <2> QED BY <2>1, <2>2 DEF TypeOK
<1>2. RxHolds' /\ TxHolds'
  BY DEF TypeOK, RxRecord, RxHolds, TxHolds
<1>3. Places'
  BY DEF TypeOK, RxRecord, RxHolds, NoTwoOwners, ListsOnce, InTx, Handled
<1>4. DescriptorsCounted'
  BY Numbers DEF TypeOK, RxRecord, DescriptorsCounted, InHand
<1>5. TeardownOrder'
  BY DEF TypeOK, RxRecord, TeardownOrder
<1>6. OneCpu'
  BY DEF TypeOK, RxRecord, OneCpu
<1> QED BY <1>1, <1>2, <1>3, <1>4, <1>5, <1>6

\* The page goes back into the ring if there is nothing to put in its place.
LEMMA KeepPageSteps ==
  ASSUME IInv, RxNotRunning \/ RxNoPage \/ XdpGone
  PROVE  IInv'
<1> USE DEF IInv, Places, Counts, RxNotRunning, RxNoPage, XdpGone
<1>1. TypeOK'
  <2>1. rx' \in RxRecord
    BY DEF TypeOK, RxRecord
  <2> QED BY <2>1 DEF TypeOK
<1>2. RxHolds' /\ TxHolds'
  BY ZenonT(40) DEF TypeOK, RxRecord, RxHolds, TxHolds
<1>3. Places'
  <2>1. \/ rx'.page = rx.page /\ rx'.new = rx.new
        \/ rx'.page = NoPage /\ rx'.new = rx.page /\ rx.new = NoPage
    BY DEF TypeOK, RxRecord, RxHolds
  <2>2. UNCHANGED <<InTx, Handled>>
    BY <2>1 DEF InTx, Handled
  <2> QED BY <2>2 DEF NoTwoOwners, ListsOnce
<1>4. DescriptorsCounted'
  BY Numbers DEF TypeOK, RxRecord, DescriptorsCounted, InHand
<1>5. TeardownOrder'
  BY DEF TypeOK, RxRecord, TeardownOrder
<1>6. OneCpu'
  BY DEF TypeOK, RxRecord, OneCpu
<1> QED BY <1>1, <1>2, <1>3, <1>4, <1>5, <1>6

\* The program passes the frame on.
LEMMA XdpPassStep ==
  ASSUME IInv, XdpPass
  PROVE  IInv'
<1> USE DEF IInv, Places, Counts, XdpPass
<1>1. TypeOK'
  <2>1. rx' \in RxRecord
    <3>1. FrameLen - rx.off \in Nat
      BY DEF TypeOK, RxRecord, RxHolds, FrameLen, EncapHdr
    <3> QED BY <3>1 DEF TypeOK, RxRecord
  <2> QED BY <2>1 DEF TypeOK
<1>2. RxHolds' /\ TxHolds'
  BY DEF TypeOK, RxRecord, RxHolds, TxHolds
<1>3. Places'
  BY DEF TypeOK, RxRecord, RxHolds, NoTwoOwners, ListsOnce, InTx, Handled
<1>4. DescriptorsCounted'
  BY Numbers DEF TypeOK, RxRecord, DescriptorsCounted, InHand
<1>5. TeardownOrder'
  BY DEF TypeOK, RxRecord, TeardownOrder
<1>6. OneCpu'
  BY DEF TypeOK, RxRecord, OneCpu, RxHolds, FrameLen, EncapHdr
<1> QED BY <1>1, <1>2, <1>3, <1>4, <1>5, <1>6

\* The descriptor of a transmitted frame returns to the pool.
LEMMA TxFreeStep ==
  ASSUME IInv, TxFree
  PROVE  IInv'
<1> USE DEF IInv, Places, Counts, TxFree
<1>1. TypeOK'
  <2>1. free' \in 0 .. PoolSize
    BY Numbers DEF DescriptorsCounted, InHand, TypeOK, TxRecord
  <2> QED BY <2>1 DEF TypeOK, TxRecord
<1>2. RxHolds' /\ TxHolds'
  BY DEF TypeOK, TxRecord, RxHolds, TxHolds
<1>3. Places'
  BY DEF TypeOK, TxRecord, NoTwoOwners, ListsOnce, InTx, Handled
<1>4. DescriptorsCounted'
  BY Numbers DEF TypeOK, TxRecord, DescriptorsCounted, InHand
<1>5. TeardownOrder'
  BY DEF TeardownOrder
<1>6. OneCpu'
  BY DEF OneCpu
<1> QED BY <1>1, <1>2, <1>3, <1>4, <1>5, <1>6

\* Opens, closes and the setup of a program touch no page.
LEMMA ControlSteps ==
  ASSUME IInv, NEW n \in Netdevs,
         NapiDisabled \/ OpenSecond(n) \/ Close(n) \/ XdpSetup(n)
  PROVE  IInv'
<1> USE DEF IInv, Places, Counts, NapiDisabled, OpenSecond, Close, XdpSetup
<1>1. TypeOK'
  BY DEF TypeOK
<1>2. RxHolds' /\ TxHolds'
  BY DEF RxHolds, TxHolds
<1>3. Places'
  BY DEF NoTwoOwners, ListsOnce, InTx, Handled
<1>4. DescriptorsCounted'
  BY DEF DescriptorsCounted
<1>5. TeardownOrder'
  BY DEF TeardownOrder
<1>6. OneCpu'
  BY DEF OneCpu, Alone
<1> QED BY <1>1, <1>2, <1>3, <1>4, <1>5, <1>6

-----------------------------------------------------------------------------
(* Steps that move a page.                                                 *)

\* The oldest buffer of the ring is taken.
LEMMA RxUnlinkStep ==
  ASSUME IInv, NEW n \in Netdevs, RxUnlink(n)
  PROVE  IInv'
<1> USE DEF IInv, Places, Counts, RxUnlink
<1>1. /\ Head(ring) \in Pages /\ Head(ring) \in PagesOf(ring)
      /\ ring' \in Seq(Pages) /\ NoRepeats(ring')
      /\ Len(ring') = Len(ring) - 1 /\ Len(ring) \in Nat \ {0}
      /\ PagesOf(ring') = PagesOf(ring) \ {Head(ring)}
  BY TailPages, ForeignAssumption DEF TypeOK, ListsOnce
<1>2. TypeOK'
  <2>1. rx' \in RxRecord
    <3>1. PICK encap \in BOOLEAN :
            rx' = [RxIdle EXCEPT !.pc = "free", !.page = Head(ring), !.ndev = n,
                                 !.encap = encap, !.len = FrameLen]
      OBVIOUS
    <3>2. RxIdle \in RxRecord
      BY NetdevsAssumption DEF RxIdle, RxRecord
    <3> QED BY <1>1, <3>1, <3>2 DEF RxRecord, FrameLen
  <2> QED BY <2>1, <1>1 DEF TypeOK
<1>3. RxHolds' /\ TxHolds'
  BY <1>1, NoPageAssumption DEF RxHolds, TxHolds, RxIdle, EncapHdr
<1>4. Places'
  <2>1. /\ Handled = {}
        /\ Handled' = {Head(ring)}
        /\ UNCHANGED InTx
    BY <1>1, NoPageAssumption DEF RxHolds, Handled, RxIdle, InTx
  <2>2. NoTwoOwners'
    BY <2>1, <1>1 DEF NoTwoOwners
  <2>3. ListsOnce'
    BY <1>1 DEF ListsOnce
  <2> QED BY <2>2, <2>3
<1>5. DescriptorsCounted'
  BY <1>1, Numbers DEF DescriptorsCounted, InHand, RxIdle
<1>6. TeardownOrder'
  BY <1>1 DEF TeardownOrder, Polling, RxIdle
<1>7. OneCpu'
  BY <1>1, Numbers DEF OneCpu, Alone, RxIdle, TeardownOrder, Polling
<1> QED BY <1>2, <1>3, <1>4, <1>5, <1>6, <1>7

\* A new page is taken from the pool of pages.
LEMMA RxAllocStep ==
  ASSUME IInv, RxAlloc
  PROVE  IInv'
<1> USE DEF IInv, Places, Counts, RxAlloc
<1>1. TypeOK'
  <2>1. rx' \in RxRecord
    <3>1. \E new \in Pages, off \in Nat :
            \/ rx' = [rx EXCEPT !.pc = "xdp", !.new = new, !.off = off]
            \/ rx' = [rx EXCEPT !.pc = "build", !.new = new]
      BY DEF TypeOK, EncapHdr, SystemPages
    <3> QED BY <3>1, ZenonT(30) DEF TypeOK, RxRecord
  <2> QED BY <2>1 DEF TypeOK
<1>2. RxHolds' /\ TxHolds'
  BY NoPageAssumption DEF TypeOK, RxRecord, RxHolds, TxHolds, EncapHdr, SystemPages, Handled, NoTwoOwners
<1>3. Places'
  <2>1. \E new \in cache \cup SystemPages :
          /\ Handled' = Handled \cup {new}
          /\ cache' = cache \ {new}
          /\ InTx' = InTx
    BY NoPageAssumption DEF TypeOK, RxRecord, RxHolds, Handled, InTx, SystemPages
  <2>2. NoTwoOwners'
    BY <2>1 DEF NoTwoOwners, SystemPages
  <2>3. ListsOnce'
    BY DEF ListsOnce
  <2> QED BY <2>2, <2>3
<1>4. DescriptorsCounted'
  BY Numbers DEF TypeOK, RxRecord, DescriptorsCounted, InHand
<1>5. TeardownOrder'
  BY DEF TypeOK, RxRecord, TeardownOrder
<1>6. OneCpu'
  BY DEF TypeOK, RxRecord, OneCpu, RxHolds, FrameLen
<1> QED BY <1>1, <1>2, <1>3, <1>4, <1>5, <1>6

\* The program drops the frame.
LEMMA XdpDropStep ==
  ASSUME IInv, XdpDrop
  PROVE  IInv'
<1> USE DEF IInv, Places, Counts, XdpDrop
<1>1. TypeOK'
  <2>1. rx' \in RxRecord
    BY DEF TypeOK, RxRecord
  <2> QED BY <2>1 DEF TypeOK, RxHolds, RxRecord
<1>2. RxHolds' /\ TxHolds'
  BY DEF TypeOK, RxRecord, RxHolds, TxHolds
<1>3. Places'
  <2>1. /\ rx.page \in Handled
        /\ Handled' = Handled \ {rx.page}
        /\ InTx' = InTx
    BY DEF TypeOK, RxRecord, RxHolds, Handled, InTx
  <2>2. NoTwoOwners'
    BY <2>1 DEF NoTwoOwners
  <2>3. ListsOnce'
    BY DEF ListsOnce
  <2> QED BY <2>2, <2>3
<1>4. DescriptorsCounted'
  BY Numbers DEF TypeOK, RxRecord, DescriptorsCounted, InHand
<1>5. TeardownOrder'
  BY DEF TypeOK, RxRecord, TeardownOrder
<1>6. OneCpu'
  BY DEF TypeOK, RxRecord, OneCpu
<1> QED BY <1>1, <1>2, <1>3, <1>4, <1>5, <1>6

\* The program redirects the frame.
LEMMA XdpRedirectStep ==
  ASSUME IInv, XdpRedirect
  PROVE  IInv'
<1> USE DEF IInv, Places, Counts, XdpRedirect
<1>1. TypeOK'
  <2>1. rx' \in RxRecord
    BY DEF TypeOK, RxRecord
  <2> QED BY <2>1 DEF TypeOK, RxHolds, RxRecord
<1>2. RxHolds' /\ TxHolds'
  BY DEF TypeOK, RxRecord, RxHolds, TxHolds
<1>3. Places'
  <2>1. /\ rx.page \in Handled
        /\ Handled' = Handled \ {rx.page}
        /\ InTx' = InTx
    BY DEF TypeOK, RxRecord, RxHolds, Handled, InTx
  <2>2. NoTwoOwners'
    BY <2>1 DEF NoTwoOwners
  <2>3. ListsOnce'
    BY DEF ListsOnce
  <2> QED BY <2>2, <2>3
<1>4. DescriptorsCounted'
  BY Numbers DEF TypeOK, RxRecord, DescriptorsCounted, InHand
<1>5. TeardownOrder'
  BY DEF TypeOK, RxRecord, TeardownOrder
<1>6. OneCpu'
  BY DEF TypeOK, RxRecord, OneCpu
<1> QED BY <1>1, <1>2, <1>3, <1>4, <1>5, <1>6

\* The page goes to the stack.
LEMMA RxBuildStep ==
  ASSUME IInv, RxBuild
  PROVE  IInv'
<1> USE DEF IInv, Places, Counts, RxBuild
<1>1. TypeOK'
  <2>1. rx' \in RxRecord
    BY DEF TypeOK, RxRecord
  <2> QED BY <2>1 DEF TypeOK, RxHolds, RxRecord
<1>2. RxHolds' /\ TxHolds'
  BY DEF TypeOK, RxRecord, RxHolds, TxHolds
<1>3. Places'
  <2>1. /\ rx.page \in Handled
        /\ Handled' = Handled \ {rx.page}
        /\ InTx' = InTx
    BY DEF TypeOK, RxRecord, RxHolds, Handled, InTx
  <2>2. NoTwoOwners'
    BY <2>1 DEF NoTwoOwners
  <2>3. ListsOnce'
    BY DEF ListsOnce
  <2> QED BY <2>2, <2>3
<1>4. DescriptorsCounted'
  BY Numbers DEF TypeOK, RxRecord, DescriptorsCounted, InHand
<1>5. TeardownOrder'
  BY DEF TypeOK, RxRecord, TeardownOrder
<1>6. OneCpu'
  BY DEF TypeOK, RxRecord, OneCpu
<1> QED BY <1>1, <1>2, <1>3, <1>4, <1>5, <1>6

\* The other device returns a page.
LEMMA RedirectReturnsStep ==
  ASSUME IInv, RedirectReturns
  PROVE  IInv'
<1> USE DEF IInv, Places, Counts, RedirectReturns
<1>1. TypeOK'
  BY DEF TypeOK
<1>2. RxHolds' /\ TxHolds'
  BY DEF RxHolds, TxHolds
<1>3. Places'
  <2>1. UNCHANGED <<InTx, Handled>>
    BY DEF InTx, Handled
  <2>2. NoTwoOwners'
    BY <2>1 DEF NoTwoOwners
  <2>3. ListsOnce'
    BY DEF ListsOnce
  <2> QED BY <2>2, <2>3
<1>4. DescriptorsCounted'
  BY DEF DescriptorsCounted
<1>5. TeardownOrder'
  BY DEF TeardownOrder
<1>6. OneCpu'
  BY DEF OneCpu
<1> QED BY <1>1, <1>2, <1>3, <1>4, <1>5, <1>6

\* The stack frees a page.
LEMMA StackFreesStep ==
  ASSUME IInv, StackFrees
  PROVE  IInv'
<1> USE DEF IInv, Places, Counts, StackFrees
<1>1. TypeOK'
  BY DEF TypeOK
<1>2. RxHolds' /\ TxHolds'
  BY DEF RxHolds, TxHolds
<1>3. Places'
  BY DEF NoTwoOwners, ListsOnce, InTx, Handled
<1>4. DescriptorsCounted'
  BY DEF DescriptorsCounted
<1>5. TeardownOrder'
  BY DEF TeardownOrder
<1>6. OneCpu'
  BY DEF OneCpu
<1> QED BY <1>1, <1>2, <1>3, <1>4, <1>5, <1>6

\* The pools of pages go with the last close.
LEMMA DestroyPoolsStep ==
  ASSUME IInv, DestroyPools
  PROVE  IInv'
<1> USE DEF IInv, Places, Counts, DestroyPools
<1>1. TypeOK'
  BY DEF TypeOK
<1>2. RxHolds' /\ TxHolds'
  BY DEF RxHolds, TxHolds
<1>3. Places'
  BY DEF NoTwoOwners, ListsOnce, InTx, Handled
<1>4. DescriptorsCounted'
  BY DEF DescriptorsCounted
<1>5. TeardownOrder'
  BY DEF TeardownOrder
<1>6. OneCpu'
  BY DEF OneCpu
<1> QED BY <1>1, <1>2, <1>3, <1>4, <1>5, <1>6

\* The teardown returns a buffer of the ring.
LEMMA DrainRxStep ==
  ASSUME IInv, DrainRx
  PROVE  IInv'
<1> USE DEF IInv, Places, Counts, DrainRx
<1>1. /\ Head(ring) \in Pages /\ Head(ring) \in PagesOf(ring)
      /\ ring' \in Seq(Pages) /\ NoRepeats(ring')
      /\ Len(ring') = Len(ring) - 1 /\ Len(ring) \in Nat \ {0}
      /\ PagesOf(ring') = PagesOf(ring) \ {Head(ring)}
  BY TailPages, ForeignAssumption DEF TypeOK, ListsOnce
<1>2. TypeOK'
  <2>1. free' \in 0 .. PoolSize
    BY <1>1, Numbers DEF DescriptorsCounted
  <2> QED BY <2>1, <1>1 DEF TypeOK
<1>3. RxHolds' /\ TxHolds'
  BY DEF RxHolds, TxHolds
<1>4. Places'
  <2>1. UNCHANGED <<InTx, Handled>>
    BY DEF InTx, Handled
  <2>2. NoTwoOwners'
    BY <2>1, <1>1 DEF NoTwoOwners
  <2>3. ListsOnce'
    BY <1>1 DEF ListsOnce
  <2> QED BY <2>2, <2>3
<1>5. DescriptorsCounted'
  BY <1>1, Numbers DEF DescriptorsCounted
<1>6. TeardownOrder'
  BY DEF TeardownOrder
<1>7. OneCpu'
  BY DEF OneCpu
<1> QED BY <1>2, <1>3, <1>4, <1>5, <1>6, <1>7

\* The teardown returns a frame of the TX channel.
LEMMA DrainTxStep ==
  ASSUME IInv, DrainTx
  PROVE  IInv'
<1> USE DEF IInv, Places, Counts
<1>1. /\ phase = "drain" /\ txq # <<>> /\ txq' = Tail(txq) /\ free' = free + 1
      /\ cache' = cache \cup ({Head(txq)} \ {Foreign})
      /\ UNCHANGED <<smp, phase, running, prog, ring, stack, away, rx, tx>>
  BY DEF DrainTx
<1>2. /\ Head(txq) \in Pages \cup {Foreign}
      /\ Head(txq) # Foreign => Head(txq) \in PagesOf(txq)
      /\ txq' \in Seq(Pages \cup {Foreign}) /\ NoRepeats(txq')
      /\ Len(txq') = Len(txq) - 1 /\ Len(txq) \in Nat \ {0}
      /\ PagesOf(txq') = PagesOf(txq) \ {Head(txq)}
  BY <1>1, TailPages DEF TypeOK, ListsOnce
<1>3. DescriptorsCounted'
  <2>1. /\ Len(txq') = Len(txq) - 1 /\ free' = free + 1
        /\ UNCHANGED <<Len(ring), InHand(rx), InHand(tx)>>
    BY <1>1, <1>2
  <2>2. free' + Len(ring') + Len(txq') + InHand(rx') + InHand(tx') = RxQuota + TxQuota
    BY <2>1, Numbers, SMTT(30) DEF DescriptorsCounted
  <2> QED BY <2>1, <2>2, Numbers DEF DescriptorsCounted
<1>4. TypeOK'
  <2>1. free' \in 0 .. PoolSize
    BY <1>1, <1>2, Numbers DEF DescriptorsCounted
  <2> QED BY <1>1, <1>2, <2>1 DEF TypeOK
<1>5. RxHolds' /\ TxHolds'
  BY <1>1 DEF RxHolds, TxHolds
<1>6. NoTwoOwners'
  <2>1. tx.entry = Foreign /\ Foreign \notin PagesOf(txq)
    BY <1>1 DEF TeardownOrder, TxHolds, PagesOf
  <2>2. /\ InTx = PagesOf(txq) /\ InTx' = InTx \ {Head(txq)}
        /\ cache' = cache \cup (InTx \ InTx') /\ UNCHANGED Handled
    BY <1>1, <1>2, <2>1 DEF InTx, Handled
  <2> QED BY <1>1, <2>2 DEF NoTwoOwners
<1>7. ListsOnce'
  BY <1>1, <1>2 DEF ListsOnce
<1>8. TeardownOrder' /\ OneCpu'
  BY <1>1 DEF TeardownOrder, OneCpu
<1> QED BY <1>3, <1>4, <1>5, <1>6, <1>7, <1>8

\* The oldest frame of the TX channel is taken.
LEMMA TxUnlinkStep ==
  ASSUME IInv, TxUnlink
  PROVE  IInv'
<1> USE DEF IInv, Places, Counts, TxUnlink
<1>1. /\ Head(txq) \in Pages \cup {Foreign}
      /\ Head(txq) # Foreign => Head(txq) \in PagesOf(txq)
      /\ txq' \in Seq(Pages \cup {Foreign}) /\ NoRepeats(txq')
      /\ Len(txq') = Len(txq) - 1 /\ Len(txq) \in Nat \ {0}
      /\ PagesOf(txq') = PagesOf(txq) \ {Head(txq)}
  BY TailPages DEF TypeOK, ListsOnce
<1>2. TypeOK'
  BY <1>1 DEF TypeOK, TxRecord
<1>3. RxHolds' /\ TxHolds'
  BY DEF RxHolds, TxHolds
<1>4. Places'
  <2>1. Foreign \notin PagesOf(txq)
    BY DEF PagesOf
  <2>2. UNCHANGED <<InTx, Handled>>
    BY <1>1, <2>1 DEF InTx, Handled, TxHolds
  <2>3. NoTwoOwners'
    BY <2>2 DEF NoTwoOwners
  <2>4. ListsOnce'
    BY <1>1 DEF ListsOnce
  <2> QED BY <2>3, <2>4
<1>5. DescriptorsCounted'
  BY <1>1, Numbers DEF DescriptorsCounted, InHand
<1>6. TeardownOrder'
  BY DEF TeardownOrder, Polling
<1>7. OneCpu'
  BY DEF OneCpu, Alone
<1> QED BY <1>2, <1>3, <1>4, <1>5, <1>6, <1>7

\* A completed frame is given back to whom it came from.
LEMMA TxHandlerStep ==
  ASSUME IInv, TxHandler
  PROVE  IInv'
<1> USE DEF IInv, Places, Counts, TxHandler
<1>1. TypeOK'
  BY DEF TypeOK, TxRecord, TxIdle
<1>2. RxHolds' /\ TxHolds'
  BY DEF RxHolds, TxHolds, TxIdle
<1>3. Places'
  <2>1. Foreign \notin PagesOf(txq)
    BY DEF PagesOf
  <2>2. /\ InTx' = InTx \ {tx.entry} /\ cache' = cache \cup (InTx \ InTx')
        /\ UNCHANGED Handled
    BY <2>1 DEF InTx, Handled, TxIdle, ListsOnce
  <2>3. NoTwoOwners'
    BY <2>2 DEF NoTwoOwners
  <2>4. ListsOnce'
    BY DEF ListsOnce, TxIdle
  <2> QED BY <2>3, <2>4
<1>4. DescriptorsCounted'
  BY DEF DescriptorsCounted, InHand, TxIdle
<1>5. TeardownOrder'
  BY DEF TeardownOrder
<1>6. OneCpu'
  BY DEF OneCpu, TxIdle
<1> QED BY <1>1, <1>2, <1>3, <1>4, <1>5, <1>6

\* The stack transmits a packet of its own.
LEMMA XmitStep ==
  ASSUME IInv, Xmit
  PROVE  IInv'
<1> USE DEF IInv, Places, Counts
<1>1. /\ TxHasRoom /\ txq' = Append(txq, Foreign) /\ free' = free - 1
      /\ UNCHANGED <<smp, phase, running, prog, ring, cache, stack, away, rx, tx>>
  BY DEF Xmit
<1>2. phase = "active"
  BY DEF Xmit
<1>3. /\ txq' \in Seq(Pages \cup {Foreign}) /\ NoRepeats(txq')
      /\ Len(txq') = Len(txq) + 1 /\ PagesOf(txq') = PagesOf(txq)
  <2>1. txq \in Seq(Pages \cup {Foreign}) /\ Foreign \in Pages \cup {Foreign}
    BY DEF TypeOK
  <2>2. NoRepeats(txq) /\ Foreign \notin PagesOf(txq)
    BY DEF ListsOnce, PagesOf
  <2>3. /\ Append(txq, Foreign) \in Seq(Pages \cup {Foreign})
        /\ Len(Append(txq, Foreign)) = Len(txq) + 1
        /\ PagesOf(Append(txq, Foreign)) = PagesOf(txq) \cup ({Foreign} \ {Foreign})
        /\ NoRepeats(Append(txq, Foreign))
    BY <2>1, <2>2, AppendPages
  <2> QED BY <1>1, <2>3
<1>4. TypeOK'
  <2>1. free' \in 0 .. PoolSize
    BY <1>1, Numbers DEF TypeOK, TxHasRoom
  <2> QED BY <1>1, <1>3, <2>1 DEF TypeOK
<1>5. RxHolds' /\ TxHolds'
  BY <1>1 DEF RxHolds, TxHolds
<1>6. Places'
  BY <1>1, <1>3 DEF NoTwoOwners, ListsOnce, InTx, Handled
<1>7. DescriptorsCounted'
  <2>1. /\ Len(ring') = Len(ring) /\ InHand(rx') = InHand(rx) /\ InHand(tx') = InHand(tx)
        /\ Len(txq') = Len(txq) + 1 /\ free' = free - 1
    BY <1>1, <1>3
  <2>2. Len(txq) < TxQuota
    BY <1>1 DEF TxHasRoom
  <2>3. free' + Len(ring') + Len(txq') + InHand(rx') + InHand(tx') = RxQuota + TxQuota
    <3>1. free + Len(ring) + Len(txq) + InHand(rx) + InHand(tx) = RxQuota + TxQuota
      BY Numbers DEF DescriptorsCounted
    <3>2. /\ free \in Nat /\ Len(ring) \in Nat /\ Len(txq) \in Nat
          /\ InHand(rx) \in Nat /\ InHand(tx) \in Nat
      BY Numbers
    <3> QED BY <2>1, <3>1, <3>2
  <2> QED BY <2>1, <2>2, <2>3, Numbers DEF DescriptorsCounted
<1>8. TeardownOrder' /\ OneCpu'
  BY <1>1, <1>2 DEF TeardownOrder, OneCpu
<1> QED BY <1>4, <1>5, <1>6, <1>7, <1>8

\* The first open fills the ring.
LEMMA OpenFirstStep ==
  ASSUME IInv, NEW n \in Netdevs, OpenFirst(n)
  PROVE  IInv'
<1> USE DEF IInv, Places, Counts, OpenFirst
<1>1. /\ ring' \in [1 .. RxQuota -> SystemPages]
      /\ \A i, j \in 1 .. RxQuota : ring'[i] = ring'[j] => i = j
  OBVIOUS
<1>2. /\ ring' \in Seq(Pages) /\ Len(ring') = RxQuota
      /\ PagesOf(ring') \subseteq SystemPages /\ NoRepeats(ring')
  <2>1. SystemPages \subseteq Pages
    BY DEF SystemPages
  <2>2. /\ ring' \in Seq(Pages) /\ Len(ring') = RxQuota /\ DOMAIN ring' = 1 .. RxQuota
        /\ \A i \in 1 .. RxQuota : ring'[i] \in SystemPages
    BY <1>1, <2>1, QuotaAssumption
  <2> QED BY <1>1, <2>2 DEF PagesOf, NoRepeats
<1>3. ring = <<>> /\ Len(ring) = 0 /\ txq = <<>> /\ Len(txq) = 0
      /\ rx.pc = "idle" /\ tx.pc = "idle"
  BY DEF TeardownOrder
<1>4. TypeOK'
  <2>1. free' \in 0 .. PoolSize
    BY <1>3, Numbers DEF DescriptorsCounted, InHand
  <2> QED BY <2>1, <1>2 DEF TypeOK
<1>5. RxHolds' /\ TxHolds'
  BY DEF RxHolds, TxHolds
<1>6. Places'
  <2>1. UNCHANGED <<InTx, Handled>>
    BY DEF InTx, Handled
  <2>2. NoTwoOwners'
    BY <1>2, <2>1 DEF NoTwoOwners, SystemPages
  <2> QED BY <1>2, <2>2 DEF ListsOnce
<1>7. DescriptorsCounted'
  BY <1>2, <1>3, Numbers DEF DescriptorsCounted
<1>8. TeardownOrder'
  BY DEF TeardownOrder
<1>9. OneCpu'
  BY <1>2, <1>3 DEF OneCpu
<1> QED BY <1>4, <1>5, <1>6, <1>7, <1>8, <1>9

\* The program sends the frame back, or it is dropped for lack of a descriptor.
LEMMA XdpTxStep ==
  ASSUME IInv, XdpTx
  PROVE  IInv'
<1> USE DEF IInv, Places, Counts
<1>1. /\ rx.pc = "xdp" /\ rx' = [rx EXCEPT !.pc = "requeue", !.page = NoPage]
      /\ UNCHANGED <<smp, phase, running, prog, ring, stack, away, tx>>
  BY DEF XdpTx
<1>2. /\ rx.page \in Pages /\ rx.page \in Handled /\ Handled' = Handled \ {rx.page}
      /\ rx' \in RxRecord
  BY <1>1 DEF TypeOK, RxRecord, RxHolds, Handled
<1>3. RxHolds' /\ TxHolds'
  BY <1>1 DEF TypeOK, RxRecord, RxHolds, TxHolds
<1>4. CASE TxHasRoom
  <2>1. txq' = Append(txq, rx.page) /\ free' = free - 1 /\ cache' = cache
    BY <1>4 DEF XdpTx
  <2>2. /\ txq' \in Seq(Pages \cup {Foreign}) /\ NoRepeats(txq')
        /\ Len(txq') = Len(txq) + 1 /\ PagesOf(txq') = PagesOf(txq) \cup {rx.page}
    <3>1. txq \in Seq(Pages \cup {Foreign}) /\ rx.page \in Pages \cup {Foreign}
      BY <1>2 DEF TypeOK
    <3>2. NoRepeats(txq) /\ rx.page \notin PagesOf(txq)
      BY <1>2 DEF ListsOnce, NoTwoOwners, InTx
    <3> QED BY <1>2, <2>1, <3>1, <3>2, AppendPages, ForeignAssumption
  <2>3. TypeOK'
    <3>1. free' \in 0 .. PoolSize
      BY <1>4, <2>1, Numbers DEF TypeOK, TxHasRoom
    <3> QED BY <1>1, <1>2, <2>1, <2>2, <3>1 DEF TypeOK
  <2>4. NoTwoOwners'
    <3>1. InTx' = InTx \cup {rx.page}
      BY <1>1, <2>2 DEF InTx
    <3> QED BY <1>1, <1>2, <2>1, <3>1 DEF NoTwoOwners
  <2>5. ListsOnce'
    BY <1>1, <1>2, <2>2 DEF ListsOnce, NoTwoOwners, InTx
  <2>6. DescriptorsCounted'
    <3>1. InHand(rx) = 0 /\ InHand(rx)' = 0 /\ UNCHANGED <<Len(ring), InHand(tx)>>
      BY <1>1 DEF TypeOK, RxRecord, InHand
    <3>2. Len(txq') = Len(txq) + 1 /\ free' = free - 1 /\ Len(txq) < TxQuota
      BY <1>4, <2>1, <2>2 DEF TxHasRoom
    <3>3. free' + Len(ring') + Len(txq') + InHand(rx') + InHand(tx') = RxQuota + TxQuota
      BY <3>1, <3>2, Numbers, SMTT(30) DEF DescriptorsCounted
    <3> QED BY <3>1, <3>2, <3>3, Numbers DEF DescriptorsCounted
  <2>7. TeardownOrder' /\ OneCpu'
    BY <1>1, <1>4, <2>1 DEF TypeOK, RxRecord, TeardownOrder, OneCpu, TxHasRoom, Polling
  <2> QED BY <1>3, <2>3, <2>4, <2>5, <2>6, <2>7
<1>5. CASE ~TxHasRoom
  <2>1. txq' = txq /\ free' = free /\ cache' = cache \cup {rx.page}
    BY <1>5 DEF XdpTx
  <2>2. TypeOK'
    BY <1>1, <1>2, <2>1 DEF TypeOK
  <2>3. NoTwoOwners'
    <3>1. InTx' = InTx
      BY <1>1, <2>1 DEF InTx
    <3> QED BY <1>1, <1>2, <2>1, <3>1 DEF NoTwoOwners
  <2>4. ListsOnce'
    BY <1>1, <2>1 DEF ListsOnce
  <2>5. DescriptorsCounted'
    BY <1>1, <2>1 DEF TypeOK, RxRecord, DescriptorsCounted, InHand
  <2>6. TeardownOrder' /\ OneCpu'
    BY <1>1, <2>1 DEF TypeOK, RxRecord, TeardownOrder, OneCpu
  <2> QED BY <1>3, <2>2, <2>3, <2>4, <2>5, <2>6
<1> QED BY <1>4, <1>5

\* The new page is put into the ring, for which a descriptor is there.
LEMMA RxRequeueStep ==
  ASSUME IInv, RxRequeue
  PROVE  IInv'
<1> USE DEF IInv, Places, Counts
<1>1. /\ rx.pc = "requeue" /\ rx' = RxIdle
      /\ UNCHANGED <<smp, phase, running, prog, txq, stack, away, tx>>
  BY DEF RxRequeue
<1>2. rx.new \in Pages /\ Handled = {rx.new} /\ Handled' = {} /\ InTx' = InTx
  BY <1>1 DEF TypeOK, RxRecord, RxHolds, Handled, RxIdle, InTx
<1>3. RxHolds' /\ TxHolds' /\ rx' \in RxRecord
  BY <1>1, NetdevsAssumption DEF RxHolds, TxHolds, RxIdle, EncapHdr, RxRecord
<1>4. CASE RxHasRoom
  <2>1. ring' = Append(ring, rx.new) /\ free' = free - 1 /\ cache' = cache
    BY <1>4 DEF RxRequeue
  <2>2. /\ ring' \in Seq(Pages) /\ NoRepeats(ring')
        /\ Len(ring') = Len(ring) + 1 /\ PagesOf(ring') = PagesOf(ring) \cup {rx.new}
    <3>1. ring \in Seq(Pages) /\ rx.new # Foreign
      BY <1>2, ForeignAssumption DEF TypeOK
    <3>2. NoRepeats(ring) /\ rx.new \notin PagesOf(ring)
      BY <1>2 DEF ListsOnce, NoTwoOwners
    <3> QED BY <1>2, <2>1, <3>1, <3>2, AppendPages
  <2>3. TypeOK'
    <3>1. free' \in 0 .. PoolSize
      BY <1>4, <2>1, Numbers DEF TypeOK, RxHasRoom
    <3> QED BY <1>1, <1>3, <2>1, <2>2, <3>1 DEF TypeOK
  <2>4. NoTwoOwners'
    BY <1>1, <1>2, <2>1, <2>2 DEF NoTwoOwners
  <2>5. ListsOnce'
    BY <1>1, <2>2 DEF ListsOnce
  <2>6. DescriptorsCounted'
    BY <1>1, <1>4, <2>1, <2>2, Numbers DEF DescriptorsCounted, InHand, RxHasRoom, RxIdle
  <2>7. TeardownOrder' /\ OneCpu'
    BY <1>1, <1>4, <2>1, <2>2, Numbers DEF TeardownOrder, OneCpu, RxHasRoom, Polling, RxIdle
  <2> QED BY <1>3, <2>3, <2>4, <2>5, <2>6, <2>7
<1>5. CASE ~RxHasRoom
  <2>1. ring' = ring /\ free' = free /\ cache' = cache \cup {rx.new}
    BY <1>5 DEF RxRequeue
  <2>2. TypeOK'
    BY <1>1, <1>2, <1>3, <2>1 DEF TypeOK
  <2>3. NoTwoOwners' /\ ListsOnce'
    BY <1>1, <1>2, <2>1 DEF NoTwoOwners, ListsOnce
  <2>4. DescriptorsCounted'
    BY <1>1, <2>1 DEF DescriptorsCounted, InHand, RxIdle
  <2>5. TeardownOrder'
    BY <1>1, <2>1 DEF TeardownOrder
  <2>6. OneCpu'
    <3>1. ASSUME ~smp, phase = "active" PROVE FALSE
      <4>1. Len(ring) = RxQuota - 1 /\ tx.pc = "idle"
        BY <1>1, <3>1 DEF OneCpu
      <4>2. free = 1 + (TxQuota - Len(txq)) /\ Len(txq) <= TxQuota
        BY <1>1, <4>1, Numbers DEF DescriptorsCounted, InHand
      <4> QED BY <1>5, <3>1, <4>1, <4>2, Numbers DEF RxHasRoom, Polling
    <3> QED BY <1>1, <3>1 DEF OneCpu, RxIdle
  <2> QED BY <1>3, <2>2, <2>3, <2>4, <2>5, <2>6
<1> QED BY <1>4, <1>5
-----------------------------------------------------------------------------
\* No page is in use before the first open.
LEMMA InitIInv == Init => IInv
<1> SUFFICES ASSUME Init PROVE IInv
  OBVIOUS
<1> USE DEF Init
<1>1. TypeOK
  <2>1. rx \in RxRecord /\ tx \in TxRecord
    BY NetdevsAssumption DEF RxIdle, TxIdle, RxRecord, TxRecord
  <2>2. free \in 0 .. PoolSize
    BY QuotaAssumption DEF PoolSize
  <2> QED BY <2>1, <2>2 DEF TypeOK
<1>2. RxHolds /\ TxHolds
  BY DEF RxHolds, TxHolds, RxIdle, TxIdle, EncapHdr
<1>3. Places
  BY EmptyPages DEF Places, NoTwoOwners, ListsOnce, InTx, Handled, RxIdle, TxIdle
<1>4. Counts
  BY QuotaAssumption DEF Counts, DescriptorsCounted, TeardownOrder, OneCpu, InHand,
                         PoolSize, RxIdle, TxIdle
<1> QED BY <1>1, <1>2, <1>3, <1>4 DEF IInv

\* Every step keeps the inductive invariant.
LEMMA NextIInv == IInv /\ [Next]_vars => IInv'
<1> SUFFICES ASSUME IInv, [Next]_vars PROVE IInv'
  OBVIOUS
<1>1. CASE Control
  BY <1>1, NetdevsAssumption, OpenFirstStep, ControlSteps,
     DrainTxStep, DrainRxStep, DestroyPoolsStep DEF Control
<1>2. CASE Reception
  BY <1>2, RxUnlinkStep, RxFreeStep, KeepPageSteps, RxAllocStep, XdpPassStep, XdpDropStep, XdpTxStep, XdpRedirectStep,
     RedirectReturnsStep, RxBuildStep, StackFreesStep, RxRequeueStep DEF Reception
<1>3. CASE Transmission
  BY <1>3, XmitStep, TxUnlinkStep, TxFreeStep, TxHandlerStep DEF Transmission
<1>4. CASE UNCHANGED vars
  <2> USE <1>4 DEF vars, IInv
  <2>1. TypeOK'
    BY DEF TypeOK
  <2>2. RxHolds' /\ TxHolds' /\ Places'
    BY DEF RxHolds, TxHolds, Places, NoTwoOwners, ListsOnce, InTx, Handled
  <2>3. Counts'
    BY DEF Counts, DescriptorsCounted, TeardownOrder, OneCpu
  <2> QED BY <2>1, <2>2, <2>3
<1> QED BY <1>1, <1>2, <1>3, <1>4 DEF Next
-----------------------------------------------------------------------------
(* The theorems.                                                           *)

\* Of every behaviour of the receive path: the types, the owners of the pages,
\* what the handler holds, and the count of the descriptors.
THEOREM Invariance == Spec => []IInv
BY InitIInv, NextIInv, PTL DEF Spec

\* Every variable keeps its type: only pages are in the places of pages, and the
\* free descriptors stay between none and all.
THEOREM TypeCorrect == Spec => []TypeOK
<1>1. IInv => TypeOK
  BY DEF IInv
<1> QED BY <1>1, Invariance, PTL

\* A page has one owner, whatever cpsw_rx_handler, cpsw_run_xdp, the TX completion
\* and the teardown do with it and however they interleave: it is never both in a
\* ring and in the pool, the stack or another device, nor twice in a ring.
THEOREM PagesHaveOneOwner == Spec => []PagesConserved
<1>1. IInv => PagesConserved
  <2> SUFFICES ASSUME IInv PROVE PagesConserved
    OBVIOUS
  <2> DEFINE places == <<PagesOf(ring), InTx, cache, stack, away, Handled>>
  <2>1. \A i, j \in 1 .. 6 : i # j => places[i] \cap places[j] = {}
    BY DEF IInv, Places, NoTwoOwners
  <2>2. DOMAIN places = 1 .. 6
    OBVIOUS
  <2> QED BY <2>1, <2>2 DEF PagesConserved, IInv, Places, ListsOnce, NoRepeats, RxHolds
<1> QED BY <1>1, Invariance, PTL

\* After the last close the rings are empty, every descriptor is back in the pool
\* of descriptors, and no page is left with the driver: the teardown finds what the
\* two softirqs had in their hands as well.
THEOREM TeardownReturnsAll == Spec => []PoolDrains
<1>1. IInv => PoolDrains
  <2> SUFFICES ASSUME IInv, phase = "closed" PROVE PoolDrains
    BY DEF PoolDrains
  <2> USE DEF IInv, Counts, TeardownOrder
  <2>1. ring = <<>> /\ txq = <<>> /\ cache = {} /\ rx.pc = "idle" /\ tx.pc = "idle"
    OBVIOUS
  <2>2. free = PoolSize
    BY <2>1, Numbers DEF DescriptorsCounted, InHand
  <2>3. Handled = {} /\ InTx = {}
    BY <2>1, EmptyPages DEF RxHolds, TxHolds, Handled, InTx
  <2> QED BY <2>1, <2>2, <2>3 DEF PoolDrains
<1> QED BY <1>1, Invariance, PTL

\* On one CPU cpsw_rx_handler puts a buffer into the ring for each that it takes,
\* failures, XDP_TX and redirections included: between two packets it is full.
THEOREM RingNeverShrinks == Spec => []RingStaysFull
<1>1. IInv => RingStaysFull
  BY DEF IInv, Counts, OneCpu, RingStaysFull
<1> QED BY <1>1, Invariance, PTL

\* On one CPU an skb ends where the received frame ended, whether an XDP program
\* ran, was taken away before it could run, or never was there.
THEOREM FramesKeepTheirEnd == Spec => []FrameEndsRight
<1>1. IInv => FrameEndsRight
  BY DEF IInv, Counts, OneCpu, FrameEndsRight
<1> QED BY <1>1, Invariance, PTL
=============================================================================
