----------------------- MODULE BlockingDevicesProofs -----------------------
(***************************************************************************)
(* Proofs about BlockingDevices: no wake-up is lost, no change is          *)
(* swallowed and keys stay in order, for every number of readers and of    *)
(* writers.                                                                *)
(***************************************************************************)
EXTENDS BlockingDevices, Integers, TLAPS

\* The ring of keyboard_driver.c holds a key beside its gap; MaxWrites is a bound.
Sizes == BufSize \in Nat /\ BufSize >= 2 /\ MaxWrites \in Nat

-----------------------------------------------------------------------------
(* The inductive invariant.                                                *)

\* Only the readers of nonblock.c reset the flag apart from the copy, and they
\* neither test nor sleep.
Roles ==
  \A r \in Readers : IF device = "nonblock" THEN reader[r] \in {"idle", "reset"}
                     ELSE reader[r] # "reset"

Increasing(s) == \A i, j \in 1 .. Len(s) : i < j => s[i] < s[j]

\* The keys in the ring are later than those that were handed out.
KeysFollow ==
  device = "keyboard" =>
    /\ Increasing(delivered) /\ Increasing(keys)
    /\ \A i \in 1 .. Len(delivered), j \in 1 .. Len(keys) : delivered[i] < keys[j]
    /\ flag = (keys # <<>>)

IInv == TypeOK /\ Roles /\ NobodyOversleeps /\ ChangeSeen /\ KeysFollow
-----------------------------------------------------------------------------
(* Sequences of keys.                                                      *)

\* A queue of the first m keys is one of the first n.
LEMMA Widened ==
  ASSUME NEW m \in Nat, NEW n \in Nat, m <= n, NEW q \in Seq(1 .. m)
  PROVE  q \in Seq(1 .. n)
<1>1. 1 .. m \subseteq 1 .. n
  OBVIOUS
<1> QED BY <1>1

\* What Append does to a queue of keys.
LEMMA Appended ==
  ASSUME NEW S, NEW q \in Seq(S), NEW e \in S
  PROVE  /\ Append(q, e) \in Seq(S)
         /\ Len(Append(q, e)) = Len(q) + 1
         /\ \A k \in 1 .. Len(q) : Append(q, e)[k] = q[k]
         /\ Append(q, e)[Len(q) + 1] = e
OBVIOUS

\* What taking its oldest key does to a queue.
LEMMA Dequeued ==
  ASSUME NEW S, NEW q \in Seq(S), q # <<>>
  PROVE  /\ Tail(q) \in Seq(S) /\ Head(q) \in S /\ Head(q) = q[1]
         /\ Len(Tail(q)) = Len(q) - 1 /\ Len(q) \in Nat \ {0}
         /\ \A k \in 1 .. Len(q) - 1 : Tail(q)[k] = q[k + 1]
OBVIOUS

\* A put keeps the keys in order, and leaves the ring nonempty.
LEMMA PutInOrder ==
  ASSUME Sizes, NEW n \in Nat, NEW q \in Seq(1 .. n), Increasing(q)
  PROVE  /\ Put(q, n + 1) \in Seq(1 .. n + 1) /\ Put(q, n + 1) # <<>>
         /\ Increasing(Put(q, n + 1))
         /\ \A k \in 1 .. Len(Put(q, n + 1)) :
              Put(q, n + 1)[k] = n + 1 \/ \E l \in 1 .. Len(q) : Put(q, n + 1)[k] = q[l]
<1> DEFINE more == Append(q, n + 1)
<1>1. q \in Seq(1 .. n + 1) /\ n + 1 \in 1 .. n + 1
  BY Widened
<1>2. /\ more \in Seq(1 .. n + 1) /\ Len(more) = Len(q) + 1 /\ Len(q) \in Nat
      /\ \A k \in 1 .. Len(q) : more[k] = q[k]
      /\ more[Len(q) + 1] = n + 1
  BY <1>1, Appended
<1>3. \A k \in 1 .. Len(more) : k \in 1 .. Len(q) \/ k = Len(q) + 1
  BY <1>2
<1>4. \A k \in 1 .. Len(q) : q[k] \in Nat /\ q[k] < n + 1
  OBVIOUS
<1>5. ASSUME NEW i \in 1 .. Len(more), NEW j \in 1 .. Len(more), i < j
      PROVE  more[i] < more[j]
  <2>1. i \in 1 .. Len(q)
    BY <1>2, <1>5
  <2>2. CASE j \in 1 .. Len(q)
    BY <1>2, <1>5, <2>1, <2>2 DEF Increasing
  <2>3. CASE j = Len(q) + 1
    BY <1>2, <1>4, <2>1, <2>3
  <2> QED BY <1>3, <2>2, <2>3
<1>6. more # <<>>
  <2>1. Len(<<>>) = 0
    OBVIOUS
  <2>2. Len(more) # 0
    BY <1>2
  <2> QED BY <2>1, <2>2
<1>7. CASE Len(more) = BufSize
  <2>1. Put(q, n + 1) = Tail(more)
    BY <1>7 DEF Put
  <2>2. more # <<>>
    BY <1>6
  <2>3. /\ Tail(more) \in Seq(1 .. n + 1) /\ Len(Tail(more)) = Len(more) - 1
        /\ \A k \in 1 .. Len(more) - 1 : Tail(more)[k] = more[k + 1]
    BY <1>2, <2>2, Dequeued
  <2>4. Len(Tail(more)) = Len(q) /\ Len(q) >= 1
    BY <1>2, <1>7, <2>3 DEF Sizes
  <2>5. \A k \in 1 .. Len(q) : Tail(more)[k] = more[k + 1] /\ k + 1 \in 1 .. Len(more)
    BY <1>2, <2>3
  <2>6. Increasing(Tail(more))
    <3>1. SUFFICES ASSUME NEW i \in 1 .. Len(q), NEW j \in 1 .. Len(q), i < j
                   PROVE  Tail(more)[i] < Tail(more)[j]
      BY <2>4 DEF Increasing
    <3>2. i + 1 \in 1 .. Len(more) /\ j + 1 \in 1 .. Len(more) /\ i + 1 < j + 1
      BY <2>5, <3>1
    <3>3. more[i + 1] < more[j + 1]
      BY <1>5, <3>2
    <3> QED BY <2>5, <3>3
  <2>7. Tail(more) # <<>>
    BY <2>4
  <2>8. ASSUME NEW k \in 1 .. Len(q)
        PROVE  Tail(more)[k] = n + 1 \/ \E l \in 1 .. Len(q) : Tail(more)[k] = q[l]
    <3>1. Tail(more)[k] = more[k + 1] /\ (k + 1 \in 1 .. Len(q) \/ k + 1 = Len(q) + 1)
      BY <1>3, <2>5
    <3> QED BY <1>2, <3>1
  <2> QED BY <2>1, <2>3, <2>4, <2>6, <2>7, <2>8
<1>8. CASE Len(more) # BufSize
  <2>1. Put(q, n + 1) = more
    BY <1>8 DEF Put
  <2>2. Increasing(more)
    BY <1>5 DEF Increasing
  <2>3. more # <<>>
    BY <1>6
  <2>4. \A k \in 1 .. Len(more) : more[k] = n + 1 \/ \E l \in 1 .. Len(q) : more[k] = q[l]
    BY <1>2, <1>3
  <2> HIDE DEF more
  <2> QED BY <1>2, <2>1, <2>2, <2>3, <2>4
<1> QED BY <1>7, <1>8

\* What is taken from the front of one and appended to the other.
LEMMA MovedInOrder ==
  ASSUME NEW n \in Nat, NEW d \in Seq(1 .. n), NEW q \in Seq(1 .. n), q # <<>>,
         Increasing(d), Increasing(q),
         \A i \in 1 .. Len(d), j \in 1 .. Len(q) : d[i] < q[j]
  PROVE  /\ Increasing(Tail(q)) /\ Increasing(Append(d, Head(q)))
         /\ \A i \in 1 .. Len(d), j \in 1 .. Len(Tail(q)) : d[i] < Tail(q)[j]
         /\ \A i \in 1 .. Len(d) + 1, j \in 1 .. Len(Tail(q)) :
              Append(d, Head(q))[i] < Tail(q)[j]
<1>1. /\ Tail(q) \in Seq(1 .. n) /\ Head(q) \in 1 .. n /\ Head(q) = q[1]
      /\ Len(Tail(q)) = Len(q) - 1 /\ Len(q) \in Nat \ {0}
      /\ \A k \in 1 .. Len(q) - 1 : Tail(q)[k] = q[k + 1]
  BY Dequeued
<1>2. /\ Len(Append(d, Head(q))) = Len(d) + 1 /\ Len(d) \in Nat
      /\ \A k \in 1 .. Len(d) : Append(d, Head(q))[k] = d[k]
      /\ Append(d, Head(q))[Len(d) + 1] = q[1]
  BY <1>1, Appended
<1>3. \A k \in 1 .. Len(q) - 1 : k + 1 \in 1 .. Len(q) /\ 1 < k + 1
  BY <1>1
<1>4. 1 \in 1 .. Len(q)
  BY <1>1
<1>5. Increasing(Tail(q))
  <2>1. SUFFICES ASSUME NEW i \in 1 .. Len(q) - 1, NEW j \in 1 .. Len(q) - 1, i < j
                 PROVE  Tail(q)[i] < Tail(q)[j]
    BY <1>1 DEF Increasing
  <2>2. q[i + 1] < q[j + 1]
    BY <1>3, <2>1 DEF Increasing
  <2> QED BY <1>1, <2>2
<1>6. Increasing(Append(d, Head(q)))
  <2>1. SUFFICES ASSUME NEW i \in 1 .. Len(d) + 1, NEW j \in 1 .. Len(d) + 1, i < j
                 PROVE  Append(d, Head(q))[i] < Append(d, Head(q))[j]
    BY <1>2 DEF Increasing
  <2>2. i \in 1 .. Len(d) /\ (j \in 1 .. Len(d) \/ j = Len(d) + 1)
    <3>1. Len(d) \in Nat
      OBVIOUS
    <3> QED BY <2>1, <3>1
  <2> QED BY <1>2, <1>4, <2>1, <2>2 DEF Increasing
<1>7. \A i \in 1 .. Len(d), j \in 1 .. Len(q) - 1 : d[i] < Tail(q)[j]
  BY <1>1, <1>3
<1>8. \A j \in 1 .. Len(q) - 1 : q[1] < Tail(q)[j]
  <2>1. \A j \in 1 .. Len(q) - 1 : q[1] < q[j + 1]
    BY <1>3, <1>4 DEF Increasing
  <2> QED BY <1>1, <2>1
<1>9. \A i \in 1 .. Len(d) + 1, j \in 1 .. Len(q) - 1 : Append(d, Head(q))[i] < Tail(q)[j]
  <2>1. \A i \in 1 .. Len(d) + 1 : i \in 1 .. Len(d) \/ i = Len(d) + 1
    BY <1>2
  <2> QED BY <1>2, <1>7, <1>8, <2>1
<1> QED BY <1>1, <1>5, <1>6, <1>7, <1>9
-----------------------------------------------------------------------------
(* The steps.                                                              *)

\* A device is loaded with nothing written and nobody waiting.
LEMMA InitIInv == ASSUME Sizes, Init PROVE IInv
<1>1. TypeOK
  <2>1. 0 \in 0 .. MaxWrites /\ 0 \in 0 .. 0 /\ <<>> \in Seq(1 .. 0)
    BY DEF Sizes
  <2> QED BY <2>1 DEF Init, TypeOK
<1>2. Roles /\ NobodyOversleeps /\ ChangeSeen
  BY DEF Init, Roles, NobodyOversleeps, ChangeSeen
<1>3. KeysFollow
  <2>1. 1 .. Len(<<>>) = {}
    OBVIOUS
  <2> QED BY <2>1 DEF Init, KeysFollow, Increasing
<1> QED BY <1>1, <1>2, <1>3 DEF IInv

\* What the types say, fact by fact.
LEMMA Types ==
  ASSUME Sizes, TypeOK
  PROVE  /\ writes \in Nat /\ MaxWrites \in Nat /\ writes <= MaxWrites
         /\ stored \in 0 .. writes /\ got \in 0 .. writes
         /\ keys \in Seq(1 .. writes) /\ delivered \in Seq(1 .. writes)
         /\ reader \in [Readers -> {"idle", "test", "asleep", "section", "reset"}]
         /\ writer \in [Writers -> {"idle", "wake"}]
         /\ device \in Devices /\ faults \in BOOLEAN /\ flag \in BOOLEAN
BY DEF Sizes, TypeOK

\* The steps that touch neither the values nor the keys keep the types.
LEMMA SameValues ==
  ASSUME Sizes, TypeOK, UNCHANGED <<device, faults, writes, stored, keys>>,
         flag' \in BOOLEAN, got' = got \/ got' = stored, delivered' = delivered,
         \/ UNCHANGED reader
         \/ reader' \in [Readers -> {"idle", "test", "asleep", "section", "reset"}],
         \/ UNCHANGED writer
         \/ writer' \in [Writers -> {"idle", "wake"}]
  PROVE  TypeOK'
<1>1. got' \in 0 .. writes
  BY Types
<1>2. /\ reader' \in [Readers -> {"idle", "test", "asleep", "section", "reset"}]
      /\ writer' \in [Writers -> {"idle", "wake"}]
  BY Types
<1> QED BY <1>1, <1>2, Types DEF TypeOK

\* Every step keeps the types.
LEMMA TypeStep == ASSUME Sizes, IInv, Next PROVE TypeOK'
<1> USE Types
<1>1. TypeOK
  BY DEF IInv
<1>2. ASSUME NEW w \in Writers, Write(w) PROVE TypeOK'
  <2>1. /\ writes' = writes + 1 /\ writes < MaxWrites /\ stored' = writes' /\ flag' = TRUE
        /\ writer' = [writer EXCEPT ![w] = IF device = "nonblock" THEN "idle" ELSE "wake"]
        /\ UNCHANGED <<device, faults, keys, reader, got, delivered>>
    BY <1>2 DEF Write
  <2>2. /\ writes' \in 0 .. MaxWrites /\ stored' \in 0 .. writes' /\ got' \in 0 .. writes'
        /\ writes' \in Nat /\ writes <= writes'
    BY <1>1, <2>1
  <2>3. keys \in Seq(1 .. writes') /\ delivered \in Seq(1 .. writes')
    BY <1>1, <2>2, Widened
  <2>4. writer' \in [Writers -> {"idle", "wake"}]
    BY <1>1, <2>1
  <2> QED BY <1>1, <2>1, <2>2, <2>3, <2>4 DEF TypeOK
<1>3. ASSUME NEW w \in Writers, WriteNothing(w) PROVE TypeOK'
  <2>1. writer' \in [Writers -> {"idle", "wake"}]
    BY <1>1, <1>3 DEF WriteNothing
  <2> QED BY <1>1, <1>3, <2>1, SameValues DEF WriteNothing
<1>4. ASSUME NEW w \in Writers, BufferPut(w) PROVE TypeOK'
  <2>1. /\ device = "keyboard" /\ writes' = writes + 1 /\ writes < MaxWrites
        /\ keys' = Put(keys, writes') /\ flag' = TRUE
        /\ writer' = [writer EXCEPT ![w] = "wake"]
        /\ UNCHANGED <<device, faults, stored, reader, got, delivered>>
    BY <1>4 DEF BufferPut
  <2>2. /\ writes' \in 0 .. MaxWrites /\ stored' \in 0 .. writes' /\ got' \in 0 .. writes'
        /\ writes' \in Nat /\ writes <= writes'
    BY <1>1, <2>1
  <2>3. keys' \in Seq(1 .. writes') /\ delivered \in Seq(1 .. writes')
    <3>1. Increasing(keys)
      BY <2>1 DEF IInv, KeysFollow
    <3> QED BY <1>1, <2>1, <2>2, <3>1, PutInOrder, Widened
  <2>4. writer' \in [Writers -> {"idle", "wake"}]
    BY <1>1, <2>1
  <2> QED BY <1>1, <2>1, <2>2, <2>3, <2>4 DEF TypeOK
<1>5. ASSUME NEW w \in Writers, WakeUp(w) PROVE TypeOK'
  <2>1. /\ writer' \in [Writers -> {"idle", "wake"}]
        /\ reader' \in [Readers -> {"idle", "test", "asleep", "section", "reset"}]
    BY <1>1, <1>5 DEF WakeUp
  <2> QED BY <1>1, <1>5, <2>1, SameValues DEF WakeUp
<1>6. ASSUME NEW r \in Readers,
             Read(r) \/ Test(r) \/ Interrupted(r) \/ NoMoreKeys(r)
      PROVE  TypeOK'
  <2>1. reader' \in [Readers -> {"idle", "test", "asleep", "section", "reset"}]
    BY <1>1, <1>6 DEF Read, Test, Interrupted, NoMoreKeys, Go
  <2>2. UNCHANGED <<device, faults, writes, flag, stored, keys, writer, got, delivered>>
    BY <1>6 DEF Read, Test, Interrupted, NoMoreKeys
  <2> QED BY <1>1, <2>1, <2>2, SameValues
<1>7. ASSUME NEW r \in Readers, ReadSection(r) \/ ReadNonblock(r) \/ ResetNonblock(r)
      PROVE  TypeOK'
  <2>1. reader' = reader
          \/ reader' \in [Readers -> {"idle", "test", "asleep", "section", "reset"}]
    BY <1>1, <1>7 DEF ReadSection, ReadNonblock, ResetNonblock, Go
  <2>2. /\ UNCHANGED <<device, faults, writes, stored, keys, writer, delivered>>
        /\ got' = got \/ got' = stored
        /\ flag' \in BOOLEAN
    BY <1>1, <1>7 DEF ReadSection, ReadNonblock, ResetNonblock
  <2> QED BY <1>1, <2>1, <2>2, SameValues
<1>8. ASSUME NEW r \in Readers, BufferGet(r) PROVE TypeOK'
  <2>1. /\ keys # <<>> /\ keys' = Tail(keys)
        /\ flag' = (flag /\ Tail(keys) # <<>>)
        /\ delivered' = Append(delivered, Head(keys)) \/ delivered' = delivered
        /\ UNCHANGED <<device, faults, writes, stored, writer, got>>
    BY <1>8 DEF BufferGet
  <2>2. reader' \in [Readers -> {"idle", "test", "asleep", "section", "reset"}]
    BY <1>1, <1>8 DEF BufferGet, Go
  <2>3. Tail(keys) \in Seq(1 .. writes) /\ Head(keys) \in 1 .. writes
    BY <1>1, <2>1, Dequeued
  <2>4. delivered' \in Seq(1 .. writes)
    <3>1. delivered \in Seq(1 .. writes)
      BY <1>1
    <3>2. Append(delivered, Head(keys)) \in Seq(1 .. writes)
      BY <2>3, <3>1, Appended
    <3> QED BY <2>1, <3>1, <3>2
  <2>5. flag' \in BOOLEAN
    BY <2>1
  <2> QED BY <1>1, <2>1, <2>2, <2>3, <2>4, <2>5 DEF TypeOK
<1> QED BY <1>2, <1>3, <1>4, <1>5, <1>6, <1>7, <1>8 DEF Next

\* Readers of nonblock.c stay with it, and no wake-up is lost.
LEMMA ReadersStep == ASSUME Sizes, IInv, Next PROVE Roles' /\ NobodyOversleeps'
<1>1. /\ Roles /\ NobodyOversleeps
      /\ reader \in [Readers -> {"idle", "test", "asleep", "section", "reset"}]
      /\ writer \in [Writers -> {"idle", "wake"}] /\ flag \in BOOLEAN
  BY DEF IInv, TypeOK
<1>2. device' = device
  BY DEF Next, Write, WriteNothing, BufferPut, WakeUp, Read, Test, Interrupted, ReadSection,
         BufferGet, NoMoreKeys, ReadNonblock, ResetNonblock
<1>3. ASSUME NEW w \in Writers, Write(w) \/ WriteNothing(w) \/ BufferPut(w)
      PROVE  Roles' /\ NobodyOversleeps'
  <2>1. /\ reader' = reader
        /\ writer' = [writer EXCEPT ![w] = IF device = "nonblock" THEN "idle" ELSE "wake"]
    BY <1>3 DEF Write, WriteNothing, BufferPut
  <2>2. Roles'
    BY <1>1, <1>2, <2>1 DEF Roles
  <2>3. CASE device = "nonblock"
    <3>1. \A r \in Readers : reader'[r] # "asleep"
      BY <1>1, <2>1, <2>3 DEF Roles
    <3> QED BY <2>2, <3>1 DEF NobodyOversleeps
  <2>4. CASE device # "nonblock"
    <3>1. writer'[w] = "wake"
      BY <1>1, <2>1, <2>4
    <3> QED BY <2>2, <3>1 DEF NobodyOversleeps
  <2> QED BY <2>3, <2>4
<1>4. ASSUME NEW w \in Writers, WakeUp(w) PROVE Roles' /\ NobodyOversleeps'
  <2>1. reader' = [r \in Readers |-> IF reader[r] = "asleep" THEN "test" ELSE reader[r]]
    BY <1>4 DEF WakeUp
  <2>2. \A r \in Readers : reader'[r] # "asleep"
    BY <2>1
  <2>3. Roles'
    BY <1>1, <1>2, <2>1 DEF Roles
  <2> QED BY <2>2, <2>3 DEF NobodyOversleeps
<1>5. ASSUME NEW r \in Readers, Test(r) PROVE Roles' /\ NobodyOversleeps'
  <2>1. /\ reader[r] = "test" /\ flag' = flag /\ writer' = writer
        /\ reader' = [reader EXCEPT ![r] = IF flag THEN "section" ELSE "asleep"]
    BY <1>5 DEF Test, Go
  <2>2. Roles'
    BY <1>1, <1>2, <2>1 DEF Roles
  <2>3. CASE flag
    <3>1. \A s \in Readers : reader'[s] = "asleep" => reader[s] = "asleep"
      BY <1>1, <2>1, <2>3
    <3> QED BY <1>1, <2>1, <2>2, <3>1 DEF NobodyOversleeps
  <2>4. CASE ~flag
    BY <2>1, <2>2, <2>4 DEF NobodyOversleeps
  <2> QED BY <2>3, <2>4
<1>6. ASSUME NEW r \in Readers,
             \/ Read(r) \/ Interrupted(r) \/ ReadSection(r) \/ BufferGet(r)
             \/ NoMoreKeys(r) \/ ReadNonblock(r) \/ ResetNonblock(r)
      PROVE  Roles' /\ NobodyOversleeps'
  <2>1. writer' = writer /\ (flag' => flag)
    BY <1>1, <1>6 DEF Read, Interrupted, ReadSection, BufferGet, NoMoreKeys, ReadNonblock,
                      ResetNonblock
  <2>2. \/ reader' = reader
        \/ \E pc \in {"idle", "test", "section", "reset"} :
             /\ reader' = [reader EXCEPT ![r] = pc]
             /\ pc = "reset" => device = "nonblock"
             /\ pc \in {"test", "section"} => device # "nonblock"
    <3>1. reader[r] = "asleep" => device # "nonblock"
      BY <1>1 DEF Roles
    <3> QED BY <1>6, <3>1 DEF Read, Interrupted, ReadSection, BufferGet, NoMoreKeys,
                               ReadNonblock, ResetNonblock, Go
  <2>3. Roles'
    BY <1>1, <1>2, <2>2 DEF Roles
  <2>4. \A s \in Readers : reader'[s] = "asleep" => reader[s] = "asleep"
    BY <1>1, <2>2
  <2> QED BY <1>1, <2>1, <2>3, <2>4 DEF NobodyOversleeps
<1> QED BY <1>3, <1>4, <1>5, <1>6 DEF Next

\* The flag of the LED and of the buffer is reset only beside the copy.
LEMMA ChangeStep == ASSUME IInv, Next PROVE ChangeSeen'
<1>1. SUFFICES ASSUME ~faults', device' \in {"led", "block"}, ~flag' PROVE got' = stored'
  BY DEF ChangeSeen
<1>2. device' = device /\ faults' = faults
  BY DEF Next, Write, WriteNothing, BufferPut, WakeUp, Read, Test, Interrupted, ReadSection,
         BufferGet, NoMoreKeys, ReadNonblock, ResetNonblock
<1>3. ~flag => got = stored
  BY <1>1, <1>2 DEF IInv, ChangeSeen
<1>4. ASSUME NEW w \in Writers, Write(w) \/ WriteNothing(w) \/ BufferPut(w) \/ WakeUp(w)
      PROVE  got' = stored'
  BY <1>1, <1>2, <1>3, <1>4 DEF Write, WriteNothing, BufferPut, WakeUp
<1>5. ASSUME NEW r \in Readers, ReadSection(r) PROVE got' = stored'
  BY <1>1, <1>2, <1>5 DEF ReadSection
<1>6. ASSUME NEW r \in Readers,
             Read(r) \/ Test(r) \/ Interrupted(r) \/ BufferGet(r) \/ NoMoreKeys(r)
      PROVE  got' = stored'
  BY <1>1, <1>2, <1>3, <1>6 DEF Read, Test, Interrupted, BufferGet, NoMoreKeys
<1>7. ASSUME NEW r \in Readers, ReadNonblock(r) \/ ResetNonblock(r) PROVE got' = stored'
  <2>1. device # "nonblock" => reader[r] # "reset"
    BY <1>7 DEF IInv, Roles
  <2> QED BY <1>1, <1>2, <1>7, <2>1 DEF ReadNonblock, ResetNonblock
<1> QED BY <1>4, <1>5, <1>6, <1>7 DEF Next

\* The keys stay in order, behind those that were handed out.
LEMMA KeysStep == ASSUME Sizes, IInv, Next PROVE KeysFollow'
<1>1. SUFFICES ASSUME device' = "keyboard"
               PROVE  /\ Increasing(delivered') /\ Increasing(keys')
                      /\ \A i \in 1 .. Len(delivered'), j \in 1 .. Len(keys') :
                           delivered'[i] < keys'[j]
                      /\ flag' = (keys' # <<>>)
  BY DEF KeysFollow, Increasing
<1>2. device = "keyboard"
  BY <1>1 DEF Next, Write, WriteNothing, BufferPut, WakeUp, Read, Test, Interrupted, ReadSection,
              BufferGet, NoMoreKeys, ReadNonblock, ResetNonblock
<1>3. /\ Increasing(delivered) /\ Increasing(keys)
      /\ \A i \in 1 .. Len(delivered), j \in 1 .. Len(keys) : delivered[i] < keys[j]
      /\ flag = (keys # <<>>)
  BY <1>2 DEF IInv, KeysFollow
<1>4. /\ writes \in Nat /\ keys \in Seq(1 .. writes) /\ delivered \in Seq(1 .. writes)
  BY Types DEF IInv
<1>5. CASE UNCHANGED <<keys, delivered, flag>>
  BY <1>3, <1>5
<1>6. ASSUME NEW w \in Writers, BufferPut(w)
      PROVE  /\ Increasing(delivered') /\ Increasing(keys')
             /\ \A i \in 1 .. Len(delivered'), j \in 1 .. Len(keys') : delivered'[i] < keys'[j]
             /\ flag' = (keys' # <<>>)
  <2>1. keys' = Put(keys, writes + 1) /\ flag' = TRUE /\ delivered' = delivered
    BY <1>6 DEF BufferPut
  <2>2. /\ keys' # <<>> /\ Increasing(keys')
        /\ \A k \in 1 .. Len(keys') :
             keys'[k] = writes + 1 \/ \E l \in 1 .. Len(keys) : keys'[k] = keys[l]
    BY <1>3, <1>4, <2>1, PutInOrder
  <2>3. \A i \in 1 .. Len(delivered) : delivered[i] < writes + 1
    BY <1>4
  <2> QED BY <1>3, <2>1, <2>2, <2>3
<1>7. ASSUME NEW r \in Readers, BufferGet(r)
      PROVE  /\ Increasing(delivered') /\ Increasing(keys')
             /\ \A i \in 1 .. Len(delivered'), j \in 1 .. Len(keys') : delivered'[i] < keys'[j]
             /\ flag' = (keys' # <<>>)
  <2>1. /\ keys # <<>> /\ keys' = Tail(keys) /\ flag' = (flag /\ Tail(keys) # <<>>)
        /\ delivered' = Append(delivered, Head(keys)) \/ delivered' = delivered
    BY <1>7 DEF BufferGet
  <2>2. /\ Increasing(Tail(keys)) /\ Increasing(Append(delivered, Head(keys)))
        /\ \A i \in 1 .. Len(delivered), j \in 1 .. Len(Tail(keys)) :
             delivered[i] < Tail(keys)[j]
        /\ \A i \in 1 .. Len(delivered) + 1, j \in 1 .. Len(Tail(keys)) :
             Append(delivered, Head(keys))[i] < Tail(keys)[j]
    BY <1>3, <1>4, <2>1, MovedInOrder
  <2>3. Len(Append(delivered, Head(keys))) = Len(delivered) + 1
    BY <1>4, <2>1, Dequeued, Appended
  <2>4. flag' = (keys' # <<>>)
    BY <1>3, <2>1
  <2>5. CASE delivered' = delivered
    BY <1>3, <2>1, <2>2, <2>4, <2>5
  <2>6. CASE delivered' = Append(delivered, Head(keys))
    BY <2>1, <2>2, <2>3, <2>4, <2>6
  <2> QED BY <2>1, <2>5, <2>6
<1>8. ASSUME NEW w \in Writers, Write(w) \/ WriteNothing(w) \/ WakeUp(w)
      PROVE  UNCHANGED <<keys, delivered, flag>>
  BY <1>2, <1>8 DEF Write, WriteNothing, WakeUp
<1>9. ASSUME NEW r \in Readers,
             \/ Read(r) \/ Test(r) \/ Interrupted(r) \/ ReadSection(r)
             \/ NoMoreKeys(r) \/ ReadNonblock(r) \/ ResetNonblock(r)
      PROVE  UNCHANGED <<keys, delivered, flag>>
  <2>1. reader[r] # "reset"
    BY <1>2 DEF IInv, Roles
  <2> QED BY <1>2, <1>9, <2>1 DEF Read, Test, Interrupted, ReadSection, NoMoreKeys,
                                   ReadNonblock, ResetNonblock
<1> QED BY <1>5, <1>6, <1>7, <1>8, <1>9 DEF Next

\* Every step of every device keeps the inductive invariant.
LEMMA NextIInv == ASSUME Sizes, IInv, [Next]_vars PROVE IInv'
<1>1. CASE Next
  BY <1>1, TypeStep, ReadersStep, ChangeStep, KeysStep DEF IInv
<1>2. CASE UNCHANGED vars
  BY <1>2 DEF vars, IInv, TypeOK, Roles, NobodyOversleeps, ChangeSeen, KeysFollow, Increasing
<1> QED BY <1>1, <1>2
-----------------------------------------------------------------------------
(* The theorems.                                                           *)

\* The inductive invariant holds for every number of processes.
THEOREM Invariance == ASSUME Sizes PROVE Spec => []IInv
<1>1. Init => IInv
  BY InitIInv
<1>2. IInv /\ [Next]_vars => IInv'
  BY NextIInv
<1> QED BY <1>1, <1>2, PTL DEF Spec

\* Values and keys are those of writes that have happened, and processes are where
\* their file operation can be.
THEOREM TypeCorrect == ASSUME Sizes PROVE Spec => []TypeOK
<1>1. IInv => TypeOK
  BY DEF IInv
<1> QED BY <1>1, Invariance, PTL

\* block_led.c and blocking.c: however many readers were woken together or were
\* interrupted, the flag is clear only if the present value was handed out.
THEOREM NoChangeSwallowed == ASSUME Sizes PROVE Spec => []ChangeSeen
<1>1. IInv => ChangeSeen
  BY DEF IInv
<1> QED BY <1>1, Invariance, PTL

\* All four devices: while a reader sleeps beside a set flag, some writer is on its
\* way to wake_up_interruptible.
THEOREM NoWakeUpLost == ASSUME Sizes PROVE Spec => []NobodyOversleeps
<1>1. IInv => NobodyOversleeps
  BY DEF IInv
<1> QED BY <1>1, Invariance, PTL

\* keyboard_driver.c: readers that race for the ring take the keys in the order of
\* the presses, none twice, and data_available is set exactly while there are keys.
THEOREM KeysStayInOrder == ASSUME Sizes PROVE Spec => []KeysInOrder
<1>1. ASSUME IInv PROVE KeysInOrder
  <2>1. SUFFICES ASSUME device = "keyboard"
                 PROVE  LET all == delivered \o keys
                        IN \A i, j \in DOMAIN all : i < j => all[i] < all[j]
    BY <1>1 DEF IInv, KeysFollow, KeysInOrder
  <2>2. /\ delivered \in Seq(1 .. writes) /\ keys \in Seq(1 .. writes)
        /\ Len(delivered) \in Nat /\ Len(keys) \in Nat
    BY <1>1 DEF IInv, TypeOK
  <2>3. /\ Increasing(delivered) /\ Increasing(keys)
        /\ \A i \in 1 .. Len(delivered), j \in 1 .. Len(keys) : delivered[i] < keys[j]
    BY <1>1, <2>1 DEF IInv, KeysFollow
  <2>4. /\ DOMAIN (delivered \o keys) = 1 .. Len(delivered) + Len(keys)
        /\ \A i \in 1 .. Len(delivered) + Len(keys) :
             (delivered \o keys)[i] =
               IF i <= Len(delivered) THEN delivered[i] ELSE keys[i - Len(delivered)]
    BY <2>2
  <2>5. SUFFICES ASSUME NEW i \in 1 .. Len(delivered) + Len(keys),
                        NEW j \in 1 .. Len(delivered) + Len(keys), i < j
                 PROVE  (delivered \o keys)[i] < (delivered \o keys)[j]
    BY <2>4
  <2>6. CASE j <= Len(delivered)
    <3>1. i \in 1 .. Len(delivered) /\ j \in 1 .. Len(delivered) /\ i <= Len(delivered)
      BY <2>2, <2>5, <2>6
    <3> QED BY <2>3, <2>4, <2>5, <3>1 DEF Increasing
  <2>7. CASE i <= Len(delivered) /\ ~(j <= Len(delivered))
    <3>1. i \in 1 .. Len(delivered) /\ j - Len(delivered) \in 1 .. Len(keys)
      BY <2>2, <2>5, <2>7
    <3> QED BY <2>3, <2>4, <2>7, <3>1
  <2>8. CASE ~(i <= Len(delivered))
    <3>1. /\ i - Len(delivered) \in 1 .. Len(keys) /\ j - Len(delivered) \in 1 .. Len(keys)
          /\ i - Len(delivered) < j - Len(delivered) /\ ~(j <= Len(delivered))
      BY <2>2, <2>5, <2>8
    <3> QED BY <2>3, <2>4, <2>8, <3>1 DEF Increasing
  <2> QED BY <2>6, <2>7, <2>8
<1> QED BY <1>1, Invariance, PTL
=============================================================================
