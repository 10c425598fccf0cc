-------------------------- MODULE BlockingDevices --------------------------
(***************************************************************************)
(* The character devices whose readers wait for writers: the virtual LED   *)
(* (block_led.c), the keyboard (keyboard_driver.c), the blocking buffer    *)
(* (blocking.c), and the one that never waits (nonblock.c).                *)
(*                                                                         *)
(* A critical section of their mutexes is one step: nothing else looks at  *)
(* what it protects, except the flag, which waiting readers test without   *)
(* the mutex.  A value that was written is the number of its write.        *)
(***************************************************************************)
EXTENDS Naturals, Sequences

CONSTANTS Readers,     \* processes that read
          Writers,     \* processes that write, and the source of key events
          BufSize,     \* BUF_SIZE of the keyboard's ring, at least 2
          MaxWrites    \* bound: writes and key presses

Devices == {"led", "block", "keyboard", "nonblock"}

VARIABLES
  device,     \* the device
  faults,     \* may a user's buffer be bad, or a read or write empty?
  writes,     \* number of writes so far
  flag,       \* state_changed, data_available: not zero?
  stored,     \* led_state, or the buffer
  keys,       \* the keyboard's ring, from tail to head
  reader,     \* where each reader is
  writer,     \* where each writer is
  got,        \* the last value that a read handed out
  delivered   \* the keys that reads handed out

vars == <<device, faults, writes, flag, stored, keys, reader, writer, got, delivered>>

Init ==
  /\ device \in Devices /\ faults \in BOOLEAN
  /\ writes = 0 /\ flag = FALSE /\ stored = 0 /\ keys = <<>>
  /\ reader = [r \in Readers |-> "idle"] /\ writer = [w \in Writers |-> "idle"]
  /\ got = 0 /\ delivered = <<>>

Go(r, pc) == reader' = [reader EXCEPT ![r] = pc]

-----------------------------------------------------------------------------
\* Writers set the flag in the critical section, and wake the readers after it.

\* vled_write and VLED_TOGGLE; my_write of blocking.c; my_write of nonblock.c,
\* which has no mutex and nobody to wake.
Write(w) ==
  /\ device # "keyboard" /\ writer[w] = "idle" /\ writes < MaxWrites
  /\ writes' = writes + 1 /\ stored' = writes' /\ flag' = TRUE
  /\ writer' = [writer EXCEPT ![w] = IF device = "nonblock" THEN "idle" ELSE "wake"]
  /\ UNCHANGED <<device, faults, keys, reader, got, delivered>>

\* A write of no bytes makes data_available 0: what was there is not read.
WriteNothing(w) ==
  /\ device \in {"block", "nonblock"} /\ faults /\ writer[w] = "idle"
  /\ flag' = FALSE
  /\ writer' = [writer EXCEPT ![w] = IF device = "nonblock" THEN "idle" ELSE "wake"]
  /\ UNCHANGED <<device, faults, writes, stored, keys, reader, got, delivered>>

\* Mutant: the tail does not move when the head reaches it, and the ring looks empty.
PutOverwriting(ring, key) ==
  IF Len(ring) + 1 = BufSize THEN <<>> ELSE Append(ring, key)

\* buffer_put: a full ring loses its oldest key.
Put(ring, key) ==
  LET more == Append(ring, key) IN IF Len(more) = BufSize THEN Tail(more) ELSE more

BufferPut(w) ==
  /\ device = "keyboard" /\ writer[w] = "idle" /\ writes < MaxWrites
  /\ writes' = writes + 1
  /\ keys' = Put(keys, writes') /\ flag' = TRUE
  /\ writer' = [writer EXCEPT ![w] = "wake"]
  /\ UNCHANGED <<device, faults, stored, reader, got, delivered>>

\* Mutant: only one of the readers is woken.
WakeUpOne(w) ==
  /\ writer[w] = "wake"
  /\ writer' = [writer EXCEPT ![w] = "idle"]
  /\ \/ \E r \in Readers : reader[r] = "asleep" /\ reader' = [reader EXCEPT ![r] = "test"]
     \/ (\A r \in Readers : reader[r] # "asleep") /\ UNCHANGED reader
  /\ UNCHANGED <<device, faults, writes, flag, stored, keys, got, delivered>>

\* wake_up_interruptible: the readers that sleep test again.
WakeUp(w) ==
  /\ writer[w] = "wake"
  /\ writer' = [writer EXCEPT ![w] = "idle"]
  /\ reader' = [r \in Readers |-> IF reader[r] = "asleep" THEN "test" ELSE reader[r]]
  /\ UNCHANGED <<device, faults, writes, flag, stored, keys, got, delivered>>

-----------------------------------------------------------------------------
\* Readers.
Read(r) ==
  /\ reader[r] = "idle" /\ device # "nonblock"
  /\ Go(r, "test")
  /\ UNCHANGED <<device, faults, writes, flag, stored, keys, writer, got, delivered>>

\* Mutant: the flag is reset by the test, before the mutex is taken.
TestAndReset(r) ==
  /\ reader[r] = "test"
  /\ Go(r, IF flag THEN "section" ELSE "asleep")
  /\ flag' = FALSE
  /\ UNCHANGED <<device, faults, writes, stored, keys, writer, got, delivered>>

\* wait_event_interruptible puts the reader on the queue before it tests, so
\* that a wake-up after the test finds it.
Test(r) ==
  /\ reader[r] = "test"
  /\ Go(r, IF flag THEN "section" ELSE "asleep")
  /\ UNCHANGED <<device, faults, writes, flag, stored, keys, writer, got, delivered>>

\* A signal ends the wait: blocking.c returns -ERESTARTSYS, the other two go on.
Interrupted(r) ==
  /\ reader[r] = "asleep"
  /\ Go(r, IF device = "block" THEN "idle" ELSE "section")
  /\ UNCHANGED <<device, faults, writes, flag, stored, keys, writer, got, delivered>>

\* vled_read and my_read of blocking.c, with the mutex.  The flag was tested
\* before it was taken, and is not tested again.  A read that hands nothing out, the
\* LED's into a bad buffer or one of no bytes of blocking.c, resets the flag all the
\* same; a bad buffer of blocking.c leaves it.
ReadSection(r) ==
  /\ reader[r] = "section" /\ device \in {"led", "block"}
  /\ \/ flag' = FALSE /\ got' = stored
     \/ faults /\ flag' = FALSE /\ UNCHANGED got
     \/ faults /\ device = "block" /\ UNCHANGED <<flag, got>>
  /\ Go(r, "idle")
  /\ UNCHANGED <<device, faults, writes, stored, keys, writer, delivered>>

\* One buffer_get of the keyboard's my_read, which goes on while there are keys
\* and room in the user's buffer.  A key that the buffer does not take is lost.
BufferGet(r) ==
  /\ reader[r] = "section" /\ device = "keyboard" /\ keys # <<>>
  /\ keys' = Tail(keys)
  /\ flag' = (flag /\ Tail(keys) # <<>>)
  /\ \/ /\ delivered' = Append(delivered, Head(keys))
        /\ \E pc \in {"section", "idle"} : Go(r, pc)
     \/ faults /\ UNCHANGED delivered /\ Go(r, "idle")
  /\ UNCHANGED <<device, faults, writes, stored, writer, got>>

\* It ends when there is no key, or at once when the user's buffer has no room.
NoMoreKeys(r) ==
  /\ reader[r] = "section" /\ device = "keyboard" /\ (keys = <<>> \/ faults)
  /\ Go(r, "idle")
  /\ UNCHANGED <<device, faults, writes, flag, stored, keys, writer, got, delivered>>

\* nonblock.c: -EAGAIN without data; otherwise the data is copied, and the flag
\* reset afterwards, without a mutex.  A bad buffer leaves the flag, a read of no
\* bytes resets it.
ReadNonblock(r) ==
  /\ device = "nonblock" /\ reader[r] = "idle" /\ flag
  /\ \/ got' = stored /\ Go(r, "reset")
     \/ faults /\ UNCHANGED got /\ (Go(r, "reset") \/ UNCHANGED reader)
  /\ UNCHANGED <<device, faults, writes, flag, stored, keys, writer, delivered>>

ResetNonblock(r) ==
  /\ reader[r] = "reset"
  /\ flag' = FALSE /\ Go(r, "idle")
  /\ UNCHANGED <<device, faults, writes, stored, keys, writer, got, delivered>>

Next ==
  \/ \E w \in Writers : Write(w) \/ WriteNothing(w) \/ BufferPut(w) \/ WakeUp(w)
  \/ \E r \in Readers : \/ Read(r) \/ Test(r) \/ Interrupted(r)
                        \/ ReadSection(r) \/ BufferGet(r) \/ NoMoreKeys(r)
                        \/ ReadNonblock(r) \/ ResetNonblock(r)

Spec == Init /\ [][Next]_vars

-----------------------------------------------------------------------------
\* The state is well typed.
TypeOK ==
  /\ device \in Devices /\ faults \in BOOLEAN /\ flag \in BOOLEAN
  /\ writes \in 0 .. MaxWrites /\ stored \in 0 .. writes /\ got \in 0 .. writes
  /\ keys \in Seq(1 .. writes) /\ delivered \in Seq(1 .. writes)
  /\ reader \in [Readers -> {"idle", "test", "asleep", "section", "reset"}]
  /\ writer \in [Writers -> {"idle", "wake"}]

\* With a mutex and with good buffers no change is swallowed: however readers that
\* were woken together, or interrupted, reset the flag, it is clear only if the
\* present value has been handed out.  (nonblock.c does not promise it: a write
\* between the copy and the reset is lost.)
ChangeSeen ==
  ~faults /\ device \in {"led", "block"} /\ ~flag => got = stored

\* Readers that race for the ring take the keys in the order of the presses, none
\* twice, and data_available says whether the ring has any.
KeysInOrder ==
  device = "keyboard" =>
    /\ LET all == delivered \o keys IN \A i, j \in DOMAIN all : i < j => all[i] < all[j]
    /\ flag = (keys # <<>>)

\* No wake-up is lost: a reader sleeps beside a set flag only until the writer
\* that has set it, or a later one, gets to wake it.
NobodyOversleeps ==
  flag /\ (\E r \in Readers : reader[r] = "asleep") => \E w \in Writers : writer[w] = "wake"
=============================================================================
