------------------------------ MODULE AudioOut ------------------------------
(***************************************************************************)
(* The output streams of the audio HAL (audio/audio_hw.c): out_write,      *)
(* out_standby and the opening and closing of streams by several threads   *)
(* under the device's and the streams' mutexes.  All streams play on one   *)
(* PCM device, which takes one open at a time.                             *)
(*                                                                         *)
(* The framework's side of the contract is kept: a stream is not used once *)
(* its close was called, and not closed during another call on it.         *)
(***************************************************************************)
EXTENDS Naturals

CONSTANTS
    Threads, Streams,
    none,           \* nobody
    MaxCalls        \* bound on the calls of each thread

ASSUME AudioAssumption ==
    /\ none \notin Threads \cup Streams
    /\ MaxCalls \in Nat

VARIABLES
    devLock,        \* stub_audio_device::lock, the thread that holds it
    outLock,        \* stub_stream_out::lock of each stream
    open,           \* streams that were opened and not freed
    standby,        \* streams whose standby is set
    pcm,            \* streams whose pcm is not NULL
    card,           \* the stream whose pcm has the PCM device open
    pc, stream,     \* where each thread is, and in a call on which stream
    ret,            \* ret of out_write
    calls           \* calls each thread has made

vars == <<devLock, outLock, open, standby, pcm, card, pc, stream, ret, calls>>

Locations == {"idle", "lock_dev", "lock_out", "start", "unlock_dev", "writing",
              "unlock_out", "pause", "close_pcm", "standby_out", "standby_dev"}
Kinds == {"write", "standby", "close"}
Results == {"0", "ENOMEM", "EPIPE", "EIO"}

Init ==
    /\ devLock = none
    /\ outLock = [s \in Streams |-> none]
    /\ open = {} /\ standby = {} /\ pcm = {}
    /\ card = none
    /\ pc = [t \in Threads |-> [at |-> "idle", kind |-> "write"]]
    /\ stream = [t \in Threads |-> none]
    /\ ret = [t \in Threads |-> "0"]
    /\ calls = [t \in Threads |-> 0]

At(t, where) == pc[t].at = where
Go(t, where) == pc' = [pc EXCEPT ![t].at = where]

-----------------------------------------------------------------------------
(* A thread calls into the HAL. *)

(* adev_open_output_stream: any number of streams may be open. *)
OpenStream(t, s) ==
    /\ At(t, "idle") /\ calls[t] < MaxCalls
    /\ s \notin open
    /\ calls' = [calls EXCEPT ![t] = @ + 1]
    /\ open' = open \cup {s}
    /\ standby' = standby \cup {s}
    /\ UNCHANGED <<devLock, outLock, pcm, card, pc, stream, ret>>

(* out_write, out_standby or adev_close_output_stream is called. *)
Call(t, s, kind) ==
    /\ At(t, "idle") /\ calls[t] < MaxCalls
    /\ s \in open
    /\ \A u \in Threads : stream[u] = s =>
          kind # "close" /\ pc[u].kind # "close"
    /\ calls' = [calls EXCEPT ![t] = @ + 1]
    /\ pc' = [pc EXCEPT ![t] = [at |-> "lock_dev", kind |-> kind]]
    /\ stream' = [stream EXCEPT ![t] = s]
    /\ ret' = [ret EXCEPT ![t] = "0"]
    /\ UNCHANGED <<devLock, outLock, open, standby, pcm, card>>

Return(t) ==
    /\ pc' = [pc EXCEPT ![t].at = "idle"]
    /\ stream' = [stream EXCEPT ![t] = none]

-----------------------------------------------------------------------------
(* The locks, in the order out_write and out_standby take them. *)
(* Mutant: out_standby takes the device lock only. *)
mutantLockDevice(t) ==
    /\ At(t, "lock_dev") /\ devLock = none
    /\ devLock' = t
    /\ Go(t, IF pc[t].kind = "write" THEN "lock_out" ELSE "close_pcm")
    /\ UNCHANGED <<outLock, open, standby, pcm, card, stream, ret, calls>>

LockDevice(t) ==
    /\ At(t, "lock_dev") /\ devLock = none
    /\ devLock' = t
    /\ Go(t, "lock_out")
    /\ UNCHANGED <<outLock, open, standby, pcm, card, stream, ret, calls>>

LockStream(t) ==
    /\ At(t, "lock_out") /\ outLock[stream[t]] = none
    /\ outLock' = [outLock EXCEPT ![stream[t]] = t]
    /\ Go(t, IF pc[t].kind = "write" THEN "start" ELSE "close_pcm")
    /\ UNCHANGED <<devLock, open, standby, pcm, card, stream, ret, calls>>

UnlockStream(t) == outLock' = [outLock EXCEPT ![stream[t]] = none]

-----------------------------------------------------------------------------
(* out_write *)

(* start_output_stream, failing: the pcm is closed and forgotten. *)
startFails(s) == UNCHANGED <<pcm, card>>

(* start_output_stream, succeeding: the device is free. *)
startSucceeds(s) ==
    /\ card = none
    /\ card' = s
    /\ pcm' = pcm \cup {s}

(* Mutant: the device lock is kept when the stream cannot be started. *)
mutantStart(t) ==
    /\ At(t, "start") /\ stream[t] \in standby
    /\ startFails(stream[t])
    /\ ret' = [ret EXCEPT ![t] = "ENOMEM"]
    /\ Go(t, "unlock_out")
    /\ UNCHANGED <<devLock, outLock, open, standby, stream, calls>>

(* The stream cannot be started: the device lock is released, and the rest *)
(* is the exit path. *)
StartFails(t) ==
    /\ At(t, "start") /\ stream[t] \in standby
    /\ startFails(stream[t])
    /\ ret' = [ret EXCEPT ![t] = "ENOMEM"]
    /\ devLock' = none
    /\ Go(t, "unlock_out")
    /\ UNCHANGED <<outLock, open, standby, stream, calls>>

(* The stream leaves standby, or had left it before. *)
StartStream(t) ==
    /\ At(t, "start")
    /\ IF stream[t] \in standby
       THEN startSucceeds(stream[t]) /\ standby' = standby \ {stream[t]}
       ELSE UNCHANGED <<standby, pcm, card>>
    /\ Go(t, "unlock_dev")
    /\ UNCHANGED <<devLock, outLock, open, stream, ret, calls>>

(* Mutant: the device lock is released after pcm_write only. *)
mutantUnlockLate(t) ==
    /\ At(t, "unlock_dev")
    /\ Go(t, "writing")
    /\ UNCHANGED <<devLock, outLock, open, standby, pcm, card, stream, ret, calls>>

(* The device lock is released, and pcm_write begins. *)
UnlockDevice(t) ==
    /\ At(t, "unlock_dev")
    /\ devLock' = none
    /\ Go(t, "writing")
    /\ UNCHANGED <<outLock, open, standby, pcm, card, stream, ret, calls>>

(* pcm_write returns; an underrun returns at once, without a pause. *)
WriteReturns(t) ==
    /\ At(t, "writing")
    /\ \E r \in {"0", "EPIPE", "EIO"} : ret' = [ret EXCEPT ![t] = r]
    /\ Go(t, "unlock_out")
    /\ UNCHANGED <<devLock, outLock, open, standby, pcm, card, stream, calls>>

(* The stream lock is released, and the call returns unless it failed. *)
EndWrite(t) ==
    /\ At(t, "unlock_out")
    /\ UnlockStream(t)
    /\ IF ret[t] \in {"0", "EPIPE"} THEN Return(t) ELSE Go(t, "pause") /\ UNCHANGED stream
    /\ UNCHANGED <<devLock, open, standby, pcm, card, ret, calls>>

(* usleep for as long as the buffer would have played. *)
PauseEnds(t) ==
    /\ At(t, "pause")
    /\ Return(t)
    /\ UNCHANGED <<devLock, outLock, open, standby, pcm, card, ret, calls>>

-----------------------------------------------------------------------------
(* out_standby *)

(* Mutant: the stream is put to standby without closing its pcm. *)
mutantLeakPcm(s) == pcm' = pcm \ {s} /\ UNCHANGED card

closePcm(s) == pcm' = pcm \ {s} /\ card' = IF card = s THEN none ELSE card

ClosePcm(t) ==
    /\ At(t, "close_pcm")
    /\ IF stream[t] \in standby
       THEN UNCHANGED <<standby, pcm, card>>
       ELSE closePcm(stream[t]) /\ standby' = standby \cup {stream[t]}
    /\ Go(t, "standby_out")
    /\ UNCHANGED <<devLock, outLock, open, stream, ret, calls>>

StandbyUnlocksStream(t) ==
    /\ At(t, "standby_out")
    /\ UnlockStream(t)
    /\ Go(t, "standby_dev")
    /\ UNCHANGED <<devLock, open, standby, pcm, card, stream, ret, calls>>

(* The device lock is released; adev_close_output_stream frees the stream. *)
EndStandby(t) ==
    /\ At(t, "standby_dev")
    /\ devLock' = none
    /\ Return(t)
    /\ IF pc[t].kind = "close"
       THEN open' = open \ {stream[t]} /\ standby' = standby \ {stream[t]}
       ELSE UNCHANGED <<open, standby>>
    /\ UNCHANGED <<outLock, pcm, card, ret, calls>>

-----------------------------------------------------------------------------
Step(t) ==
    \/ LockDevice(t) \/ LockStream(t)
    \/ StartFails(t) \/ StartStream(t) \/ UnlockDevice(t)
    \/ WriteReturns(t) \/ EndWrite(t) \/ PauseEnds(t)
    \/ ClosePcm(t) \/ StandbyUnlocksStream(t) \/ EndStandby(t)

Next ==
    \E t \in Threads :
       \/ Step(t)
       \/ \E s \in Streams : OpenStream(t, s) \/ \E kind \in Kinds : Call(t, s, kind)

(* A thread in a call goes on; nobody has to make a call. *)
Spec == Init /\ [][Next]_vars /\ \A t \in Threads : WF_vars(Step(t))

-----------------------------------------------------------------------------
(* Types. *)
TypeOK ==
    /\ devLock \in Threads \cup {none}
    /\ outLock \in [Streams -> Threads \cup {none}]
    /\ open \subseteq Streams /\ standby \subseteq open /\ pcm \subseteq open
    /\ card \in Streams \cup {none}
    /\ pc \in [Threads -> [at : Locations, kind : Kinds]]
    /\ stream \in [Threads -> Streams \cup {none}]
    /\ ret \in [Threads -> Results]
    /\ calls \in [Threads -> 0 .. MaxCalls]

(* The pcm a thread is writing to stays open until it is done: out_standby *)
(* closes it under the stream's mutex, which pcm_write runs under.         *)
PcmOutlivesWrite ==
    \A t \in Threads : At(t, "writing") => stream[t] \in pcm /\ card = stream[t]

(* Whoever gets a stream's mutex finds standby clear exactly if there is a *)
(* pcm, so no write uses a null one and no standby closes one twice; and   *)
(* the PCM device is open exactly for the stream that has a pcm, so once   *)
(* the others are in standby or closed any stream's write can start.       *)
PcmIsAccountedFor ==
    \A s \in Streams :
       /\ s \in open /\ outLock[s] = none => (s \in standby <=> s \notin pcm)
       /\ s \in pcm <=> card = s

(* A thread that is blocked in pcm_write or paces itself after a failure   *)
(* does not hold the device's mutex, and one that paces itself not the     *)
(* stream's either: no other stream waits for them directly.  (It may wait *)
(* for a standby, which keeps the device's mutex until the write is done.) *)
BlocksNobody ==
    \A t \in Threads :
       /\ pc[t].at \in {"writing", "pause"} => devLock # t
       /\ At(t, "pause") => \A s \in Streams : outLock[s] # t

(* Every call returns, whatever locks the others hold and however their    *)
(* writes end.                                                             *)
CallsReturn == \A t \in Threads : ~At(t, "idle") ~> At(t, "idle")
=============================================================================
