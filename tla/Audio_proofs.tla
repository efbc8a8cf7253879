---------------------------- MODULE Audio_proofs ----------------------------
(***************************************************************************)
(* Proofs about both streams of audio/audio_hw.c, which share nothing: the *)
(* output stream (AudioOut) first, then the input stream (AudioIn).        *)
(***************************************************************************)
EXTENDS AudioOut, AudioIn, TLAPS

-----------------------------------------------------------------------------
(* The output stream.                                                      *)
(* For any threads, streams and number of calls: the two mutexes are held  *)
(* by the thread whose place in the code says so (Ownership), therefore a  *)
(* stream's pcm changes under its own mutex only, and a thread that writes *)
(* finds it open until it is done.                                         *)

DeviceHeldAt == {"lock_out", "start", "unlock_dev", "close_pcm", "standby_out",
                 "standby_dev"}
StreamHeldAt == {"start", "unlock_dev", "writing", "unlock_out", "close_pcm",
                 "standby_out"}

(* Who holds a mutex can be read off the places of the threads. *)
Ownership ==
    /\ \A t \in Threads :
          /\ pc[t].at \in DeviceHeldAt <=> devLock = t
          /\ pc[t].at \in StreamHeldAt => outLock[stream[t]] = t
          /\ stream[t] = none <=> At(t, "idle")
    /\ \A s \in Streams : outLock[s] # none =>
          stream[outLock[s]] = s /\ pc[outLock[s]].at \in StreamHeldAt

(* A thread in a call is on a stream that is open, and alone on it if it   *)
(* closes it; past the start, its stream has left standby.                 *)
InCall ==
    \A t \in Threads :
       /\ ~At(t, "idle") => stream[t] \in open
       /\ pc[t].at \in {"unlock_dev", "writing"} => stream[t] \notin standby
       /\ pc[t].at \in {"standby_out", "standby_dev"} /\ pc[t].kind = "close" =>
             stream[t] \in standby
       /\ (~At(t, "idle") /\ pc[t].kind = "close") =>
             \A u \in Threads : u # t => stream[u] # stream[t]

StandbyIffNoPcm == \A s \in Streams : s \in open => (s \in standby <=> s \notin pcm)

CardIsOfPcm == \A s \in Streams : s \in pcm <=> card = s

IInv ==
    /\ TypeOK
    /\ Ownership
    /\ InCall
    /\ StandbyIffNoPcm
    /\ CardIsOfPcm

-----------------------------------------------------------------------------
LEMMA InitIInv == Init => IInv
  BY AudioAssumption
  DEF Init, IInv, TypeOK, Ownership, InCall, StandbyIffNoPcm, CardIsOfPcm, At,
      Locations, Kinds, Results, DeviceHeldAt, StreamHeldAt

(* Moving one thread moves no other, and does not change what it does. *)
LEMMA GoMoves ==
  ASSUME TypeOK, NEW t \in Threads, NEW w \in Locations, Go(t, w)
  PROVE  /\ pc' \in [Threads -> [at : Locations, kind : Kinds]]
         /\ pc'[t].at = w /\ pc'[t].kind = pc[t].kind
         /\ \A u \in Threads : u # t => pc'[u] = pc[u]
  BY DEF Go, TypeOK

(* In a call, a thread has a stream, and what it holds is its own. *)
LEMMA CallFacts ==
  ASSUME IInv, NEW t \in Threads, ~At(t, "idle")
  PROVE  stream[t] \in Streams /\ stream[t] \in open
  BY DEF IInv, TypeOK, InCall

LEMMA LockDeviceIInv ==
  ASSUME IInv, NEW t \in Threads, LockDevice(t)
  PROVE  IInv'
<1> PICK w \in {"lock_out"} : Go(t, w)
  BY DEF LockDevice
<1>1. stream[t] \in Streams /\ stream[t] \in open /\ stream[t] # none
  BY CallFacts, AudioAssumption DEF LockDevice, At
<1>2. /\ pc' \in [Threads -> [at : Locations, kind : Kinds]]
      /\ pc'[t].at = w /\ pc'[t].kind = pc[t].kind
      /\ \A u \in Threads : u # t => pc'[u] = pc[u]
  BY GoMoves DEF IInv, Locations
<1> USE <1>1, <1>2, AudioAssumption
    DEF LockDevice, IInv, At, UnlockStream, startFails, startSucceeds, closePcm
<1>3. TypeOK'
  BY DEF TypeOK, Results
<1>4. Ownership'
  BY SMTT(30) DEF TypeOK, Ownership, DeviceHeldAt, StreamHeldAt
<1>5. InCall'
  BY DEF TypeOK, Ownership, InCall, DeviceHeldAt, StreamHeldAt
<1>6. StandbyIffNoPcm' /\ CardIsOfPcm'
  BY DEF TypeOK, StandbyIffNoPcm, CardIsOfPcm
<1> QED
  BY <1>3, <1>4, <1>5, <1>6

LEMMA LockStreamIInv ==
  ASSUME IInv, NEW t \in Threads, LockStream(t)
  PROVE  IInv'
<1> PICK w \in {"start", "close_pcm"} : Go(t, w)
  BY DEF LockStream
<1>1. stream[t] \in Streams /\ stream[t] \in open /\ stream[t] # none
  BY CallFacts, AudioAssumption DEF LockStream, At
<1>2. /\ pc' \in [Threads -> [at : Locations, kind : Kinds]]
      /\ pc'[t].at = w /\ pc'[t].kind = pc[t].kind
      /\ \A u \in Threads : u # t => pc'[u] = pc[u]
  BY GoMoves DEF IInv, Locations
<1> USE <1>1, <1>2, AudioAssumption
    DEF LockStream, IInv, At, UnlockStream, startFails, startSucceeds, closePcm
<1>3. TypeOK'
  BY DEF TypeOK, Results
<1>4. Ownership'
  BY DEF TypeOK, Ownership, DeviceHeldAt, StreamHeldAt
<1>5. InCall'
  BY DEF TypeOK, Ownership, InCall, DeviceHeldAt, StreamHeldAt
<1>6. StandbyIffNoPcm' /\ CardIsOfPcm'
  BY DEF TypeOK, StandbyIffNoPcm, CardIsOfPcm
<1> QED
  BY <1>3, <1>4, <1>5, <1>6

LEMMA StartFailsIInv ==
  ASSUME IInv, NEW t \in Threads, StartFails(t)
  PROVE  IInv'
<1> PICK w \in {"unlock_out"} : Go(t, w)
  BY DEF StartFails
<1>1. stream[t] \in Streams /\ stream[t] \in open /\ stream[t] # none
  BY CallFacts, AudioAssumption DEF StartFails, At
<1>2. /\ pc' \in [Threads -> [at : Locations, kind : Kinds]]
      /\ pc'[t].at = w /\ pc'[t].kind = pc[t].kind
      /\ \A u \in Threads : u # t => pc'[u] = pc[u]
  BY GoMoves DEF IInv, Locations
<1> USE <1>1, <1>2, AudioAssumption
    DEF StartFails, IInv, At, UnlockStream, startFails, startSucceeds, closePcm
<1>3. TypeOK'
  BY DEF TypeOK, Results
<1>4. Ownership'
  <2>1. ASSUME NEW u \in Threads
        PROVE  /\ pc'[u].at \in DeviceHeldAt <=> devLock' = u
               /\ pc'[u].at \in StreamHeldAt => outLock'[stream'[u]] = u
               /\ stream'[u] = none <=> pc'[u].at = "idle"
    BY <2>1 DEF TypeOK, Ownership, DeviceHeldAt, StreamHeldAt
  <2>2. ASSUME NEW s \in Streams, outLock'[s] # none
        PROVE  stream'[outLock'[s]] = s /\ pc'[outLock'[s]].at \in StreamHeldAt
    <3>1. outLock'[s] = outLock[s] /\ outLock[s] \in Threads /\ stream' = stream
      BY <2>2 DEF TypeOK
    <3>2. stream[outLock[s]] = s /\ pc[outLock[s]].at \in StreamHeldAt
      BY <2>2, <3>1 DEF Ownership
    <3>3. w \in StreamHeldAt
      BY DEF StreamHeldAt
    <3> QED
      BY <3>1, <3>2, <3>3
  <2> QED
    BY <2>1, <2>2 DEF Ownership
<1>5. InCall'
  BY DEF TypeOK, Ownership, InCall, DeviceHeldAt, StreamHeldAt
<1>6. StandbyIffNoPcm' /\ CardIsOfPcm'
  BY DEF TypeOK, StandbyIffNoPcm, CardIsOfPcm
<1> QED
  BY <1>3, <1>4, <1>5, <1>6

LEMMA StartStreamIInv ==
  ASSUME IInv, NEW t \in Threads, StartStream(t)
  PROVE  IInv'
<1> PICK w \in {"unlock_dev"} : Go(t, w)
  BY DEF StartStream
<1>1. stream[t] \in Streams /\ stream[t] \in open /\ stream[t] # none
  BY CallFacts, AudioAssumption DEF StartStream, At
<1>2. /\ pc' \in [Threads -> [at : Locations, kind : Kinds]]
      /\ pc'[t].at = w /\ pc'[t].kind = pc[t].kind
      /\ \A u \in Threads : u # t => pc'[u] = pc[u]
  BY GoMoves DEF IInv, Locations
<1> USE <1>1, <1>2, AudioAssumption
    DEF StartStream, IInv, At, UnlockStream, startFails, startSucceeds, closePcm
<1>3. TypeOK'
  BY DEF TypeOK, Results
<1>4. Ownership'
  BY DEF TypeOK, Ownership, DeviceHeldAt, StreamHeldAt
<1>5. InCall'
  BY DEF TypeOK, Ownership, InCall, DeviceHeldAt, StreamHeldAt
<1>6. StandbyIffNoPcm' /\ CardIsOfPcm'
  BY DEF TypeOK, StandbyIffNoPcm, CardIsOfPcm
<1> QED
  BY <1>3, <1>4, <1>5, <1>6

LEMMA UnlockDeviceIInv ==
  ASSUME IInv, NEW t \in Threads, UnlockDevice(t)
  PROVE  IInv'
<1> PICK w \in {"writing"} : Go(t, w)
  BY DEF UnlockDevice
<1>1. stream[t] \in Streams /\ stream[t] \in open /\ stream[t] # none
  BY CallFacts, AudioAssumption DEF UnlockDevice, At
<1>2. /\ pc' \in [Threads -> [at : Locations, kind : Kinds]]
      /\ pc'[t].at = w /\ pc'[t].kind = pc[t].kind
      /\ \A u \in Threads : u # t => pc'[u] = pc[u]
  BY GoMoves DEF IInv, Locations
<1> USE <1>1, <1>2, AudioAssumption
    DEF UnlockDevice, IInv, At, UnlockStream, startFails, startSucceeds, closePcm
<1>3. TypeOK'
  BY DEF TypeOK, Results
<1>4. Ownership'
  BY DEF TypeOK, Ownership, DeviceHeldAt, StreamHeldAt
<1>5. InCall'
  BY DEF TypeOK, Ownership, InCall, DeviceHeldAt, StreamHeldAt
<1>6. StandbyIffNoPcm' /\ CardIsOfPcm'
  BY DEF TypeOK, StandbyIffNoPcm, CardIsOfPcm
<1> QED
  BY <1>3, <1>4, <1>5, <1>6

LEMMA WriteReturnsIInv ==
  ASSUME IInv, NEW t \in Threads, WriteReturns(t)
  PROVE  IInv'
<1> PICK w \in {"unlock_out"} : Go(t, w)
  BY DEF WriteReturns
<1>1. stream[t] \in Streams /\ stream[t] \in open /\ stream[t] # none
  BY CallFacts, AudioAssumption DEF WriteReturns, At
<1>2. /\ pc' \in [Threads -> [at : Locations, kind : Kinds]]
      /\ pc'[t].at = w /\ pc'[t].kind = pc[t].kind
      /\ \A u \in Threads : u # t => pc'[u] = pc[u]
  BY GoMoves DEF IInv, Locations
<1> USE <1>1, <1>2, AudioAssumption
    DEF WriteReturns, IInv, At, UnlockStream, startFails, startSucceeds, closePcm
<1>3. TypeOK'
  BY ZenonT(40) DEF TypeOK, Results
<1>4. Ownership'
  <2>1. ASSUME NEW u \in Threads
        PROVE  /\ pc'[u].at \in DeviceHeldAt <=> devLock' = u
               /\ pc'[u].at \in StreamHeldAt => outLock'[stream'[u]] = u
               /\ stream'[u] = none <=> pc'[u].at = "idle"
    BY <2>1 DEF TypeOK, Ownership, DeviceHeldAt, StreamHeldAt
  <2>2. ASSUME NEW s \in Streams, outLock'[s] # none
        PROVE  stream'[outLock'[s]] = s /\ pc'[outLock'[s]].at \in StreamHeldAt
    <3>1. outLock'[s] = outLock[s] /\ outLock[s] \in Threads /\ stream' = stream
      BY <2>2 DEF TypeOK
    <3>2. stream[outLock[s]] = s /\ pc[outLock[s]].at \in StreamHeldAt
      BY <2>2, <3>1 DEF Ownership
    <3>3. w \in StreamHeldAt
      BY DEF StreamHeldAt
    <3> QED
      BY <3>1, <3>2, <3>3
  <2> QED
    BY <2>1, <2>2 DEF Ownership
<1>5. InCall'
  BY SMTT(30) DEF TypeOK, Ownership, InCall, DeviceHeldAt, StreamHeldAt
<1>6. StandbyIffNoPcm' /\ CardIsOfPcm'
  BY DEF TypeOK, StandbyIffNoPcm, CardIsOfPcm
<1> QED
  BY <1>3, <1>4, <1>5, <1>6

LEMMA ClosePcmIInv ==
  ASSUME IInv, NEW t \in Threads, ClosePcm(t)
  PROVE  IInv'
<1> PICK w \in {"standby_out"} : Go(t, w)
  BY DEF ClosePcm
<1>1. stream[t] \in Streams /\ stream[t] \in open /\ stream[t] # none
  BY CallFacts, AudioAssumption DEF ClosePcm, At
<1>2. /\ pc' \in [Threads -> [at : Locations, kind : Kinds]]
      /\ pc'[t].at = w /\ pc'[t].kind = pc[t].kind
      /\ \A u \in Threads : u # t => pc'[u] = pc[u]
  BY GoMoves DEF IInv, Locations
<1> USE <1>1, <1>2, AudioAssumption
    DEF ClosePcm, IInv, At, UnlockStream, startFails, startSucceeds, closePcm
<1>3. TypeOK'
  BY DEF TypeOK, Results
<1>4. Ownership'
  BY DEF TypeOK, Ownership, DeviceHeldAt, StreamHeldAt
<1>5. InCall'
  BY DEF TypeOK, Ownership, InCall, DeviceHeldAt, StreamHeldAt
<1>6. StandbyIffNoPcm' /\ CardIsOfPcm'
  BY DEF TypeOK, StandbyIffNoPcm, CardIsOfPcm
<1> QED
  BY <1>3, <1>4, <1>5, <1>6

LEMMA StandbyUnlocksStreamIInv ==
  ASSUME IInv, NEW t \in Threads, StandbyUnlocksStream(t)
  PROVE  IInv'
<1> PICK w \in {"standby_dev"} : Go(t, w)
  BY DEF StandbyUnlocksStream
<1>1. stream[t] \in Streams /\ stream[t] \in open /\ stream[t] # none
  BY CallFacts, AudioAssumption DEF StandbyUnlocksStream, At
<1>2. /\ pc' \in [Threads -> [at : Locations, kind : Kinds]]
      /\ pc'[t].at = w /\ pc'[t].kind = pc[t].kind
      /\ \A u \in Threads : u # t => pc'[u] = pc[u]
  BY GoMoves DEF IInv, Locations
<1> USE <1>1, <1>2, AudioAssumption
    DEF StandbyUnlocksStream, IInv, At, UnlockStream, startFails, startSucceeds, closePcm
<1>3. TypeOK'
  BY DEF TypeOK, Results
<1>4. Ownership'
  BY DEF TypeOK, Ownership, DeviceHeldAt, StreamHeldAt
<1>5. InCall'
  BY DEF TypeOK, Ownership, InCall, DeviceHeldAt, StreamHeldAt
<1>6. StandbyIffNoPcm' /\ CardIsOfPcm'
  BY DEF TypeOK, StandbyIffNoPcm, CardIsOfPcm
<1> QED
  BY <1>3, <1>4, <1>5, <1>6

LEMMA PauseEndsIInv ==
  ASSUME IInv, NEW t \in Threads, PauseEnds(t)
  PROVE  IInv'
<1>2. /\ pc' \in [Threads -> [at : Locations, kind : Kinds]]
      /\ pc'[t].at = "idle" /\ pc'[t].kind = pc[t].kind
      /\ \A u \in Threads : u # t => pc'[u] = pc[u]
      /\ stream' = [stream EXCEPT ![t] = none]
  BY DEF PauseEnds, Return, IInv, TypeOK, Locations
<1>1. stream[t] \in Streams /\ stream[t] \in open /\ stream[t] # none
  BY CallFacts, AudioAssumption DEF PauseEnds, At
<1> USE <1>1, <1>2
<1> USE AudioAssumption
    DEF PauseEnds, IInv, At
<1>3. TypeOK'
  BY DEF TypeOK, Locations, Kinds, Results
<1>4. Ownership'
  <2>1. ASSUME NEW u \in Threads
        PROVE  /\ pc'[u].at \in DeviceHeldAt <=> devLock' = u
               /\ pc'[u].at \in StreamHeldAt => outLock'[stream'[u]] = u
               /\ stream'[u] = none <=> pc'[u].at = "idle"
    BY <2>1 DEF TypeOK, Ownership, DeviceHeldAt, StreamHeldAt
  <2>2. ASSUME NEW s \in Streams, outLock'[s] # none
        PROVE  stream'[outLock'[s]] = s /\ pc'[outLock'[s]].at \in StreamHeldAt
    BY <2>2 DEF TypeOK, Ownership, DeviceHeldAt, StreamHeldAt
  <2> QED
    BY <2>1, <2>2 DEF Ownership
<1>5. InCall'
  BY DEF TypeOK, Ownership, InCall, DeviceHeldAt, StreamHeldAt
<1>6. StandbyIffNoPcm' /\ CardIsOfPcm'
  BY DEF TypeOK, StandbyIffNoPcm, CardIsOfPcm, InCall
<1> QED
  BY <1>3, <1>4, <1>5, <1>6

LEMMA EndStandbyIInv ==
  ASSUME IInv, NEW t \in Threads, EndStandby(t)
  PROVE  IInv'
<1>2. /\ pc' \in [Threads -> [at : Locations, kind : Kinds]]
      /\ pc'[t].at = "idle" /\ pc'[t].kind = pc[t].kind
      /\ \A u \in Threads : u # t => pc'[u] = pc[u]
      /\ stream' = [stream EXCEPT ![t] = none]
  BY DEF EndStandby, Return, IInv, TypeOK, Locations
<1>1. stream[t] \in Streams /\ stream[t] \in open /\ stream[t] # none
  BY CallFacts, AudioAssumption DEF EndStandby, At
<1> USE <1>1, <1>2
<1> USE AudioAssumption
    DEF EndStandby, IInv, At
<1>7. pc[t].kind = "close" => stream[t] \notin pcm
  BY DEF TypeOK, InCall, StandbyIffNoPcm
<1>3. TypeOK'
  <2>1. open' \subseteq Streams /\ standby' \subseteq open' /\ pcm' \subseteq open'
    BY <1>7 DEF TypeOK
  <2>2. devLock' \in Threads \cup {none} /\ stream' \in [Threads -> Streams \cup {none}]
    BY DEF TypeOK
  <2> QED
    BY <2>1, <2>2 DEF TypeOK
<1>4. Ownership'
  <2>1. ASSUME NEW u \in Threads
        PROVE  /\ pc'[u].at \in DeviceHeldAt <=> devLock' = u
               /\ pc'[u].at \in StreamHeldAt => outLock'[stream'[u]] = u
               /\ stream'[u] = none <=> pc'[u].at = "idle"
    BY <2>1 DEF TypeOK, Ownership, DeviceHeldAt, StreamHeldAt
  <2>2. ASSUME NEW s \in Streams, outLock'[s] # none
        PROVE  stream'[outLock'[s]] = s /\ pc'[outLock'[s]].at \in StreamHeldAt
    BY <2>2 DEF TypeOK, Ownership, DeviceHeldAt, StreamHeldAt
  <2> QED
    BY <2>1, <2>2 DEF Ownership
<1>5. InCall'
  BY DEF TypeOK, Ownership, InCall, DeviceHeldAt, StreamHeldAt
<1>6. StandbyIffNoPcm' /\ CardIsOfPcm'
  BY DEF TypeOK, StandbyIffNoPcm, CardIsOfPcm, InCall
<1> QED
  BY <1>3, <1>4, <1>5, <1>6

LEMMA OpenStreamIInv ==
  ASSUME IInv, NEW t \in Threads, NEW x \in Streams, OpenStream(t, x)
  PROVE  IInv'
<1> USE AudioAssumption
    DEF OpenStream, IInv, At
<1>3. TypeOK'
  BY DEF TypeOK, Locations, Kinds, Results
<1>4. Ownership'
  <2>1. ASSUME NEW u \in Threads
        PROVE  /\ pc'[u].at \in DeviceHeldAt <=> devLock' = u
               /\ pc'[u].at \in StreamHeldAt => outLock'[stream'[u]] = u
               /\ stream'[u] = none <=> pc'[u].at = "idle"
    BY <2>1 DEF TypeOK, Ownership, DeviceHeldAt, StreamHeldAt
  <2>2. ASSUME NEW s \in Streams, outLock'[s] # none
        PROVE  stream'[outLock'[s]] = s /\ pc'[outLock'[s]].at \in StreamHeldAt
    BY <2>2 DEF TypeOK, Ownership, DeviceHeldAt, StreamHeldAt
  <2> QED
    BY <2>1, <2>2 DEF Ownership
<1>5. InCall'
  BY DEF TypeOK, Ownership, InCall, DeviceHeldAt, StreamHeldAt
<1>6. StandbyIffNoPcm' /\ CardIsOfPcm'
  BY DEF TypeOK, StandbyIffNoPcm, CardIsOfPcm, InCall
<1> QED
  BY <1>3, <1>4, <1>5, <1>6

LEMMA CallIInv ==
  ASSUME IInv, NEW t \in Threads, NEW x \in Streams, NEW kind \in Kinds, Call(t, x, kind)
  PROVE  IInv'
<1>1. pc[t].at = "idle" /\ stream[t] = none
  BY DEF Call, At, IInv, Ownership
<1>2. /\ pc' \in [Threads -> [at : Locations, kind : Kinds]]
      /\ pc'[t] = [at |-> "lock_dev", kind |-> kind]
      /\ \A u \in Threads : u # t => pc'[u] = pc[u]
  BY DEF Call, IInv, TypeOK, Locations
<1> USE <1>1, <1>2
<1> USE AudioAssumption
    DEF Call, IInv, At
<1>3. TypeOK'
  BY DEF TypeOK, Locations, Kinds, Results
<1>4. Ownership'
  <2>1. ASSUME NEW u \in Threads
        PROVE  /\ pc'[u].at \in DeviceHeldAt <=> devLock' = u
               /\ pc'[u].at \in StreamHeldAt => outLock'[stream'[u]] = u
               /\ stream'[u] = none <=> pc'[u].at = "idle"
    BY <2>1 DEF TypeOK, Ownership, DeviceHeldAt, StreamHeldAt
  <2>2. ASSUME NEW s \in Streams, outLock'[s] # none
        PROVE  stream'[outLock'[s]] = s /\ pc'[outLock'[s]].at \in StreamHeldAt
    BY <2>2 DEF TypeOK, Ownership, DeviceHeldAt, StreamHeldAt
  <2> QED
    BY <2>1, <2>2 DEF Ownership
<1>5. InCall'
  BY DEF TypeOK, Ownership, InCall, DeviceHeldAt, StreamHeldAt
<1>6. StandbyIffNoPcm' /\ CardIsOfPcm'
  BY DEF TypeOK, StandbyIffNoPcm, CardIsOfPcm, InCall
<1> QED
  BY <1>3, <1>4, <1>5, <1>6

LEMMA EndWriteIInv ==
  ASSUME IInv, NEW t \in Threads, EndWrite(t)
  PROVE  IInv'
<1>1. stream[t] \in Streams /\ stream[t] \in open /\ stream[t] # none
  BY CallFacts, AudioAssumption DEF EndWrite, At
<1>2. /\ pc' \in [Threads -> [at : Locations, kind : Kinds]]
      /\ pc'[t].kind = pc[t].kind
      /\ \/ pc'[t].at = "idle" /\ stream' = [stream EXCEPT ![t] = none]
         \/ pc'[t].at = "pause" /\ stream' = stream
      /\ \A u \in Threads : u # t => pc'[u] = pc[u]
  BY DEF EndWrite, Return, Go, IInv, TypeOK, Locations
<1> USE <1>1, <1>2
<1> USE AudioAssumption
    DEF EndWrite, UnlockStream, IInv, At
<1>3. TypeOK'
  BY DEF TypeOK, Locations, Kinds, Results
<1>4. Ownership'
  <2>1. ASSUME NEW u \in Threads
        PROVE  /\ pc'[u].at \in DeviceHeldAt <=> devLock' = u
               /\ pc'[u].at \in StreamHeldAt => outLock'[stream'[u]] = u
               /\ stream'[u] = none <=> pc'[u].at = "idle"
    BY <2>1 DEF TypeOK, Ownership, DeviceHeldAt, StreamHeldAt
  <2>2. ASSUME NEW s \in Streams, outLock'[s] # none
        PROVE  stream'[outLock'[s]] = s /\ pc'[outLock'[s]].at \in StreamHeldAt
    BY <2>2 DEF TypeOK, Ownership, DeviceHeldAt, StreamHeldAt
  <2> QED
    BY <2>1, <2>2 DEF Ownership
<1>5. InCall'
  BY SMTT(30) DEF TypeOK, Ownership, InCall, DeviceHeldAt, StreamHeldAt
<1>6. StandbyIffNoPcm' /\ CardIsOfPcm'
  BY DEF TypeOK, StandbyIffNoPcm, CardIsOfPcm, InCall
<1> QED
  BY <1>3, <1>4, <1>5, <1>6

-----------------------------------------------------------------------------
LEMMA NextIInv == IInv /\ [Next]_vars => IInv'
<1> SUFFICES ASSUME IInv, [Next]_vars PROVE IInv'
  OBVIOUS
<1>1. ASSUME NEW t \in Threads, Step(t) PROVE IInv'
  BY <1>1, LockDeviceIInv, LockStreamIInv, StartFailsIInv, StartStreamIInv,
     UnlockDeviceIInv, WriteReturnsIInv, EndWriteIInv, PauseEndsIInv,
     ClosePcmIInv, StandbyUnlocksStreamIInv, EndStandbyIInv DEF Step
<1>2. ASSUME NEW t \in Threads, NEW s \in Streams, OpenStream(t, s) PROVE IInv'
  BY <1>2, OpenStreamIInv
<1>3. ASSUME NEW t \in Threads, NEW s \in Streams, NEW kind \in Kinds,
             Call(t, s, kind)
      PROVE  IInv'
  BY <1>3, CallIInv
<1>4. CASE UNCHANGED vars
  BY <1>4 DEF vars, IInv, TypeOK, Ownership, InCall, StandbyIffNoPcm, CardIsOfPcm, At
<1> QED
  BY <1>1, <1>2, <1>3, <1>4 DEF Next

(* The two mutexes, the streams and the PCM device keep the inductive      *)
(* invariant in every reachable state.                                     *)
THEOREM Invariance == Spec => []IInv
  BY InitIInv, NextIInv, PTL DEF Spec

(* The variables keep their types. *)
THEOREM TypeCorrect == Spec => []TypeOK
<1>1. IInv => TypeOK
  BY DEF IInv
<1> QED
  BY <1>1, Invariance, PTL

(* No pcm is closed while a thread writes to it. *)
THEOREM PcmAlwaysOutlivesWrite == Spec => []PcmOutlivesWrite
<1>1. IInv => PcmOutlivesWrite
  BY AudioAssumption
  DEF IInv, TypeOK, InCall, Ownership, StandbyIffNoPcm, CardIsOfPcm,
      PcmOutlivesWrite, At
<1> QED
  BY <1>1, Invariance, PTL

(* The pcm of a stream and the PCM device follow standby. *)
THEOREM PcmIsAlwaysAccountedFor == Spec => []PcmIsAccountedFor
<1>1. IInv => PcmIsAccountedFor
  BY DEF IInv, StandbyIffNoPcm, CardIsOfPcm, PcmIsAccountedFor
<1> QED
  BY <1>1, Invariance, PTL

(* Whoever blocks in pcm_write or paces itself does not hold the device's  *)
(* mutex, and whoever paces itself no stream's.                            *)
THEOREM NobodyIsBlocked == Spec => []BlocksNobody
<1>1. ASSUME IInv, NEW t \in Threads, pc[t].at \in {"writing", "pause"}
      PROVE  devLock # t
  BY <1>1 DEF IInv, Ownership, DeviceHeldAt
<1>2. ASSUME IInv, NEW t \in Threads, pc[t].at = "pause", NEW s \in Streams
      PROVE  outLock[s] # t
  BY <1>2, AudioAssumption DEF IInv, Ownership, StreamHeldAt
<1>3. IInv => BlocksNobody
  BY <1>1, <1>2 DEF BlocksNobody, At
<1> QED
  BY <1>3, Invariance, PTL

-----------------------------------------------------------------------------
(* The input stream.                                                       *)
(* For any clock, rates, formats and errors of usleep: in_read keeps pace. *)
(* The argument is that last_read_time_us, or the time a sleeping read is  *)
(* due, is never before the start plus all that was recorded since, and    *)
(* exactly there as long as no read was late (DrainedOnSchedule); and that *)
(* a read returns near the time it was due (ReturnsNearDue).               *)

ReadingIsDue == reading # Idle => reading.began <= now /\ now <= DueAt + MaxOvershoot

DrainedOnSchedule ==
    /\ reading # Idle =>
        /\ start + recorded <= DueAt
        /\ ~late => start + recorded = DueAt
    /\ Running /\ reading = Idle =>
        /\ start + recorded <= in.last_read_time_us
        /\ ~late => start + recorded = in.last_read_time_us

ReturnsNearDue ==
    Running /\ reading = Idle =>
        /\ in.last_read_time_us - MaxCut <= returned
        /\ returned <= in.last_read_time_us + MaxOvershoot

InputInv ==
    /\ InputTypeOK
    /\ ReadingIsDue
    /\ DrainedOnSchedule
    /\ ReturnsNearDue

Reads == [began : Nat \ {0}, sleep_time : Nat]

-----------------------------------------------------------------------------
LEMMA ProductIsNat == \A m, n \in Nat : m * n \in Nat
  OBVIOUS

LEMMA PositiveProduct == \A m, n \in Nat \ {0} : m * n \in Nat \ {0}
  OBVIOUS

LEMMA QuotientIsNat == \A m \in Nat, n \in Nat \ {0} : m \div n \in Nat
  OBVIOUS

(* A sleeping read is not Idle, and a stream is not NoStream. *)
LEMMA ReadIsNotIdle == \A read \in Reads : read # Idle
<1> TAKE read \in Reads
<1> SUFFICES ASSUME read = Idle PROVE FALSE
  OBVIOUS
<1>1. DOMAIN read = {"began", "sleep_time"}
  BY DEF Reads
<1>2. DOMAIN Idle = {"active"}
  BY DEF Idle
<1> QED
  BY <1>1, <1>2

LEMMA ProductsOfStreams ==
    ASSUME NEW opened \in InputStreams
    PROVE  /\ frame_size(opened) \in Nat \ {0}
           /\ in_get_buffer_size(opened) \in Nat
<1>1. frame_size(opened) \in Nat \ {0}
  BY PositiveProduct DEF frame_size, InputStreams
<1>2. in_get_buffer_size(opened) \in Nat
  BY <1>1, ProductIsNat DEF in_get_buffer_size, InputStreams
<1> QED
  BY <1>1, <1>2

LEMMA SamplesAreNat ==
    ASSUME NEW ms \in Nat, NEW rate \in Nat, NEW count \in Nat
    PROVE  samples_per_milliseconds(ms, rate, count) \in Nat
<1>1. ms * rate \in Nat
  BY ProductIsNat
<1>2. (ms * rate) * count \in Nat
  BY <1>1, ProductIsNat
<1> QED
  BY <1>2, QuotientIsNat DEF samples_per_milliseconds

LEMMA InputBufferSizeIsNat ==
    ASSUME NEW opened \in InputStreams
    PROVE  adev_get_input_buffer_size(opened) \in Nat
<1>1. samples_per_milliseconds(STUB_INPUT_BUFFER_MILLISECONDS, opened.sample_rate,
                               opened.channel_mask) \in Nat
  BY SamplesAreNat DEF InputStreams, STUB_INPUT_BUFFER_MILLISECONDS
<1> QED
  BY <1>1, ProductIsNat DEF adev_get_input_buffer_size, InputStreams

LEMMA DurationIsNat ==
    ASSUME in \in InputStreams, NEW bytes \in Nat
    PROVE  duration(bytes) \in Nat
<1>1. bytes * Second \in Nat
  BY AudioInAssumption, ProductIsNat
<1>2. (bytes * Second) \div frame_size(in) \in Nat
  BY <1>1, ProductsOfStreams, QuotientIsNat
<1> QED
  BY <1>2, QuotientIsNat DEF duration, InputStreams

-----------------------------------------------------------------------------
LEMMA InitInputInv == InputInit => InputInv
<1> SUFFICES ASSUME InputInit PROVE InputInv
  OBVIOUS
<1>1. reading = Idle /\ ~Running
  BY DEF InputInit, Running
<1>2. late \in BOOLEAN
  BY DEF InputInit
<1>3. InputTypeOK
  BY <1>1, <1>2 DEF InputInit, InputTypeOK
<1> QED
  BY <1>1, <1>3 DEF InputInv, ReadingIsDue, DrainedOnSchedule, ReturnsNearDue

(* A new stream is in standby. *)
LEMMA OpenInputInv ==
    ASSUME InputInv, NEW config \in Configs, adev_open_input_stream(config)
    PROVE  InputInv'
<1> USE DEF adev_open_input_stream
<1> DEFINE rate == Default(config.sample_rate, DefaultRate)
<1>0. config \in [sample_rate : Nat, channel_mask : Nat, format : Nat]
  BY AudioInAssumption
<1>1. rate \in Nat \ {0}
  BY <1>0, AudioInAssumption DEF Default
<1>2. samples_per_milliseconds(STUB_INPUT_BUFFER_MILLISECONDS, rate, 1) \in Nat
  BY <1>1, SamplesAreNat DEF STUB_INPUT_BUFFER_MILLISECONDS
<1>3. in' \in InputStreams
  <2>1. /\ Default(config.channel_mask, STUB_INPUT_DEFAULT_CHANNEL_MASK) \in Nat \ {0}
        /\ Default(config.format, STUB_DEFAULT_AUDIO_FORMAT) \in Nat \ {0}
    BY <1>0 DEF Default, STUB_INPUT_DEFAULT_CHANNEL_MASK, STUB_DEFAULT_AUDIO_FORMAT
  <2> QED
    BY <1>1, <1>2, <2>1 DEF InputStreams
<1>4. in'.last_read_time_us = 0
  OBVIOUS
<1>5. reading = Idle
  BY DEF InputInv, InputTypeOK
<1> QED
  BY <1>3, <1>4, <1>5 DEF InputInv, InputTypeOK, ReadingIsDue, DrainedOnSchedule,
                          ReturnsNearDue, Running

LEMMA CloseInputInv ==
    ASSUME InputInv, adev_close_input_stream
    PROVE  InputInv'
  BY DEF adev_close_input_stream, InputInv, InputTypeOK, ReadingIsDue, DrainedOnSchedule,
         ReturnsNearDue, Running

(* The setters leave last_read_time_us alone, standby clears it. *)
LEMMA SettersInputInv ==
    ASSUME InputInv,
           \/ \E rate \in Rates : in_set_sample_rate(rate)
           \/ \E format \in SampleBytes : in_set_format(format)
           \/ in_standby
    PROVE  InputInv'
<1> USE DEF in_set_sample_rate, in_set_format, in_standby
<1>1. in \in InputStreams /\ reading = Idle
  BY DEF InputInv, InputTypeOK
<1>2. /\ in' \in InputStreams
      /\ in'.last_read_time_us \in {0, in.last_read_time_us}
  BY <1>1, AudioInAssumption DEF InputStreams
<1>3. UNCHANGED <<now, reading, start, recorded, returned, late>>
  OBVIOUS
<1>4. Running' => Running /\ in'.last_read_time_us = in.last_read_time_us
  BY <1>2 DEF Running
<1> QED
  BY <1>1, <1>2, <1>3, <1>4 DEF InputInv, InputTypeOK, ReadingIsDue, DrainedOnSchedule,
                                ReturnsNearDue,
                               DueAt

(* A read is due at the end of what is recorded with it: from now on after *)
(* standby, from last_read_time_us on otherwise, unless that is over.      *)
LEMMA BeginReadInputInv ==
    ASSUME InputInv, NEW bytes \in {in_get_buffer_size(in), adev_get_input_buffer_size(in)},
           BeginRead(bytes)
    PROVE  InputInv'
<1> DEFINE D == duration(bytes)
           elapsed == elapsed_time_since_last_read
<1>1. in \in InputStreams /\ in # NoStream /\ reading = Idle
  BY DEF InputInv, InputTypeOK, BeginRead
<1>2. D \in Nat
  BY <1>1, ProductsOfStreams, InputBufferSizeIsNat, DurationIsNat
<1>3. elapsed = IF Running THEN now - in.last_read_time_us ELSE 0
  BY DEF elapsed_time_since_last_read
<1>4. now \in Nat \ {0} /\ in.last_read_time_us \in Nat /\ elapsed \in Int
  BY <1>1, <1>3 DEF InputInv, InputTypeOK, InputStreams
<1>5. /\ reading' = [began |-> now,
                     sleep_time |-> IF D - elapsed > 0 THEN D - elapsed ELSE 0]
      /\ start' = IF Running THEN start ELSE now
      /\ recorded' = D + (IF Running THEN recorded ELSE 0)
      /\ late' = (Running /\ (late \/ D - elapsed < 0))
      /\ UNCHANGED <<now, in, returned>>
  BY DEF BeginRead
<1> HIDE DEF D, elapsed
<1>6. reading' \in Reads
  BY <1>2, <1>4, <1>5 DEF Reads
<1>7. reading' # Idle
  BY <1>6, ReadIsNotIdle
<1>8. InputTypeOK'
  <2>1. late' \in BOOLEAN
    BY <1>5 DEF InputInv, InputTypeOK, Running
  <2>2. start' \in Nat /\ recorded' \in Nat /\ returned' \in Nat
    BY <1>2, <1>4, <1>5 DEF InputInv, InputTypeOK
  <2> QED
    BY <1>1, <1>4, <1>5, <1>6, <2>1, <2>2 DEF InputTypeOK, Reads
<1>9. ReadingIsDue' /\ (DueAt)' = now + (IF D - elapsed > 0 THEN D - elapsed ELSE 0)
  BY <1>2, <1>4, <1>5, AudioInAssumption DEF ReadingIsDue, DueAt
<1>10. DrainedOnSchedule'
  <2>1. CASE Running
    <3>1. /\ start + recorded <= in.last_read_time_us
          /\ ~late => start + recorded = in.last_read_time_us
          /\ start \in Nat /\ recorded \in Nat
      BY <1>1, <2>1 DEF InputInv, InputTypeOK, DrainedOnSchedule
    <3>2. start' = start /\ recorded' = D + recorded /\ late' = (late \/ D - elapsed < 0)
      BY <1>5, <2>1
    <3>3. elapsed = now - in.last_read_time_us
      BY <1>3, <2>1
    <3>4. start' + recorded' <= (DueAt)'
      BY <1>2, <1>4, <1>9, <3>1, <3>2, <3>3
    <3>5. ~late' => start' + recorded' = (DueAt)'
      <4> SUFFICES ASSUME ~late' PROVE start' + recorded' = (DueAt)'
        OBVIOUS
      <4>1. ~late /\ ~(D - elapsed < 0)
        BY <3>2
      <4> QED
        BY <1>2, <1>4, <1>9, <3>1, <3>2, <3>3, <4>1
    <3> QED
      BY <1>7, <3>4, <3>5 DEF DrainedOnSchedule
  <2>2. CASE ~Running
    <3>1. start' = now /\ recorded' = D /\ elapsed = 0
      BY <1>2, <1>3, <1>5, <2>2
    <3>2. start' + recorded' = (DueAt)'
      BY <1>2, <1>4, <1>9, <3>1
    <3> QED
      BY <1>2, <1>4, <1>7, <1>9, <3>1, <3>2 DEF DrainedOnSchedule
  <2> QED
    BY <2>1, <2>2
<1> QED
  BY <1>7, <1>8, <1>9, <1>10 DEF InputInv, ReturnsNearDue

LEMMA EndReadInputInv ==
    ASSUME InputInv, EndRead
    PROVE  InputInv'
<1>1. /\ in \in InputStreams /\ reading \in Reads
      /\ now \in Nat /\ start \in Nat /\ recorded \in Nat
  BY DEF InputInv, InputTypeOK, EndRead, Reads
<1>2. DueAt \in Nat
  BY <1>1 DEF DueAt, Reads
<1>3. /\ in' = [in EXCEPT !.last_read_time_us = DueAt]
      /\ reading' = Idle /\ returned' = now
      /\ UNCHANGED <<now, start, recorded, late>>
      /\ now >= DueAt - MaxCut
  BY DEF EndRead
<1>4. in' \in InputStreams /\ in'.last_read_time_us = DueAt
  BY <1>1, <1>2, <1>3 DEF InputStreams
<1>5. InputTypeOK'
  BY <1>1, <1>3, <1>4 DEF InputInv, InputTypeOK
<1>6. ReturnsNearDue'
  BY <1>1, <1>2, <1>3, <1>4, AudioInAssumption DEF InputInv, ReadingIsDue, ReturnsNearDue, EndRead
<1>7. DrainedOnSchedule' /\ ReadingIsDue'
  BY <1>3, <1>4 DEF InputInv, DrainedOnSchedule, ReadingIsDue, EndRead
<1> QED
  BY <1>5, <1>6, <1>7 DEF InputInv

LEMMA TickInputInv ==
    ASSUME InputInv, Tick
    PROVE  InputInv'
<1>1. /\ now \in Nat \ {0} /\ now' = now + 1
      /\ UNCHANGED <<in, reading, start, recorded, returned, late>>
  BY DEF InputInv, InputTypeOK, Tick
<1>2. InputTypeOK'
  <2>1. reading # Idle => reading.began <= now + 1
    BY <1>1 DEF InputInv, InputTypeOK
  <2> QED
    BY <1>1, <2>1 DEF InputInv, InputTypeOK
<1>3. ReadingIsDue'
  <2> SUFFICES ASSUME reading # Idle
               PROVE  reading.began <= now' /\ now' <= DueAt + MaxOvershoot
    BY <1>1 DEF ReadingIsDue, DueAt
  <2>1. reading \in Reads /\ now < DueAt + MaxOvershoot /\ reading.began <= now
    BY DEF InputInv, InputTypeOK, Tick, Reads
  <2> QED
    BY <1>1, <2>1, AudioInAssumption DEF DueAt, Reads
<1> QED
  BY <1>1, <1>2, <1>3 DEF InputInv, DrainedOnSchedule, ReturnsNearDue, Running, DueAt

LEMMA StutterInputInv == InputInv /\ UNCHANGED inputVars => InputInv'
  BY DEF InputInv, InputTypeOK, ReadingIsDue, DrainedOnSchedule, ReturnsNearDue, Running,
         DueAt, inputVars

-----------------------------------------------------------------------------
(* The inductive invariant of in_read's pacing. *)
THEOREM InputInvariance == InputSpec => []InputInv
<1>1. InputInv /\ [InputNext]_inputVars => InputInv'
  BY OpenInputInv, CloseInputInv, SettersInputInv, BeginReadInputInv, EndReadInputInv,
     TickInputInv, StutterInputInv
     DEF InputNext
<1> QED
  BY InitInputInv, <1>1, PTL DEF InputSpec

(* Every variable of the input stream keeps its type. *)
THEOREM InputTypeCorrect == InputSpec => []InputTypeOK
<1>1. InputInv => InputTypeOK
  BY DEF InputInv
<1> QED
  BY InputInvariance, <1>1, PTL

(* The audio that in_read has returned never runs ahead of the clock nor   *)
(* falls behind it by more than the error of its last sleep, over any      *)
(* number of reads.                                                        *)
THEOREM PaceIsKept == InputSpec => []KeepsPace
<1>1. InputInv => KeepsPace
  <2> SUFFICES ASSUME InputInv, Running, reading = Idle
               PROVE  /\ recorded - MaxCut <= returned - start
                      /\ ~late => returned - start <= recorded + MaxOvershoot
    BY DEF KeepsPace
  <2>1. /\ start \in Nat /\ recorded \in Nat /\ returned \in Nat
        /\ in.last_read_time_us \in Nat
    BY DEF InputInv, InputTypeOK, Running, InputStreams
  <2> QED
    BY <2>1, AudioInAssumption DEF InputInv, DrainedOnSchedule, ReturnsNearDue
<1> QED
  BY InputInvariance, <1>1, PTL
=============================================================================
