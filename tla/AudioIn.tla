------------------------------ MODULE AudioIn ------------------------------
(***************************************************************************)
(* The input stream of audio/audio_hw.c.  There is no microphone: in_read  *)
(* returns silence at the pace a capture device would, by sleeping for the *)
(* duration of the buffer less the time that has passed since the previous *)
(* buffer was "drained".                                                   *)
(*                                                                         *)
(* The stream takes no lock; it belongs to one record thread, which calls  *)
(* standby, the setters and read one after the other.  usleep may return   *)
(* late, and early when a signal interrupts it: its result is not checked. *)
(*                                                                         *)
(* A channel mask stands for the number of its channels and a format for   *)
(* the bytes of its samples; 0 is AUDIO_CHANNEL_NONE, AUDIO_FORMAT_DEFAULT.*)
(***************************************************************************)
EXTENDS Integers

CONSTANTS
    Second,         \* clock units in a second; 1000000 in the code
    DefaultRate,    \* STUB_DEFAULT_SAMPLE_RATE
    Configs,        \* configurations a stream is opened with
    Rates,          \* rates it is set to; in_read divides by them
    SampleBytes,    \* formats it is set to
    MaxOvershoot,   \* usleep returns at most this late
    MaxCut,         \* an interrupted usleep returns at most this early
    MaxTime         \* bound: when no read begins any more

ASSUME AudioInAssumption ==
    /\ {Second, DefaultRate, MaxTime} \subseteq Nat \ {0}
    /\ {MaxOvershoot, MaxCut} \subseteq Nat
    /\ Rates \subseteq Nat \ {0}
    /\ SampleBytes \subseteq Nat \ {0}
    /\ Configs \subseteq [sample_rate : Nat, channel_mask : Nat, format : Nat]

VARIABLES
    now,            \* CLOCK_MONOTONIC
    in,             \* the stub_stream_in, or NoStream
    reading,        \* the read that sleeps, or Idle
    start,          \* history: when the first read after standby began
    recorded,       \* history: the duration of all reads since
    returned,       \* history: when the last of them returned
    late            \* history: one of them came after its buffer was full

inputVars == <<now, in, reading, start, recorded, returned, late>>

STUB_INPUT_BUFFER_MILLISECONDS    == 20
STUB_DEFAULT_AUDIO_FORMAT         == 2
STUB_INPUT_DEFAULT_CHANNEL_MASK   == 2

NoStream == [open |-> FALSE]
Idle     == [active |-> FALSE]

InputStreams ==
    [sample_rate : Nat \ {0}, channel_mask : Nat \ {0}, format : Nat \ {0}, frame_count : Nat,
     last_read_time_us : Nat]

InputInit ==
    /\ now = 1
    /\ in = NoStream
    /\ reading = Idle
    /\ start = 0 /\ recorded = 0 /\ returned = 0
    /\ late = FALSE

(* Recording is under way: last_read_time_us of 0 is standby. *)
Running == in # NoStream /\ in.last_read_time_us # 0

InputTypeOK ==
    /\ now \in Nat \ {0}
    /\ in \in InputStreams \cup {NoStream}
    /\ reading \in [began : Nat \ {0}, sleep_time : Nat] \cup {Idle}
    /\ reading # Idle => in # NoStream /\ reading.began <= now
    /\ {start, recorded, returned} \subseteq Nat
    /\ late \in BOOLEAN

-----------------------------------------------------------------------------
samples_per_milliseconds(milliseconds, sample_rate, channel_count) ==
    (milliseconds * sample_rate * channel_count) \div 1000

frame_size(stream) == stream.channel_mask * stream.format

in_get_buffer_size(stream) == stream.frame_count * frame_size(stream)

(* May be half a frame more than the above: it rounds samples, not frames. *)
adev_get_input_buffer_size(config) ==
    samples_per_milliseconds(STUB_INPUT_BUFFER_MILLISECONDS, config.sample_rate,
                             config.channel_mask) * config.format

Default(value, default) == IF value = 0 THEN default ELSE value

(* Every configuration is taken. *)
adev_open_input_stream(config) ==
    /\ in = NoStream
    /\ LET rate == Default(config.sample_rate, DefaultRate) IN
        in' = [sample_rate  |-> rate,
               channel_mask |-> Default(config.channel_mask, STUB_INPUT_DEFAULT_CHANNEL_MASK),
               format       |-> Default(config.format, STUB_DEFAULT_AUDIO_FORMAT),
               frame_count  |-> samples_per_milliseconds(STUB_INPUT_BUFFER_MILLISECONDS, rate, 1),
               last_read_time_us |-> 0]
    /\ UNCHANGED <<now, reading, start, recorded, returned, late>>

(* Frees nothing; the client has no use for the stream any more. *)
adev_close_input_stream ==
    /\ in # NoStream /\ reading = Idle
    /\ in' = NoStream
    /\ UNCHANGED <<now, reading, start, recorded, returned, late>>

(* frame_count stays what it was. *)
in_set_sample_rate(rate) ==
    /\ in # NoStream /\ reading = Idle
    /\ in' = [in EXCEPT !.sample_rate = rate]
    /\ UNCHANGED <<now, reading, start, recorded, returned, late>>

in_set_format(format) ==
    /\ in # NoStream /\ reading = Idle
    /\ in' = [in EXCEPT !.format = format]
    /\ UNCHANGED <<now, reading, start, recorded, returned, late>>

in_standby ==
    /\ in # NoStream /\ reading = Idle
    /\ in' = [in EXCEPT !.last_read_time_us = 0]
    /\ UNCHANGED <<now, reading, start, recorded, returned, late>>

-----------------------------------------------------------------------------
(* in_read. *)

duration(bytes) == ((bytes * Second) \div frame_size(in)) \div in.sample_rate

elapsed_time_since_last_read == IF Running THEN now - in.last_read_time_us ELSE 0

(* The read reads the clock and goes to sleep. *)
BeginRead(bytes) ==
    /\ in # NoStream /\ reading = Idle
    /\ now < MaxTime
    /\ LET sleep_time == duration(bytes) - elapsed_time_since_last_read IN
        /\ reading' = [began |-> now, sleep_time |-> IF sleep_time > 0 THEN sleep_time ELSE 0]
        /\ start' = IF Running THEN start ELSE now
        /\ recorded' = duration(bytes) + (IF Running THEN recorded ELSE 0)
        /\ late' = (Running /\ (late \/ sleep_time < 0))
    /\ UNCHANGED <<now, in, returned>>

DueAt == reading.began + reading.sleep_time

(* Mutant: the buffer was drained when the read returns. *)
mutantDrainedAtReturn ==
    /\ reading # Idle
    /\ now >= DueAt - MaxCut
    /\ in' = [in EXCEPT !.last_read_time_us = now]
    /\ reading' = Idle
    /\ returned' = now
    /\ UNCHANGED <<now, start, recorded, late>>

(* It wakes up; the buffer was drained when it should have woken up. *)
EndRead ==
    /\ reading # Idle
    /\ now >= DueAt - MaxCut
    /\ in' = [in EXCEPT !.last_read_time_us = DueAt]
    /\ reading' = Idle
    /\ returned' = now
    /\ UNCHANGED <<now, start, recorded, late>>

Tick ==
    /\ IF reading = Idle THEN now < MaxTime ELSE now < DueAt + MaxOvershoot
    /\ now' = now + 1
    /\ UNCHANGED <<in, reading, start, recorded, returned, late>>

(* The record thread reads as much as the stream or the device advises. *)
InputNext ==
    \/ \E config \in Configs : adev_open_input_stream(config)
    \/ adev_close_input_stream
    \/ \E rate \in Rates : in_set_sample_rate(rate)
    \/ \E format \in SampleBytes : in_set_format(format)
    \/ in_standby
    \/ in # NoStream /\ \E bytes \in {in_get_buffer_size(in), adev_get_input_buffer_size(in)} :
            BeginRead(bytes)
    \/ EndRead
    \/ Tick

InputSpec == InputInit /\ [][InputNext]_inputVars

-----------------------------------------------------------------------------
(* However often usleep returned late or was interrupted, and whatever the *)
(* rate and the format were changed to meanwhile, the errors do not add    *)
(* up.  All that was read since standby lasts no longer than the time it   *)
(* took, but for what the last sleep alone was cut short ("last_read_time  *)
(* is an approximation of when the (simulated) alsa buffer is drained by   *)
(* the read"); and as long as every read came in time, it lasts as long,   *)
(* but for the last overshoot ("thereby accounting for fill in the alsa    *)
(* buffer during the interim").                                            *)
KeepsPace ==
    Running /\ reading = Idle =>
        /\ recorded - MaxCut <= returned - start
        /\ ~late => returned - start <= recorded + MaxOvershoot
=============================================================================
