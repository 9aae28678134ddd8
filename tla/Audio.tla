-------------------------------- MODULE Audio --------------------------------
(***************************************************************************)
(* The wrappers around the LAME encoder: LameHelper::Encode, which takes a *)
(* text of samples (lame_helper.cc), and lameHelper, which takes files and *)
(* works on them in up to MAX_THREAD_COUNT threads (lamehelper.cc, which   *)
(* is for Windows and not in the build file).                              *)
(*                                                                         *)
(* LAME is external: a call of it can fail where the code looks at its     *)
(* result.  Settings and tags are left out.                                *)
(***************************************************************************)
EXTENDS Integers, Sequences, FiniteSets, FiniteSetsExt

CONSTANTS
  PcmSize,          \* PCM_SIZE, the samples of a buffer
  SizeBits, IntBits,\* widths of size_t and int; on the platforms 64 and 32
  PcmLengths,       \* the lengths of pcm_data considered, in bytes
  MaxThreadCount,   \* MAX_THREAD_COUNT
  FileSizes,        \* the files considered: their length in buffers
  MaxTurns,         \* bound: frames LAME decodes from a buffer, plus one
  MaxJobs           \* bound: the asynchronous calls

ASSUME AudioAssumption ==
  /\ PcmSize \in Nat \ {0} /\ MaxThreadCount \in Nat \ {0}
  /\ MaxTurns \in Nat /\ MaxJobs \in Nat
  /\ SizeBits \in Nat /\ IntBits \in 1 .. SizeBits - 2
  /\ PcmLengths \subseteq 0 .. 2 ^ (IntBits - 1) - 1 /\ FileSizes \subseteq Nat

\* A buffer is far shorter than an int can tell; and the powers of two, which
\* the proofs take as numbers with these relations.
ASSUME WidthAssumption ==
  /\ 4 * PcmSize < 2 ^ (IntBits - 1)
  /\ 2 ^ (IntBits - 1) \in Nat \ {0} /\ 2 ^ IntBits = 2 * 2 ^ (IntBits - 1)
  /\ 2 ^ (SizeBits - IntBits - 2) \in Nat \ {0}
  /\ 2 ^ SizeBits = 4 * (2 ^ IntBits * 2 ^ (SizeBits - IntBits - 2))

VARIABLES
  encoder,   \* Encode: length of the data, cumulative_read, the buffers encoded
  slots,     \* hThread and hSParam, and what the thread does
  helper,    \* the lameHelper: "alive", "deleted", or the process "crashed"
  jobs, finished   \* threads started, and ended

encoderVars == <<encoder>>
helperVars == <<slots, helper, jobs, finished>>

Frame == 4   \* 2 * sizeof(short int)
Buffer == Frame * PcmSize

Unsigned(n) == n % 2 ^ SizeBits
ToInt(n) == LET m == n % 2 ^ IntBits IN
            IF m < 2 ^ (IntBits - 1) THEN m ELSE m - 2 ^ IntBits

NoJob == [thread |-> "NULL", param |-> "NULL", kind |-> "none", at |-> "none"]

EncoderInit ==
  encoder \in [at : {"init"}, length : PcmLengths, cumulative : {0},
               encoded : {{}}, again : {FALSE}]

HelperInit ==
  /\ slots = [i \in 1 .. MaxThreadCount |-> NoJob]
  /\ helper = "alive" /\ jobs = 0 /\ finished = 0

-----------------------------------------------------------------------------
(* LameHelper::Encode.                                                     *)

\* lame_init_params.
InitParams ==
  /\ encoder.at = "init"
  /\ \E result \in {"loop", "failed"} :
       encoder' = [encoder EXCEPT !.at = result]

\* read: the last buffer is measured from its end, not its beginning.
ReadSamples(length, cumulative) ==
  IF Unsigned(cumulative + Buffer) >= length
  THEN ToInt(Unsigned(length - (cumulative + Buffer)) \div Frame)
  ELSE PcmSize

\* Mutant: the loop does not end where nothing is left.
AtEndMutant(read) == FALSE

AtEnd(read) == read = 0

\* One turn of the loop.  LAME refuses a negative number of samples as long
\* as it has no buffer, or when its output does not fit; its negative result
\* is then the length of a string, which throws.
EncodeBuffer ==
  LET cum == encoder.cumulative
      read == ReadSamples(encoder.length, cum)
      overlaps == \E c \in encoder.encoded : cum < c + Buffer
  IN
  /\ encoder.at = "loop"
  /\ \/ AtEnd(read) /\ encoder' = [encoder EXCEPT !.at = "ended"]
     \/ /\ read > 0
        /\ encoder' = [encoder EXCEPT !.cumulative = cum + Frame * read,
                                      !.encoded = @ \union {cum},
                                      !.again = @ \/ overlaps]
     \/ /\ read < 0 /\ encoder.encoded # {}
        /\ encoder' = [encoder EXCEPT !.cumulative = cum + Frame * read]
     \/ /\ read > 0 \/ (read < 0 /\ encoder.encoded = {})
        /\ encoder' = [encoder EXCEPT !.at = "thrown"]

-----------------------------------------------------------------------------
(* lameHelper: the asynchronous encode and decode.                         *)

\* WaitForSingleObject: never used, or ended.
FreeSlots == {i \in DOMAIN slots : slots[i].thread \in {"NULL", "ended"}}

\* The first free slot; without one the call returns -3.  CreateThread may
\* fail.
StartJob(kind, size) ==
  LET i == Min(FreeSlots)
      job(thread) == [thread |-> thread, param |-> "set", kind |-> kind,
                      at |-> "new", size |-> size, left |-> size, log |-> <<>>]
  IN
  /\ helper = "alive" /\ FreeSlots # {} /\ jobs < MaxJobs
  /\ \/ slots' = [slots EXCEPT ![i] = job("running")] /\ jobs' = jobs + 1
     \/ slots' = [slots EXCEPT ![i] = job("NULL")] /\ UNCHANGED jobs
  /\ UNCHANGED <<helper, finished>>

EncodeAsync(size) == StartJob("encode", size)
DecodeAsync(size) == StartJob("decode", size)

Report(i, at, what) ==
  /\ slots' = [slots EXCEPT ![i].at = at, ![i].log = Append(@, what),
                            ![i].thread = IF at = "return" THEN "ended" ELSE @]
  /\ finished' = IF at = "return" THEN finished + 1 ELSE finished
  /\ UNCHANGED <<helper, jobs>>

Crash == helper' = "crashed" /\ UNCHANGED <<slots, jobs, finished>>

\* encode_s, decode_s: the parameters are read, deleted or not.
ReadParam(i) ==
  /\ slots[i].thread = "running" /\ slots[i].at = "new"
  /\ \/ /\ slots' = [slots EXCEPT ![i].at = "open"]
        /\ UNCHANGED <<helper, jobs, finished>>
     \/ slots[i].param = "deleted" /\ Crash

\* encode_x: the encoder or a file cannot be had, and what was opened stays
\* so; errMsg is a member of the helper.
EncodeOpen(i) ==
  /\ slots[i].thread = "running" /\ slots[i].at = "open"
  /\ slots[i].kind = "encode"
  /\ \/ Report(i, "return", "LH_ERROR")
     \/ helper = "deleted" /\ Crash
     \/ Report(i, "loop", "LH_STARTED")

\* The loop of encode_x; the last turn, which reads nothing, flushes.
EncodeFile(i) ==
  /\ slots[i].thread = "running" /\ slots[i].at \in {"loop", "flushed"}
  /\ slots[i].kind = "encode"
  /\ IF slots[i].at = "flushed" THEN Report(i, "return", "LH_DONE")
     ELSE /\ slots[i].left = 0
          /\ Report(i, "flushed", "LH_COMPUTED")

\* A buffer of the file, for which LH_COMPUTED is reported n times.
Computed(i, n) ==
  /\ slots[i].thread = "running" /\ slots[i].at = "loop" /\ slots[i].left > 0
  /\ slots' = [slots EXCEPT ![i].left = @ - 1,
                            ![i].log = @ \o [k \in 1 .. n |-> "LH_COMPUTED"]]
  /\ UNCHANGED <<helper, jobs, finished>>

\* A buffer of samples.
EncodeSamples(i) == slots[i].kind = "encode" /\ Computed(i, 1)

\* A buffer of frames: as long as LAME has samples of it, and once more; none
\* when it has samples but no header.
DecodeFrames(i) ==
  slots[i].kind = "decode" /\ \E n \in 0 .. MaxTurns : Computed(i, n)

\* decode: the same order of reports.
DecodeOpen(i) ==
  /\ slots[i].thread = "running" /\ slots[i].at = "open"
  /\ slots[i].kind = "decode"
  /\ \/ Report(i, "return", "LH_ERROR")
     \/ helper = "deleted" /\ Crash
     \/ Report(i, "loop", "LH_STARTED")

\* The length of the wave file is divided by a number of bytes that is 0 as
\* long as LAME has not seen a header.  Samples without one are those of a
\* buffer that was not reported.
DecodeEnd(i) ==
  /\ slots[i].thread = "running" /\ slots[i].at = "loop"
  /\ slots[i].kind = "decode" /\ slots[i].left = 0
  /\ \/ Report(i, "return", "LH_DONE")
     \/ Len(slots[i].log) - 1 < slots[i].size /\ Crash

\* ~lameHelper: the parameters go, the threads stay.
DeleteHelper ==
  /\ helper = "alive" /\ helper' = "deleted"
  /\ slots' = [i \in DOMAIN slots |->
                 IF slots[i].param = "set"
                 THEN [slots[i] EXCEPT !.param = "deleted"] ELSE slots[i]]
  /\ UNCHANGED <<jobs, finished>>

JobStep(i) == \/ ReadParam(i) \/ EncodeOpen(i) \/ EncodeFile(i)
              \/ EncodeSamples(i) \/ DecodeOpen(i) \/ DecodeFrames(i)
              \/ DecodeEnd(i)

EncoderNext == InitParams \/ EncodeBuffer

HelperNext ==
  /\ helper # "crashed"
  /\ \/ \E n \in FileSizes : EncodeAsync(n)
     \/ \E n \in FileSizes : DecodeAsync(n)
     \/ \E i \in DOMAIN slots : ReadParam(i)
     \/ \E i \in DOMAIN slots : EncodeOpen(i)
     \/ \E i \in DOMAIN slots : EncodeFile(i)
     \/ \E i \in DOMAIN slots : EncodeSamples(i)
     \/ \E i \in DOMAIN slots : DecodeFrames(i)
     \/ \E i \in DOMAIN slots : DecodeOpen(i)
     \/ \E i \in DOMAIN slots : DecodeEnd(i)
     \/ DeleteHelper

EncoderSpec == EncoderInit /\ [][EncoderNext]_encoderVars
HelperSpec == HelperInit /\ [][HelperNext]_helperVars

-----------------------------------------------------------------------------
\* The buffers before the last one, which is lost whether it is full or not.
AllButLast(length) ==
  {k \in 0 .. length - 1 : k % Buffer = 0 /\ k + Buffer < length}

\* What the threads report: an error, or the progress between start and end,
\* which for encode is that of every buffer and of the end of the file.
Reported(job) ==
  LET computed == IF job.kind = "encode" THEN {job.size + 1}
                  ELSE 0 .. job.size * MaxTurns
  IN job.log \in
       {<<"LH_ERROR">>}
         \union {<<"LH_STARTED">> \o [k \in 1 .. n |-> "LH_COMPUTED"]
                   \o <<"LH_DONE">> : n \in computed}

\* Data of more than a buffer that does not end with a whole frame.
GoesBack(length) == length % Frame # 0 /\ length > Buffer

\* Encode: no buffer is encoded twice, unless the data goes back; when the loop
\* ends it has encoded each buffer but the last.
EncodedOnce ==
  /\ encoder.again => GoesBack(encoder.length)
  /\ encoder.at = "ended" =>
       ~encoder.again /\ encoder.encoded = AllButLast(encoder.length)

\* encode, decode: a thread that has ended has reported what it did,
ReportsRight ==
  \A i \in DOMAIN slots : slots[i].thread = "ended" => Reported(slots[i])

\* and one that was started keeps its slot until it ends.
JobsKept ==
  jobs - finished = Cardinality({i \in DOMAIN slots : slots[i].thread = "running"})

\* Encode: the loop ends, having encoded once each buffer but the last, unless
\* the data is longer than a buffer and does not end with a whole frame: then
\* it goes back to what it has encoded, for good.  encode, decode: a thread
\* that was started ends, keeps its slot until then, and has reported what it
\* did.
EncodeEnds ==
  /\ []EncodedOnce /\ []ReportsRight /\ []JobsKept
  /\ encoder.at = "loop" ~>
       encoder.at # "loop" \/ GoesBack(encoder.length)
  /\ \A i \in 1 .. MaxThreadCount :
       slots[i].thread = "running" ~>
         slots[i].thread # "running" \/ helper = "crashed"
=============================================================================
