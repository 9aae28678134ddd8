------------------------------- MODULE MCUtil --------------------------------
(* The small parts of the library, one at a time: the text functions, the  *)
(* receive loops, method calls and service declarations, the timer and the *)
(* two audio helpers.                                                      *)
EXTENDS Stream, Timer, Dispatch, Audio

VARIABLE part   \* the one that runs

MCAlphabet == {"a", ":", ",", ";", "%", "3", "A", " "}
MCCodePoints == {1, 32, 37, 127, 128, 2047, 2048, 55295, 65535, 65536, 65537, 1114111}
MCTexts == << <<"a", "b", "c">>, <<"d", "e", "f">>, <<"g", "h", "i">> >>
MCLengths == [1 .. 3 -> {1, 2, 3}]
MCFields == {<<>>, <<"a">>, <<"1">>, <<"1", "2", "a">>, <<"t", "r", "u", "e">>}
MCPcmLengths == 0 .. 34

vars == <<part, codecVars, streamVars, timerVars, dispatchVars, encoderVars,
          helperVars>>

\* The parts that have more than one initial state, at rest.
Rest ==
  /\ part # "stream" => role = "client" /\ lengths = <<1, 1, 1>>
  /\ part # "encoder" => encoder.length = 0

Init ==
  /\ part \in {"codec", "stream", "timer", "dispatch", "encoder", "helper"}
  /\ CodecInit /\ StreamInit /\ TimerInit /\ DispatchInit /\ EncoderInit
  /\ HelperInit
  /\ Rest

Only(p, A, others) == part = p /\ A /\ UNCHANGED <<part, others>>

Timing(A) ==
  Only("timer", A, <<codecVars, streamVars, dispatchVars, encoderVars,
                     helperVars>>)
Encoding(A) ==
  Only("encoder", A, <<codecVars, streamVars, timerVars, dispatchVars,
                       helperVars>>)
Helping(A) ==
  Only("helper", A, <<codecVars, streamVars, timerVars, dispatchVars,
                      encoderVars>>)

Next ==
  \/ Only("codec", Choose, <<streamVars, timerVars, dispatchVars, encoderVars,
                             helperVars>>)
  \/ Only("stream", StreamNext, <<codecVars, timerVars, dispatchVars,
                                  encoderVars, helperVars>>)
  \/ Only("dispatch", DispatchNext, <<codecVars, streamVars, timerVars,
                                      encoderVars, helperVars>>)
  \/ Timing(TimerNext)
  \/ Encoding(EncoderNext)
  \/ Helping(HelperNext)

Spec == Init /\ [][Next]_vars

\* Threads go on when they can: the timer's and its callers', and the encoders.
FairSpec ==
  /\ Spec
  /\ WF_vars(Timing(Thread))
  /\ \A c \in Callers : WF_vars(Timing(TimerCall(c)))
  /\ WF_vars(Encoding(EncoderNext))
  /\ \A i \in 1 .. MaxThreadCount :
       WF_vars(Helping(helper # "crashed" /\ JobStep(i)))
=============================================================================
