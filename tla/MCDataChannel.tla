---- MODULE MCDataChannel ----
(* DataChannel for TLC: the kinds of channel the runs choose from. *)
EXTENDS DataChannel

Config(kinds, driven, simulated) ==
  [kind : kinds, driven : driven, simulated : simulated]

\* A driver registered its functions, getValue raises the flag for what it
\* reads, and nothing else sets the value.
DrivenPolled == Config(ReadOnlyKinds \cup {"ReadWriteInt"}, {TRUE}, {FALSE})

\* All that can differ: setSimulated means something to ReadOnly classes only.
AllChannels ==
  Config(ReadOnlyKinds, BOOLEAN, BOOLEAN)
    \cup Config(ReadWriteKinds, BOOLEAN, {FALSE})
====
