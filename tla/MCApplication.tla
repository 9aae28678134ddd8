--------------------------- MODULE MCApplication ---------------------------
(* Configurations for TLC.                                                 *)
EXTENDS Application

Element(kinds, makes, args) ==
  [kind : kinds, name : Names, makes : makes, arg : args]

Channels == Element({"channel", "type", "number"}, {"nothing"}, {1})
Controls == Element({"object", "driver"}, {"nothing"}, {1})
              \cup Element({"object"}, {"alias", "data", "object"}, Names)
              \cup Element({"class", "abstract", "method"}, {"nothing"}, {1})

\* Two elements, or a channel and two control objects, in the order in which
\* the two files are loaded.
SmallDocuments ==
  {<<a, b>> : a \in {c \in Channels : c.name = 2}, b \in Channels \cup Controls}
    \cup {<<a, b, c>> : a \in {d \in Channels : d.kind = "channel" /\ d.name = 1},
                        b \in {d \in Controls : d.name = 2},
                        c \in Controls}
=============================================================================
