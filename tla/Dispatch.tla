------------------------------- MODULE Dispatch ------------------------------
(***************************************************************************)
(* How a configuration's calls find their method: CmdTarget::dispatchMsg   *)
(* over the message maps of a class and its base.                          *)
(*                                                                         *)
(* The type of a method is the sequence of its parameters' letters: I, D,  *)
(* S and B; METHOD_V is <<"V">>.  A call is chosen; the property says what *)
(* comes of it, and of the declarations of a class.                        *)
(***************************************************************************)
EXTENDS Codec, Declarations

CONSTANT Fields   \* the parameter texts considered

ASSUME DispatchAssumption ==
  \A f \in Fields : f = Trim(f) /\ ~Contains(f, ",")

VARIABLE
  request   \* a call of a method: the types it has in the class and the base

dispatchVars == <<request, declarationsVars>>

Absent == <<>>

\* METHOD_TYPE.
MethodTypes ==
  {<<"V">>, <<"B">>}
    \union UNION {[1 .. n -> {"I", "D", "S"}] : n \in 1 .. 3}

\* The types with a constructor of MSG_ENTITY.
Constructed == MethodTypes \ {<<"D", "D", "I">>}

\* The types a message list can hold: the others have no SET_ macro, or one
\* that casts to a string by value, for which there is no constructor.
Listed ==
  Constructed \
    ({<<"I", "S", c>> : c \in {"I", "D", "S"}}
      \union {<<"D", "S", c>> : c \in {"I", "D", "S"}}
      \union {<<"S", "D", "I">>, <<"S", "D", "S">>}
      \union {<<"D", "S">>, <<"S", "D">>, <<"I", "I", "S">>,
              <<"D", "D", "S">>, <<"I", "D", "S">>, <<"D", "I", "S">>,
              <<"S", "I", "D">>})

\* The types whose parameters are counted; the others are refused.
Accepted ==
  MethodTypes \ {<<"V">>, <<"I", "S", "I">>, <<"I", "S", "D">>,
                 <<"D", "S", "I">>, <<"D", "S", "D">>, <<"S", "D", "I">>,
                 <<"S", "D", "S">>}

\* The cases of the switch.
Implemented ==
  {<<"B">>, <<"S">>, <<"I">>, <<"S", "I">>, <<"I", "S">>, <<"S", "S">>,
   <<"I", "I">>, <<"S", "S", "S">>, <<"S", "S", "I">>, <<"S", "I", "S">>,
   <<"S", "D", "D">>, <<"S", "I", "I">>, <<"D", "D", "D">>, <<"I", "I", "I">>}

\* atoi, and atof of a text without a point: the number the text begins with.
Digit == [c \in {"1", "2"} |-> IF c = "1" THEN 1 ELSE 2]
Atoi(f) ==
  LET end == Min({Len(f) + 1} \union {i \in DOMAIN f : f[i] \notin DOMAIN Digit})
  IN FoldLeft(LAMBDA n, c : 10 * n + Digit[c], 0, SubSeq(f, 1, end - 1))

Converted(letter, f) ==
  CASE letter = "S" -> f
    [] letter = "B" -> f \in {<<"t", "r", "u", "e">>, <<"1">>}
    [] letter \in {"I", "D"} -> Atoi(f)

\* Mutant: the base's entries first.
MsgMapsMutant(r) == <<r.base, r.own>>

\* m_msgMap and m_baseMap: the types of the method in each.
MsgMaps(r) == <<r.own, r.base>>

\* dispatchMsg: the method called and its arguments, or what else happens.
DispatchMsg(r, params) ==
  LET found == {k \in {1, 2} : MsgMaps(r)[k] # Absent}
      type == MsgMaps(r)[Min(found)]
      param == SplitAll(params, ",")
  IN CASE found = {} -> <<"not found">>
       [] OTHER ->
            IF type \notin Accepted THEN <<"type not supported">>
            ELSE IF Len(param) # Len(type) THEN <<"param num error">>
            ELSE IF type \notin Implemented THEN <<"ignored">>
            ELSE <<"called", type, [i \in DOMAIN type |->
                                      Converted(type[i], param[i])]>>

-----------------------------------------------------------------------------
DispatchInit == request = <<>> /\ DeclarationsInit

MethodCalls == [own : {Absent} \union Listed,
                base : {Absent, <<"I">>, <<"S", "S">>},
                fields : UNION {[1 .. n -> Fields] : n \in 0 .. 3}]

ChooseRequest ==
  /\ request = <<>> /\ declared = <<>>
  /\ request' \in MethodCalls /\ UNCHANGED declarationsVars
DeclareNext == request = <<>> /\ DeclarationsNext /\ UNCHANGED request

DispatchNext == ChooseRequest \/ DeclareNext

-----------------------------------------------------------------------------
Text(fields) ==
  FlattenSeq([i \in DOMAIN fields |->
                IF i = 1 THEN fields[i] ELSE <<",">> \o fields[i]])

\* The nearest class that has the method decides; it is called with the
\* parameters in order, each as its letter says.
CallExact(r) ==
  LET type == IF r.own # Absent THEN r.own ELSE r.base
      result == DispatchMsg(r, Text(r.fields))
  IN IF type \in Implemented /\ Len(r.fields) = Len(type)
          /\ r.fields # << <<>> >>
     THEN result = <<"called", type,
                     [i \in DOMAIN type |-> Converted(type[i], r.fields[i])]>>
     ELSE result[1] # "called"

\* dispatchMsg: a call with as many parameters as the method has reaches the
\* method of the nearest class, with the parameters in order; a single empty
\* text counts as none, and a method of a type the switch leaves out is never
\* called, which most such types do not report.  And a service's values reach
\* the parameters their declarations give the numbers, also when one is
\* declared again (ParamsExact).
DispatchExact ==
  /\ request # <<>> => CallExact(request)
  /\ ParamsExact
=============================================================================
