--------------------------- MODULE ClaudeTurn_proofs ---------------------------
(***************************************************************************)
(* Proofs about ClaudeTurn: while the child runs, its session is reserved   *)
(* in its name, and what the turn reports is what the child wrote.  They    *)
(* rest on what the pipe holds: its last word on an edit, or on the child's *)
(* own end, is what the child has said, and once it is read empty the       *)
(* companion knows all of it.                                              *)
(***************************************************************************)
EXTENDS ClaudeTurn, SequenceTheorems, TLAPS

\* The events of the stream, as the child writes them.
Event ==
    [type : {"init"}] \cup [type : {"use"}, call : Edits]
    \cup [type : {"told"}, call : Edits, how : {"made", "failed", "denied"}]
    \cup [type : {"result"}, how : {"success", "error"}]

TypeOK ==
    /\ turn \in {"new", "prepare", "spawn", "note", "run", "over", "threw", "dead"}
    /\ resumes \in BOOLEAN /\ session \in {"no", "held", "unguarded"}
    /\ noted \in BOOLEAN /\ agentsDir \in BOOLEAN
    /\ child \in {"none", "runs", "exited"} /\ stubborn \in BOOLEAN
    /\ helpers \subseteq {"group", "outside"} /\ pipe \in Seq(Event)
    /\ call \in [Edits -> {"new", "asked", "made", "failed", "denied",
                           "toldMade", "toldFailed", "toldDenied"}]
    /\ ending \in {"nothing", "init", "success", "error"} /\ noise \in Nat
    /\ exitSeen \in BOOLEAN /\ timer \in [Timers -> {"off", "set", "due"}]
    /\ seen \in [Edits -> {"nothing", "asked", "made", "failed", "denied"}]
    /\ result \in {"none", "success", "error"} /\ threw \in BOOLEAN /\ throws \in Nat
    /\ report \in {"none", "ok", "failed"} /\ lost \subseteq {"note", "events"}

\* A child that was not started has said and left nothing; once its exit is
\* seen it writes nothing more and its group is gone.
Phases ==
    /\ turn \in {"new", "prepare", "spawn", "threw"} => child = "none"
    /\ child = "none" => ending = "nothing"
    /\ ending = "nothing" => /\ pipe = <<>> /\ helpers = {}
                             /\ \A c \in Edits : call[c] = "new"
    /\ exitSeen => child = "exited" /\ "group" \notin helpers
    /\ timer["drain"] # "off" => exitSeen
    /\ turn = "over" => child # "runs" /\ "group" \notin helpers

\* What the child has said of an edit, and what an event says of it.
Said(c) == IF call[c] = "new" THEN "nothing"
           ELSE IF call[c] = "toldMade" THEN "made"
           ELSE IF call[c] = "toldFailed" THEN "failed"
           ELSE IF call[c] = "toldDenied" THEN "denied" ELSE "asked"
Says(event)     == IF event.type = "use" THEN "asked" ELSE event.how
About(event, c) == event.type \in {"use", "told"} /\ event.call = c

\* The last unread event of an edit, or else what was read of it, is what the
\* child has said.
CallsAreTold ==
    \A c \in Edits :
        \/ seen[c] = Said(c) /\ \A i \in 1 .. Len(pipe) : ~About(pipe[i], c)
        \/ \E i \in 1 .. Len(pipe) :
              /\ About(pipe[i], c) /\ Says(pipe[i]) = Said(c)
              /\ \A k \in (i + 1) .. Len(pipe) : ~About(pipe[k], c)

\* So is the result; it is written once, and nobody reads it before.
ResultIsTold ==
    /\ ending \in {"nothing", "init"} =>
          result = "none" /\ \A i \in 1 .. Len(pipe) : pipe[i].type # "result"
    /\ ending \in {"success", "error"} =>
          \/ result = ending /\ \A i \in 1 .. Len(pipe) : pipe[i].type # "result"
          \/ result = "none" /\ \E i \in 1 .. Len(pipe) :
                                   pipe[i].type = "result" /\ pipe[i].how = ending
    /\ \A i, k \in 1 .. Len(pipe) : pipe[i].type = "result" /\ pipe[k].type = "result" => i = k
    /\ \A i \in 1 .. Len(pipe) : pipe[i].type = "result" => pipe[i].how = ending

\* The init event is the first the companion reads.
Unnamed == ending = "nothing" \/ (pipe # <<>> /\ pipe[1].type = "init")
InitComesFirst ==
    /\ \A i \in 1 .. Len(pipe) : pipe[i].type = "init" => i = 1
    /\ Unnamed => result = "none" /\ \A c \in Edits : seen[c] = "nothing"

\* The session of a turn with a child is reserved with the child on it, or it
\* is not known yet, or the reservation failed.
Reserved ==
    /\ turn \in {"prepare", "spawn", "note"} =>
          (session = "held" <=> resumes) /\ session # "unguarded"
    /\ turn = "note" => Unnamed
    /\ turn = "run" \/ (turn = "dead" /\ child = "runs") =>
          /\ session = "held" => noted \/ "note" \in lost
          /\ session = "no" => ~resumes /\ Unnamed

\* What is told of an edit is the last word on it, read or not.
ToldIsFinal ==
    /\ \A c \in Edits : seen[c] \in {"made", "failed", "denied"} => seen[c] = Said(c)
    /\ \A i \in 1 .. Len(pipe) : pipe[i].type = "told" => pipe[i].how = Said(pipe[i].call)

\* A turn that is over has reported what the child said, all of it unless
\* events were left unread.
Reported ==
    turn = "over" =>
        LET good == ending = "success" /\ ~threw /\ ~DeniedEdit IN
        /\ report = "ok" => good
        /\ "events" \notin lost => (good => report = "ok") /\ pipe = <<>>

IInv == /\ TypeOK /\ Phases /\ CallsAreTold /\ ResultIsTold /\ InitComesFirst
        /\ ToldIsFinal /\ Reserved /\ Reported

-----------------------------------------------------------------------------

\* What a write to the pipe, and a read of it, makes of the unread events.
LEMMA PipeAppend ==
    ASSUME pipe \in Seq(Event), NEW e \in Event, pipe' = Append(pipe, e)
    PROVE  /\ pipe' \in Seq(Event) /\ Len(pipe) \in Nat /\ Len(pipe') = Len(pipe) + 1
           /\ pipe' # <<>> /\ pipe'[Len(pipe) + 1] = e
           /\ \A i \in 1 .. Len(pipe) : pipe'[i] = pipe[i]
BY AppendProperties

LEMMA PipeTail ==
    ASSUME pipe \in Seq(Event), pipe # <<>>, pipe' = Tail(pipe)
    PROVE  /\ pipe' \in Seq(Event) /\ Len(pipe) \in Nat \ {0} /\ Len(pipe') = Len(pipe) - 1
           /\ Head(pipe) = pipe[1] /\ pipe[1] \in Event
           /\ \A i \in 1 .. Len(pipe') : pipe'[i] = pipe[i + 1]
BY HeadTailProperties

\* A word on an edit that is final stays so under what the child writes next.
LEMMA ToldStays ==
    ASSUME IInv, NEW e \in Event, pipe' = Append(pipe, e), seen' = seen,
           \A c \in Edits : Said(c)' = Said(c) \/ Said(c) \in {"nothing", "asked"},
           e.type = "told" => e.how = Said(e.call)'
    PROVE  ToldIsFinal'
<1>1. /\ Len(pipe) \in Nat /\ Len(pipe') = Len(pipe) + 1 /\ pipe'[Len(pipe) + 1] = e
      /\ \A i \in 1 .. Len(pipe) : pipe'[i] = pipe[i] /\ pipe[i] \in Event
  BY PipeAppend DEF IInv, TypeOK
<1>2. \A c \in Edits : seen'[c] \in {"made", "failed", "denied"} => seen'[c] = Said(c)'
  BY DEF IInv, ToldIsFinal
<1>3. ASSUME NEW i \in 1 .. Len(pipe'), pipe'[i].type = "told"
      PROVE  (pipe[i].how = Said(pipe[i].call))'
  <2>1. CASE i = Len(pipe) + 1
    BY <1>1, <1>3, <2>1
  <2>2. CASE i # Len(pipe) + 1
    <3>1. i \in 1 .. Len(pipe) /\ pipe'[i] = pipe[i] /\ pipe[i] \in Event
      BY <1>1, <2>2
    <3>2. pipe[i].call \in Edits /\ pipe[i].how \in {"made", "failed", "denied"}
      BY <1>3, <3>1 DEF Event
    <3>3. pipe[i].how = Said(pipe[i].call)
      BY <1>3, <3>1 DEF IInv, ToldIsFinal
    <3> QED
      BY <3>1, <3>2, <3>3
  <2> QED
    BY <2>1, <2>2
<1> QED
  BY <1>2, <1>3 DEF ToldIsFinal

\* The initial states.
LEMMA InitInv == Init => IInv
<1> SUFFICES ASSUME Init PROVE IInv
  OBVIOUS
<1>1. pipe = <<>> /\ pipe \in Seq(Event) /\ Len(pipe) = 0
  BY EmptySeq DEF Init
<1>2. TypeOK
  BY <1>1 DEF Init, TypeOK, Timers, AllOff
<1>3. Phases /\ Reserved /\ Reported
  BY DEF Init, Phases, Reserved, Reported, Timers, AllOff
<1>4. CallsAreTold /\ ResultIsTold /\ InitComesFirst /\ ToldIsFinal
  BY <1>1 DEF Init, CallsAreTold, Said, ResultIsTold, InitComesFirst, ToldIsFinal
<1> QED
  BY <1>2, <1>3, <1>4 DEF IInv

\* The child names its session in the first event it writes.
LEMMA ChildInitStep ==
    ASSUME IInv, ChildInit
    PROVE  IInv'
<1>1. TypeOK'
  <2> DEFINE e == [type |-> "init"]
  <2>1. e \in Event
    BY DEF Event
  <2>2. pipe' = Append(pipe, e)
    BY DEF ChildInit, Emit
  <2>3. pipe' \in Seq(Event)
    BY <2>1, <2>2, PipeAppend DEF IInv, TypeOK
  <2> HIDE DEF e
  <2> QED
    BY <2>3 DEF IInv, TypeOK, ChildInit, childOnly, reserveVars, streamVars
<1>2. Phases'
  BY DEF IInv, Phases, ChildInit, childOnly
<1>3. CallsAreTold'
  <2> DEFINE e == [type |-> "init"]
  <2>1. e \in Event
    BY DEF Event
  <2>2. pipe' = Append(pipe, e) /\ seen' = seen
    BY DEF ChildInit, Emit, childOnly, streamVars
  <2>3. /\ Len(pipe) \in Nat /\ Len(pipe') = Len(pipe) + 1 /\ pipe'[Len(pipe) + 1] = e
        /\ \A i \in 1 .. Len(pipe) : pipe'[i] = pipe[i]
    BY <2>1, <2>2, PipeAppend DEF IInv, TypeOK
  <2>4. \A d \in Edits : ~About(e, d) /\ Said(d)' = Said(d)
    BY DEF ChildInit, Said, About
  <2> HIDE DEF e
  <2> SUFFICES ASSUME NEW d \in Edits
               PROVE  \/ seen'[d] = Said(d)' /\ \A i \in 1 .. Len(pipe') : ~About(pipe'[i], d)
                      \/ \E i \in 1 .. Len(pipe') :
                            /\ About(pipe'[i], d) /\ Says(pipe'[i]) = Said(d)'
                            /\ \A k \in (i + 1) .. Len(pipe') : ~About(pipe'[k], d)
    BY DEF CallsAreTold
  <2>6. CASE seen[d] = Said(d) /\ \A i \in 1 .. Len(pipe) : ~About(pipe[i], d)
    BY <2>2, <2>3, <2>4, <2>6
  <2>7. CASE \E i \in 1 .. Len(pipe) :
                /\ About(pipe[i], d) /\ Says(pipe[i]) = Said(d)
                /\ \A k \in (i + 1) .. Len(pipe) : ~About(pipe[k], d)
    BY <2>3, <2>4, <2>7
  <2> QED
    BY <2>6, <2>7 DEF IInv, CallsAreTold
<1>4. ResultIsTold'
  BY DEF IInv, ResultIsTold, ChildInit, Emit, childOnly, streamVars
<1>5. InitComesFirst'
  BY DEF IInv, InitComesFirst, Unnamed, Phases, ChildInit, Emit, childOnly, streamVars
<1>6. Reserved'
  BY DEF IInv, Reserved, Unnamed, Phases, ChildInit, Emit, childOnly, reserveVars
<1>7. Reported'
  BY DEF IInv, Reported, DeniedEdit, Phases, ChildInit, childOnly
<1>8. ToldIsFinal'
  <2> DEFINE e == [type |-> "init"]
  <2>1. e \in Event /\ pipe' = Append(pipe, e) /\ seen' = seen
    BY DEF ChildInit, Emit, Event, childOnly, streamVars, IInv, TypeOK
  <2>2. \A d \in Edits : Said(d)' = Said(d) \/ Said(d) \in {"nothing", "asked"}
    BY DEF ChildInit, Said, IInv, TypeOK
  <2>3. e.type = "told" => e.how = Said(e.call)'
    BY DEF ChildInit, Said, Told, IInv, TypeOK
  <2> HIDE DEF e
  <2> QED
    BY <2>1, <2>2, <2>3, ToldStays
<1> QED
  BY <1>1, <1>2, <1>3, <1>4, <1>5, <1>6, <1>7, <1>8 DEF IInv

\* It asks for an edit: the edit is asked and told of as asked.
LEMMA ChildAsksStep ==
    ASSUME IInv, NEW c \in Edits, ChildAsks(c)
    PROVE  IInv'
<1>1. TypeOK'
  <2> DEFINE e == [type |-> "use", call |-> c]
  <2>1. e \in Event
    BY DEF Event
  <2>2. pipe' = Append(pipe, e)
    BY DEF ChildAsks, Emit
  <2>3. pipe' \in Seq(Event)
    BY <2>1, <2>2, PipeAppend DEF IInv, TypeOK
  <2> HIDE DEF e
  <2> QED
    BY <2>3 DEF IInv, TypeOK, ChildAsks, childOnly, reserveVars, streamVars
<1>2. Phases'
  BY DEF IInv, Phases, ChildAsks, childOnly
<1>3. CallsAreTold'
  <2> DEFINE e == [type |-> "use", call |-> c]
  <2>1. e \in Event
    BY DEF Event
  <2>2. pipe' = Append(pipe, e) /\ seen' = seen
    BY DEF ChildAsks, Emit, childOnly, streamVars
  <2>3. /\ Len(pipe) \in Nat /\ Len(pipe') = Len(pipe) + 1 /\ pipe'[Len(pipe) + 1] = e
        /\ \A i \in 1 .. Len(pipe) : pipe'[i] = pipe[i]
    BY <2>1, <2>2, PipeAppend DEF IInv, TypeOK
  <2>4. About(e, c) /\ Says(e) = Said(c)'
    BY DEF ChildAsks, Said, About, Says, IInv, TypeOK
  <2>5. \A d \in Edits : d # c => ~About(e, d) /\ Said(d)' = Said(d)
    BY DEF ChildAsks, Said, About, IInv, TypeOK
  <2> HIDE DEF e
  <2> SUFFICES ASSUME NEW d \in Edits
               PROVE  \/ seen'[d] = Said(d)' /\ \A i \in 1 .. Len(pipe') : ~About(pipe'[i], d)
                      \/ \E i \in 1 .. Len(pipe') :
                            /\ About(pipe'[i], d) /\ Says(pipe'[i]) = Said(d)'
                            /\ \A k \in (i + 1) .. Len(pipe') : ~About(pipe'[k], d)
    BY DEF CallsAreTold
  <2>6. CASE d = c
    BY <2>3, <2>4, <2>6
  <2>7. CASE d # c
    <3>1. CASE seen[d] = Said(d) /\ \A i \in 1 .. Len(pipe) : ~About(pipe[i], d)
      BY <2>2, <2>3, <2>5, <2>7, <3>1
    <3>2. CASE \E i \in 1 .. Len(pipe) :
                  /\ About(pipe[i], d) /\ Says(pipe[i]) = Said(d)
                  /\ \A k \in (i + 1) .. Len(pipe) : ~About(pipe[k], d)
      BY <2>3, <2>5, <2>7, <3>2
    <3> QED
      BY <3>1, <3>2 DEF IInv, CallsAreTold
  <2> QED
    BY <2>6, <2>7
<1>4. ResultIsTold'
  BY DEF IInv, ResultIsTold, ChildAsks, Emit, childOnly, streamVars
<1>5. InitComesFirst'
  BY DEF IInv, InitComesFirst, Unnamed, ChildAsks, Emit, childOnly, streamVars
<1>6. Reserved'
  BY DEF IInv, Reserved, Unnamed, ChildAsks, Emit, childOnly, reserveVars
<1>7. Reported'
  BY DEF IInv, Reported, Phases, ChildAsks, childOnly
<1>8. ToldIsFinal'
  <2> DEFINE e == [type |-> "use", call |-> c]
  <2>1. e \in Event /\ pipe' = Append(pipe, e) /\ seen' = seen
    BY DEF ChildAsks, Emit, Event, childOnly, streamVars, IInv, TypeOK
  <2>2. \A d \in Edits : Said(d)' = Said(d) \/ Said(d) \in {"nothing", "asked"}
    BY DEF ChildAsks, Said, IInv, TypeOK
  <2>3. e.type = "told" => e.how = Said(e.call)'
    BY DEF ChildAsks, Said, Told, IInv, TypeOK
  <2> HIDE DEF e
  <2> QED
    BY <2>1, <2>2, <2>3, ToldStays
<1> QED
  BY <1>1, <1>2, <1>3, <1>4, <1>5, <1>6, <1>7, <1>8 DEF IInv

\* It makes an edit that it asked for.
LEMMA ChildActsStep ==
    ASSUME IInv, NEW c \in Edits, ChildActs(c)
    PROVE  IInv'
<1>1. TypeOK'
  BY DEF IInv, TypeOK, ChildActs, childOnly, streamVars, reserveVars
<1>2. Phases'
  BY DEF IInv, Phases, ChildActs, childOnly
<1>3. CallsAreTold'
  BY DEF IInv, CallsAreTold, Said, ChildActs, childOnly, streamVars
<1>4. ResultIsTold'
  BY DEF IInv, ResultIsTold, ChildActs, childOnly, streamVars
<1>5. InitComesFirst'
  BY DEF IInv, InitComesFirst, Unnamed, ChildActs, childOnly, streamVars
<1>6. Reserved'
  BY DEF IInv, Reserved, Unnamed, ChildActs, childOnly, reserveVars
<1>7. Reported'
  BY DEF IInv, Reported, Phases, ChildActs, childOnly
<1>8. ToldIsFinal'
  BY DEF IInv, ToldIsFinal, Said, ChildActs, childOnly, streamVars
<1> QED
  BY <1>1, <1>2, <1>3, <1>4, <1>5, <1>6, <1>7, <1>8 DEF IInv

\* It tells how an edit came out.
LEMMA ChildTellsStep ==
    ASSUME IInv, NEW c \in Edits, ChildTells(c)
    PROVE  IInv'
<1>1. TypeOK'
  <2> DEFINE e == [type |-> "told", call |-> c, how |-> call[c]]
  <2>1. e \in Event
    BY DEF Event, IInv, TypeOK, ChildTells
  <2>2. pipe' = Append(pipe, e)
    BY DEF ChildTells, Emit
  <2>3. pipe' \in Seq(Event)
    BY <2>1, <2>2, PipeAppend DEF IInv, TypeOK
  <2> HIDE DEF e
  <2> QED
    BY <2>3 DEF IInv, TypeOK, ChildTells, Told, childOnly, reserveVars, streamVars
<1>2. Phases'
  BY DEF IInv, Phases, ChildTells, childOnly
<1>3. CallsAreTold'
  <2> DEFINE e == [type |-> "told", call |-> c, how |-> call[c]]
  <2>1. e \in Event
    BY DEF Event, IInv, TypeOK, ChildTells
  <2>2. pipe' = Append(pipe, e) /\ seen' = seen
    BY DEF ChildTells, Emit, childOnly, streamVars
  <2>3. /\ Len(pipe) \in Nat /\ Len(pipe') = Len(pipe) + 1 /\ pipe'[Len(pipe) + 1] = e
        /\ \A i \in 1 .. Len(pipe) : pipe'[i] = pipe[i]
    BY <2>1, <2>2, PipeAppend DEF IInv, TypeOK
  <2>4. About(e, c) /\ Says(e) = Said(c)'
    BY DEF ChildTells, Said, About, Says, Told, IInv, TypeOK
  <2>5. \A d \in Edits : d # c => ~About(e, d) /\ Said(d)' = Said(d)
    BY DEF ChildTells, Said, About, IInv, TypeOK
  <2> HIDE DEF e
  <2> SUFFICES ASSUME NEW d \in Edits
               PROVE  \/ seen'[d] = Said(d)' /\ \A i \in 1 .. Len(pipe') : ~About(pipe'[i], d)
                      \/ \E i \in 1 .. Len(pipe') :
                            /\ About(pipe'[i], d) /\ Says(pipe'[i]) = Said(d)'
                            /\ \A k \in (i + 1) .. Len(pipe') : ~About(pipe'[k], d)
    BY DEF CallsAreTold
  <2>6. CASE d = c
    BY <2>3, <2>4, <2>6
  <2>7. CASE d # c
    <3>1. CASE seen[d] = Said(d) /\ \A i \in 1 .. Len(pipe) : ~About(pipe[i], d)
      BY <2>2, <2>3, <2>5, <2>7, <3>1
    <3>2. CASE \E i \in 1 .. Len(pipe) :
                  /\ About(pipe[i], d) /\ Says(pipe[i]) = Said(d)
                  /\ \A k \in (i + 1) .. Len(pipe) : ~About(pipe[k], d)
      BY <2>3, <2>5, <2>7, <3>2
    <3> QED
      BY <3>1, <3>2 DEF IInv, CallsAreTold
  <2> QED
    BY <2>6, <2>7
<1>4. ResultIsTold'
  BY DEF IInv, ResultIsTold, ChildTells, Emit, childOnly, streamVars
<1>5. InitComesFirst'
  BY DEF IInv, InitComesFirst, Unnamed, ChildTells, Emit, childOnly, streamVars
<1>6. Reserved'
  BY DEF IInv, Reserved, Unnamed, ChildTells, Emit, childOnly, reserveVars
<1>7. Reported'
  BY DEF IInv, Reported, Phases, ChildTells, childOnly
<1>8. ToldIsFinal'
  <2> PICK how \in {"made", "failed", "denied"} : how = call[c]
    BY DEF ChildTells
  <2> DEFINE e == [type |-> "told", call |-> c, how |-> how]
  <2>1. e \in Event /\ pipe' = Append(pipe, e) /\ seen' = seen
    BY DEF ChildTells, Emit, Event, childOnly, streamVars
  <2>2. \A d \in Edits : Said(d)' = Said(d) \/ Said(d) \in {"nothing", "asked"}
    BY DEF ChildTells, Said, IInv, TypeOK
  <2>3. e.type = "told" => e.how = Said(e.call)'
    BY DEF ChildTells, Said, Told, IInv, TypeOK
  <2> HIDE DEF e
  <2> QED
    BY <2>1, <2>2, <2>3, ToldStays
<1> QED
  BY <1>1, <1>2, <1>3, <1>4, <1>5, <1>6, <1>7, <1>8 DEF IInv

\* It writes its result, once.
LEMMA ChildResultStep ==
    ASSUME IInv, ChildResult
    PROVE  IInv'
<1>1. TypeOK'
  <2> PICK how \in {"success", "error"} : ending' = how /\ Emit([type |-> "result", how |-> how])
    BY DEF ChildResult
  <2> DEFINE e == [type |-> "result", how |-> how]
  <2>1. e \in Event
    BY DEF Event
  <2>2. pipe' = Append(pipe, e)
    BY DEF Emit
  <2>3. pipe' \in Seq(Event)
    BY <2>1, <2>2, PipeAppend DEF IInv, TypeOK
  <2> HIDE DEF e
  <2> QED
    BY <2>3 DEF IInv, TypeOK, ChildResult, childOnly, reserveVars, streamVars
<1>2. Phases'
  BY DEF IInv, Phases, ChildResult, childOnly
<1>3. CallsAreTold'
  <2> PICK how \in {"success", "error"} : ending' = how /\ Emit([type |-> "result", how |-> how])
    BY DEF ChildResult
  <2> DEFINE e == [type |-> "result", how |-> how]
  <2>1. e \in Event
    BY DEF Event
  <2>2. pipe' = Append(pipe, e) /\ seen' = seen
    BY DEF ChildResult, Emit, childOnly, streamVars
  <2>3. /\ Len(pipe) \in Nat /\ Len(pipe') = Len(pipe) + 1 /\ pipe'[Len(pipe) + 1] = e
        /\ \A i \in 1 .. Len(pipe) : pipe'[i] = pipe[i]
    BY <2>1, <2>2, PipeAppend DEF IInv, TypeOK
  <2>4. \A d \in Edits : ~About(e, d) /\ Said(d)' = Said(d)
    BY DEF ChildResult, Said, About
  <2> HIDE DEF e
  <2> SUFFICES ASSUME NEW d \in Edits
               PROVE  \/ seen'[d] = Said(d)' /\ \A i \in 1 .. Len(pipe') : ~About(pipe'[i], d)
                      \/ \E i \in 1 .. Len(pipe') :
                            /\ About(pipe'[i], d) /\ Says(pipe'[i]) = Said(d)'
                            /\ \A k \in (i + 1) .. Len(pipe') : ~About(pipe'[k], d)
    BY DEF CallsAreTold
  <2>6. CASE seen[d] = Said(d) /\ \A i \in 1 .. Len(pipe) : ~About(pipe[i], d)
    BY <2>2, <2>3, <2>4, <2>6
  <2>7. CASE \E i \in 1 .. Len(pipe) :
                /\ About(pipe[i], d) /\ Says(pipe[i]) = Said(d)
                /\ \A k \in (i + 1) .. Len(pipe) : ~About(pipe[k], d)
    BY <2>3, <2>4, <2>7
  <2> QED
    BY <2>6, <2>7 DEF IInv, CallsAreTold
<1>4. ResultIsTold'
  BY DEF IInv, ResultIsTold, ChildResult, Emit, childOnly, streamVars
<1>5. InitComesFirst'
  BY DEF IInv, InitComesFirst, Unnamed, ChildResult, Emit, childOnly, streamVars
<1>6. Reserved'
  BY DEF IInv, Reserved, Unnamed, ChildResult, Emit, childOnly, reserveVars
<1>7. Reported'
  BY DEF IInv, Reported, Phases, ChildResult, childOnly
<1>8. ToldIsFinal'
  <2> PICK how \in {"success", "error"} : Emit([type |-> "result", how |-> how])
    BY DEF ChildResult
  <2> DEFINE e == [type |-> "result", how |-> how]
  <2>1. e \in Event /\ pipe' = Append(pipe, e) /\ seen' = seen
    BY DEF ChildResult, Emit, Event, childOnly, streamVars, IInv, TypeOK
  <2>2. \A d \in Edits : Said(d)' = Said(d) \/ Said(d) \in {"nothing", "asked"}
    BY DEF ChildResult, Said, IInv, TypeOK
  <2>3. e.type = "told" => e.how = Said(e.call)'
    BY DEF ChildResult, Said, Told, IInv, TypeOK
  <2> HIDE DEF e
  <2> QED
    BY <2>1, <2>2, <2>3, ToldStays
<1> QED
  BY <1>1, <1>2, <1>3, <1>4, <1>5, <1>6, <1>7, <1>8 DEF IInv

\* It starts a helper, which holds the pipe open.
LEMMA ChildForksStep ==
    ASSUME IInv, ChildForks
    PROVE  IInv'
<1>1. TypeOK'
  BY DEF IInv, TypeOK, ChildForks, childOnly, streamVars, reserveVars
<1>2. Phases'
  BY DEF IInv, Phases, ChildForks, childOnly
<1>3. CallsAreTold'
  BY DEF IInv, CallsAreTold, Said, ChildForks, childOnly, streamVars
<1>4. ResultIsTold'
  BY DEF IInv, ResultIsTold, ChildForks, childOnly, streamVars
<1>5. InitComesFirst'
  BY DEF IInv, InitComesFirst, Unnamed, ChildForks, childOnly, streamVars
<1>6. Reserved'
  BY DEF IInv, Reserved, Unnamed, ChildForks, childOnly, reserveVars
<1>7. Reported'
  BY DEF IInv, Reported, ChildForks, childOnly
<1>8. ToldIsFinal'
  BY DEF IInv, ToldIsFinal, Said, ChildForks, childOnly, streamVars
<1> QED
  BY <1>1, <1>2, <1>3, <1>4, <1>5, <1>6, <1>7, <1>8 DEF IInv

\* It exits.
LEMMA ChildExitsStep ==
    ASSUME IInv, ChildExits
    PROVE  IInv'
<1>1. TypeOK'
  BY DEF IInv, TypeOK, ChildExits, childOnly, streamVars, reserveVars
<1>2. Phases'
  BY DEF IInv, Phases, ChildExits, childOnly
<1>3. CallsAreTold'
  BY DEF IInv, CallsAreTold, Said, ChildExits, childOnly, streamVars
<1>4. ResultIsTold'
  BY DEF IInv, ResultIsTold, ChildExits, childOnly, streamVars
<1>5. InitComesFirst'
  BY DEF IInv, InitComesFirst, Unnamed, ChildExits, childOnly, streamVars
<1>6. Reserved'
  BY DEF IInv, Reserved, Unnamed, ChildExits, childOnly, reserveVars
<1>7. Reported'
  BY DEF IInv, Reported, Phases, ChildExits, childOnly
<1>8. ToldIsFinal'
  BY DEF IInv, ToldIsFinal, Said, ChildExits, childOnly, streamVars
<1> QED
  BY <1>1, <1>2, <1>3, <1>4, <1>5, <1>6, <1>7, <1>8 DEF IInv

\* A helper ends.
LEMMA HelperEndsStep ==
    ASSUME IInv, HelperEnds
    PROVE  IInv'
<1>1. TypeOK'
  BY DEF IInv, TypeOK, HelperEnds, childOnly, streamVars, reserveVars
<1>2. Phases'
  BY DEF IInv, Phases, HelperEnds, childOnly
<1>3. CallsAreTold'
  BY DEF IInv, CallsAreTold, Said, HelperEnds, childOnly, streamVars
<1>4. ResultIsTold'
  BY DEF IInv, ResultIsTold, HelperEnds, childOnly, streamVars
<1>5. InitComesFirst'
  BY DEF IInv, InitComesFirst, Unnamed, HelperEnds, childOnly, streamVars
<1>6. Reserved'
  BY DEF IInv, Reserved, Unnamed, HelperEnds, childOnly, reserveVars
<1>7. Reported'
  BY DEF IInv, Reported, DeniedEdit, HelperEnds, childOnly
<1>8. ToldIsFinal'
  BY DEF IInv, ToldIsFinal, Said, HelperEnds, childOnly, streamVars
<1> QED
  BY <1>1, <1>2, <1>3, <1>4, <1>5, <1>6, <1>7, <1>8 DEF IInv

\* Lines that say nothing: warnings, deltas.
LEMMA NoiseStep ==
    ASSUME IInv, Noise
    PROVE  IInv'
<1>1. TypeOK'
  BY DEF IInv, TypeOK, Timers, AllOff, Noise, Armed, childOnly, goneVars, childVars, streamVars,
         reserveVars
<1>2. Phases'
  BY DEF IInv, Phases, Noise, Armed
<1>3. CallsAreTold'
  BY DEF IInv, CallsAreTold, Said, Noise, streamVars
<1>4. ResultIsTold'
  BY DEF IInv, ResultIsTold, Noise, streamVars
<1>5. InitComesFirst'
  BY DEF IInv, InitComesFirst, Unnamed, Noise, streamVars
<1>6. Reserved'
  BY DEF IInv, Reserved, Unnamed, Noise, reserveVars
<1>7. Reported'
  BY DEF Reported, Noise
<1>8. ToldIsFinal'
  BY DEF IInv, ToldIsFinal, Said, Noise, streamVars
<1> QED
  BY <1>1, <1>2, <1>3, <1>4, <1>5, <1>6, <1>7, <1>8 DEF IInv

\* A timer that is set becomes due.
LEMMA TimePassesStep ==
    ASSUME IInv, NEW t \in Timers, TimePasses(t)
    PROVE  IInv'
<1>1. TypeOK'
  BY DEF IInv, TypeOK, TimePasses, childVars, streamVars, reserveVars
<1>2. Phases'
  BY DEF IInv, Phases, TimePasses, childVars
<1>3. CallsAreTold'
  BY DEF IInv, CallsAreTold, Said, TimePasses, childVars, streamVars
<1>4. ResultIsTold'
  BY DEF IInv, ResultIsTold, TimePasses, childVars, streamVars
<1>5. InitComesFirst'
  BY DEF IInv, InitComesFirst, Unnamed, TimePasses, childVars, streamVars
<1>6. Reserved'
  BY DEF IInv, Reserved, Unnamed, TimePasses, childVars, reserveVars
<1>7. Reported'
  BY DEF IInv, Reported, DeniedEdit, TimePasses, childVars
<1>8. ToldIsFinal'
  BY DEF IInv, ToldIsFinal, Said, TimePasses, childVars, streamVars
<1> QED
  BY <1>1, <1>2, <1>3, <1>4, <1>5, <1>6, <1>7, <1>8 DEF IInv

\* A timer or the caller stops the child.
LEMMA StopChildStep ==
    ASSUME IInv, NEW t \in Timers, StopChild(t)
    PROVE  IInv'
<1>1. TypeOK'
  BY DEF IInv, TypeOK, Timers, AllOff, StopChild, Signalled, childOnly, goneVars, childVars,
         streamVars, reserveVars
<1>2. Phases'
  BY DEF IInv, TypeOK, Phases, Timers, AllOff, StopChild, Signalled, childOnly, goneVars, childVars
<1>3. CallsAreTold'
  BY DEF IInv, CallsAreTold, Said, StopChild, Signalled, streamVars
<1>4. ResultIsTold'
  BY DEF IInv, ResultIsTold, StopChild, Signalled, streamVars
<1>5. InitComesFirst'
  BY DEF IInv, InitComesFirst, Unnamed, StopChild, Signalled, streamVars
<1>6. Reserved'
  BY DEF IInv, Reserved, Unnamed, StopChild, Signalled, reserveVars
<1>7. Reported'
  BY DEF Reported, StopChild
<1>8. ToldIsFinal'
  BY DEF IInv, ToldIsFinal, Said, StopChild, Signalled, streamVars
<1> QED
  BY <1>1, <1>2, <1>3, <1>4, <1>5, <1>6, <1>7, <1>8 DEF IInv

\* The grace is over and the child's group is killed.
LEMMA HardKillStep ==
    ASSUME IInv, HardKill
    PROVE  IInv'
<1>1. TypeOK'
  BY DEF IInv, TypeOK, Timers, AllOff, HardKill, Signalled, childOnly, goneVars, childVars,
         streamVars, reserveVars
<1>2. Phases'
  BY DEF IInv, Phases, HardKill, Signalled
<1>3. CallsAreTold'
  BY DEF IInv, CallsAreTold, Said, HardKill, Signalled, streamVars
<1>4. ResultIsTold'
  BY DEF IInv, ResultIsTold, HardKill, Signalled, streamVars
<1>5. InitComesFirst'
  BY DEF IInv, InitComesFirst, Unnamed, HardKill, Signalled, streamVars
<1>6. Reserved'
  BY DEF IInv, Reserved, Unnamed, HardKill, Signalled, reserveVars
<1>7. Reported'
  BY DEF Reported, HardKill
<1>8. ToldIsFinal'
  BY DEF IInv, ToldIsFinal, Said, HardKill, Signalled, streamVars
<1> QED
  BY <1>1, <1>2, <1>3, <1>4, <1>5, <1>6, <1>7, <1>8 DEF IInv

\* The session to resume is reserved.
LEMMA ReserveStep ==
    ASSUME IInv, Reserve
    PROVE  IInv'
<1>1. TypeOK'
  BY DEF IInv, TypeOK, Reserve, childVars, streamVars
<1>2. Phases'
  BY DEF IInv, Phases, Reserve, childVars
<1>3. CallsAreTold'
  BY DEF IInv, CallsAreTold, Said, Reserve, childVars, streamVars
<1>4. ResultIsTold'
  BY DEF IInv, ResultIsTold, Reserve, childVars, streamVars
<1>5. InitComesFirst'
  BY DEF IInv, InitComesFirst, Unnamed, Reserve, childVars, streamVars
<1>6. Reserved'
  BY DEF Reserved, Reserve
<1>7. Reported'
  BY DEF Reported, Reserve
<1>8. ToldIsFinal'
  BY DEF IInv, ToldIsFinal, Said, Reserve, childVars, streamVars
<1> QED
  BY <1>1, <1>2, <1>3, <1>4, <1>5, <1>6, <1>7, <1>8 DEF IInv

\* The agents file of the role is written.
LEMMA PrepareStep ==
    ASSUME IInv, Prepare
    PROVE  IInv'
<1>1. TypeOK'
  <2>1. /\ turn' \in {"spawn", "threw"} /\ session' \in {session, "no"} /\ agentsDir' \in BOOLEAN
        /\ UNCHANGED <<resumes, noted, childVars, exitSeen, timer, streamVars, threw, throws,
                       report, lost>>
    BY DEF Prepare, IInv, TypeOK
  <2> QED
    BY <2>1 DEF IInv, TypeOK, childVars, streamVars
<1>2. Phases'
  BY DEF IInv, Phases, Prepare, childVars
<1>3. CallsAreTold'
  BY DEF IInv, CallsAreTold, Said, Prepare, childVars, streamVars
<1>4. ResultIsTold'
  BY DEF IInv, ResultIsTold, Prepare, childVars, streamVars
<1>5. InitComesFirst'
  BY DEF IInv, InitComesFirst, Unnamed, Prepare, childVars, streamVars
<1>6. Reserved'
  BY DEF IInv, Reserved, Prepare
<1>7. Reported'
  BY DEF Reported, Prepare
<1>8. ToldIsFinal'
  BY DEF IInv, ToldIsFinal, Said, Prepare, childVars, streamVars
<1> QED
  BY <1>1, <1>2, <1>3, <1>4, <1>5, <1>6, <1>7, <1>8 DEF IInv

\* The child starts.
LEMMA SpawnStep ==
    ASSUME IInv, Spawn
    PROVE  IInv'
<1>1. TypeOK'
  BY DEF IInv, TypeOK, Timers, AllOff, Spawn, childOnly, goneVars, childVars, streamVars,
         reserveVars
<1>2. Phases'
  BY DEF IInv, Phases, Spawn
<1>3. CallsAreTold'
  BY DEF IInv, CallsAreTold, Said, Spawn, streamVars
<1>4. ResultIsTold'
  BY DEF IInv, ResultIsTold, Spawn, streamVars
<1>5. InitComesFirst'
  BY DEF IInv, InitComesFirst, Unnamed, Spawn, streamVars
<1>6. Reserved'
  <2>1. Unnamed'
    BY DEF IInv, Unnamed, Phases, Spawn
  <2> QED
    BY <2>1 DEF IInv, Reserved, Spawn, reserveVars
<1>7. Reported'
  BY DEF Reported, Spawn
<1>8. ToldIsFinal'
  BY DEF IInv, ToldIsFinal, Said, Spawn, streamVars
<1> QED
  BY <1>1, <1>2, <1>3, <1>4, <1>5, <1>6, <1>7, <1>8 DEF IInv

\* The reservation is given its pid, or not.
LEMMA NoteChildStep ==
    ASSUME IInv, NoteChild
    PROVE  IInv'
<1>1. TypeOK'
  <2>1. throws' \in Nat
    <3>1. throws \in Nat /\ throws' \in {throws, throws + 1}
      BY DEF NoteChild, MayThrow, IInv, TypeOK
    <3> QED
      BY <3>1
  <2>2. threw' \in BOOLEAN /\ noted' \in BOOLEAN
    BY DEF NoteChild, MayThrow, IInv, TypeOK
  <2>3. lost' \subseteq {"note", "events"}
    BY DEF NoteChild, IInv, TypeOK
  <2> QED
    BY <2>1, <2>2, <2>3 DEF NoteChild, childVars, streamVars, IInv, TypeOK, Timers
<1>2. Phases'
  BY DEF IInv, Phases, NoteChild, childVars
<1>3. CallsAreTold'
  BY DEF IInv, CallsAreTold, Said, NoteChild, childVars, streamVars
<1>4. ResultIsTold'
  BY DEF IInv, ResultIsTold, NoteChild, childVars, streamVars
<1>5. InitComesFirst'
  BY DEF IInv, InitComesFirst, Unnamed, NoteChild, childVars, streamVars
<1>6. Reserved'
  BY DEF IInv, TypeOK, Reserved, Unnamed, Phases, NoteChild, childVars
<1>7. Reported'
  BY DEF Reported, NoteChild
<1>8. ToldIsFinal'
  BY DEF IInv, ToldIsFinal, Said, NoteChild, childVars, streamVars
<1> QED
  BY <1>1, <1>2, <1>3, <1>4, <1>5, <1>6, <1>7, <1>8 DEF IInv

\* The one step that reads the pipe: init, an edit asked or told, the result;
\* each is said of the child before it is known.
LEMMA ReadEventStep ==
    ASSUME IInv, ReadEvent
    PROVE  IInv'
<1>1. TypeOK'
  <2>1. pipe' \in Seq(Event) /\ Head(pipe) = pipe[1] /\ pipe[1] \in Event
    BY PipeTail DEF IInv, TypeOK, ReadEvent
  <2>2. seen' \in [Edits -> {"nothing", "asked", "made", "failed", "denied"}]
    <3>1. CASE seen' = seen
      BY <3>1 DEF IInv, TypeOK
    <3>2. CASE ReadCall
      <4>1. /\ pipe[1].call \in Edits
            /\ pipe[1].type # "use" => pipe[1].how \in {"made", "failed", "denied"}
        BY <2>1, <3>2 DEF ReadCall, Event
      <4> QED
        BY <2>1, <3>2, <4>1 DEF ReadCall, IInv, TypeOK
    <3> QED
      BY <3>1, <3>2 DEF ReadEvent, ReadInit, ReadResult, streamVars
  <2>3. result' \in {"none", "success", "error"}
    BY DEF ReadEvent, ReadInit, ReadCall, ReadResult, streamVars, Event, IInv, TypeOK
  <2>4. timer' \in [Timers -> {"off", "set", "due"}]
    BY DEF ReadEvent, Armed, IInv, TypeOK, Timers
  <2>5. session' \in {"no", "held", "unguarded"} /\ noted' \in BOOLEAN
    BY DEF ReadEvent, ReadInit, ReadCall, ReadResult, WithChild, IInv, TypeOK
  <2>6. threw' \in BOOLEAN
    BY DEF ReadEvent, MayThrow, IInv, TypeOK
  <2>7. throws' \in Nat
    <3>1. throws \in Nat /\ throws' \in {throws, throws + 1}
      BY DEF ReadEvent, MayThrow, IInv, TypeOK
    <3> QED
      BY <3>1
  <2> QED
    BY <2>1, <2>2, <2>3, <2>4, <2>5, <2>6, <2>7 DEF ReadEvent, IInv, TypeOK
<1>2. Phases'
  BY DEF IInv, TypeOK, Phases, Timers, ReadEvent, Armed
<1>3. CallsAreTold'
  <2>1. /\ Len(pipe) \in Nat \ {0} /\ Len(pipe') = Len(pipe) - 1
        /\ Head(pipe) = pipe[1] /\ pipe[1] \in Event
        /\ \A i \in 1 .. Len(pipe') : pipe'[i] = pipe[i + 1]
    BY PipeTail DEF IInv, TypeOK, ReadEvent
  <2>2. \A c \in Edits : Said(c)' = Said(c)
    BY DEF ReadEvent, Said
  <2>3. \A c \in Edits : seen'[c] = IF About(pipe[1], c) THEN Says(pipe[1]) ELSE seen[c]
    BY DEF ReadEvent, ReadInit, ReadCall, ReadResult, streamVars, About, Says, IInv, TypeOK
  <2> SUFFICES ASSUME NEW c \in Edits
               PROVE  \/ seen'[c] = Said(c)' /\ \A i \in 1 .. Len(pipe') : ~About(pipe'[i], c)
                      \/ \E i \in 1 .. Len(pipe') :
                            /\ About(pipe'[i], c) /\ Says(pipe'[i]) = Said(c)'
                            /\ \A k \in (i + 1) .. Len(pipe') : ~About(pipe'[k], c)
    BY DEF CallsAreTold
  <2>4. CASE seen[c] = Said(c) /\ \A i \in 1 .. Len(pipe) : ~About(pipe[i], c)
    BY <2>1, <2>2, <2>3, <2>4
  <2>5. ASSUME NEW i \in 1 .. Len(pipe), About(pipe[i], c), Says(pipe[i]) = Said(c),
               \A k \in (i + 1) .. Len(pipe) : ~About(pipe[k], c)
        PROVE  \/ seen'[c] = Said(c)' /\ \A k \in 1 .. Len(pipe') : ~About(pipe'[k], c)
               \/ \E k \in 1 .. Len(pipe') :
                     /\ About(pipe'[k], c) /\ Says(pipe'[k]) = Said(c)'
                     /\ \A m \in (k + 1) .. Len(pipe') : ~About(pipe'[m], c)
    <3>1. CASE i = 1
      BY <2>1, <2>2, <2>3, <2>5, <3>1
    <3>2. CASE i # 1
      <4>1. i - 1 \in 1 .. Len(pipe') /\ pipe'[i - 1] = pipe[i]
        BY <2>1, <3>2
      <4>2. \A m \in (i - 1 + 1) .. Len(pipe') : ~About(pipe'[m], c)
        BY <2>1, <2>5
      <4> QED
        BY <2>2, <2>5, <4>1, <4>2
    <3> QED
      BY <3>1, <3>2
  <2> QED
    BY <2>4, <2>5 DEF IInv, CallsAreTold
<1>4. ResultIsTold'
  <2>1. /\ Len(pipe) \in Nat \ {0} /\ Len(pipe') = Len(pipe) - 1
        /\ Head(pipe) = pipe[1] /\ pipe[1] \in Event
        /\ \A i \in 1 .. Len(pipe') : pipe'[i] = pipe[i + 1]
    BY PipeTail DEF IInv, TypeOK, ReadEvent
  <2>2. ending' = ending
    BY DEF ReadEvent
  <2>3. result' = IF pipe[1].type = "result" THEN pipe[1].how ELSE result
    BY <2>1 DEF ReadEvent, ReadInit, ReadCall, ReadResult, streamVars
  <2>4. ResultIsTold
    BY DEF IInv
  <2>5. /\ \A i, k \in 1 .. Len(pipe') : pipe'[i].type = "result" /\ pipe'[k].type = "result" => i = k
        /\ \A i \in 1 .. Len(pipe') : pipe'[i].type = "result" => pipe'[i].how = ending
    <3>1. \A i \in 1 .. Len(pipe') : i + 1 \in 1 .. Len(pipe) /\ pipe'[i] = pipe[i + 1]
      BY <2>1
    <3>2. ASSUME NEW i \in 1 .. Len(pipe'), NEW k \in 1 .. Len(pipe'),
                 pipe'[i].type = "result", pipe'[k].type = "result"
          PROVE  i = k
      <4>1. i + 1 = k + 1
        BY <2>4, <3>1, <3>2 DEF ResultIsTold
      <4> QED
        BY <4>1
    <3>3. \A i \in 1 .. Len(pipe') : pipe'[i].type = "result" => pipe'[i].how = ending
      BY <2>4, <3>1 DEF ResultIsTold
    <3> QED
      BY <3>2, <3>3
  <2>6. ending \in {"nothing", "init"} =>
           result' = "none" /\ \A i \in 1 .. Len(pipe') : pipe'[i].type # "result"
    BY <2>1, <2>3, <2>4 DEF ResultIsTold
  <2>7. ASSUME ending \in {"success", "error"}
        PROVE  \/ result' = ending /\ \A i \in 1 .. Len(pipe') : pipe'[i].type # "result"
               \/ result' = "none" /\ \E i \in 1 .. Len(pipe') :
                                        pipe'[i].type = "result" /\ pipe'[i].how = ending
    <3>1. CASE pipe[1].type = "result"
      <4>1. pipe[1].how = ending
        BY <2>1, <2>4, <3>1 DEF ResultIsTold
      <4>2. \A i \in 1 .. Len(pipe') : pipe'[i].type # "result"
        <5>1. \A i \in 1 .. Len(pipe') : pipe'[i] = pipe[i + 1] /\ i + 1 \in 1 .. Len(pipe) /\ i + 1 # 1
          BY <2>1
        <5>2. 1 \in 1 .. Len(pipe)
          BY <2>1
        <5> QED
          BY <2>4, <3>1, <5>1, <5>2 DEF ResultIsTold
      <4> QED
        BY <2>3, <3>1, <4>1, <4>2
    <3>2. CASE pipe[1].type # "result"
      <4>1. CASE result = ending /\ \A i \in 1 .. Len(pipe) : pipe[i].type # "result"
        BY <2>1, <2>3, <3>2, <4>1
      <4>2. CASE result = "none" /\ \E i \in 1 .. Len(pipe) : pipe[i].type = "result" /\ pipe[i].how = ending
        <5>1. PICK i \in 1 .. Len(pipe) : pipe[i].type = "result" /\ pipe[i].how = ending
          BY <4>2
        <5>2. i - 1 \in 1 .. Len(pipe') /\ pipe'[i - 1] = pipe[i]
          BY <2>1, <3>2, <5>1
        <5> QED
          BY <2>3, <3>2, <4>2, <5>1, <5>2
      <4> QED
        BY <2>4, <2>7, <4>1, <4>2 DEF ResultIsTold
    <3> QED
      BY <3>1, <3>2
  <2> QED
    BY <2>2, <2>5, <2>6, <2>7 DEF ResultIsTold
<1>5. InitComesFirst'
  BY DEF IInv, InitComesFirst, Unnamed, Phases, ReadEvent
<1>6. Reserved'
  BY DEF IInv, Reserved, Unnamed, ReadEvent, ReadInit, ReadCall, ReadResult, WithChild
<1>7. Reported'
  BY DEF Reported, ReadEvent
<1>8. ToldIsFinal'
  <2>1. /\ Len(pipe) \in Nat \ {0} /\ Len(pipe') = Len(pipe) - 1
        /\ Head(pipe) = pipe[1] /\ pipe[1] \in Event
        /\ \A i \in 1 .. Len(pipe') : pipe'[i] = pipe[i + 1] /\ i + 1 \in 1 .. Len(pipe)
    BY PipeTail DEF IInv, TypeOK, ReadEvent
  <2>2. \A c \in Edits : Said(c)' = Said(c)
    BY DEF ReadEvent, Said
  <2>3. \A c \in Edits : seen'[c] = IF About(pipe[1], c) THEN Says(pipe[1]) ELSE seen[c]
    BY DEF ReadEvent, ReadInit, ReadCall, ReadResult, streamVars, About, Says, IInv, TypeOK
  <2>4. ASSUME NEW c \in Edits, seen'[c] \in {"made", "failed", "denied"}
        PROVE  seen'[c] = Said(c)'
    <3>1. CASE About(pipe[1], c)
      <4>1. pipe[1].type = "told" /\ pipe[1].call = c
        BY <2>3, <2>4, <3>1 DEF About, Says
      <4>2. pipe[1].how = Said(c)
        BY <2>1, <4>1 DEF IInv, ToldIsFinal
      <4> QED
        BY <2>2, <2>3, <3>1, <4>1, <4>2 DEF Says
    <3>2. CASE ~About(pipe[1], c)
      BY <2>2, <2>3, <2>4, <3>2 DEF IInv, ToldIsFinal
    <3> QED
      BY <3>1, <3>2
  <2>5. ASSUME NEW i \in 1 .. Len(pipe'), pipe'[i].type = "told"
        PROVE  (pipe[i].how = Said(pipe[i].call))'
    BY <2>1, <2>5 DEF IInv, ToldIsFinal, ReadEvent, Said
  <2> QED
    BY <2>4, <2>5 DEF ToldIsFinal
<1> QED
  BY <1>1, <1>2, <1>3, <1>4, <1>5, <1>6, <1>7, <1>8 DEF IInv

\* The child's exit is seen.
LEMMA SeeExitStep ==
    ASSUME IInv, SeeExit
    PROVE  IInv'
<1>1. TypeOK'
  BY DEF IInv, TypeOK, Timers, AllOff, SeeExit, Armed, childOnly, goneVars, childVars, streamVars,
         reserveVars
<1>2. Phases'
  BY DEF IInv, Phases, SeeExit
<1>3. CallsAreTold'
  BY DEF IInv, CallsAreTold, Said, SeeExit, streamVars
<1>4. ResultIsTold'
  BY DEF IInv, ResultIsTold, SeeExit, streamVars
<1>5. InitComesFirst'
  BY DEF IInv, InitComesFirst, Unnamed, SeeExit, streamVars
<1>6. Reserved'
  BY DEF IInv, Reserved, Unnamed, SeeExit, reserveVars
<1>7. Reported'
  BY DEF Reported, SeeExit
<1>8. ToldIsFinal'
  BY DEF IInv, ToldIsFinal, Said, SeeExit, streamVars
<1> QED
  BY <1>1, <1>2, <1>3, <1>4, <1>5, <1>6, <1>7, <1>8 DEF IInv

\* The child could not be started.
LEMMA StartFailsStep ==
    ASSUME IInv, StartFails
    PROVE  IInv'
<1>1. TypeOK'
  BY DEF IInv, TypeOK, Timers, AllOff, StartFails, Finish, childOnly, goneVars, childVars,
         streamVars, reserveVars
<1>2. Phases'
  BY DEF IInv, Phases, Timers, AllOff, StartFails, Finish, childVars
<1>3. CallsAreTold'
  BY DEF IInv, CallsAreTold, Said, StartFails, Finish, childVars, streamVars
<1>4. ResultIsTold'
  BY DEF IInv, ResultIsTold, StartFails, Finish, childVars, streamVars
<1>5. InitComesFirst'
  BY DEF IInv, InitComesFirst, Unnamed, StartFails, Finish, childVars, streamVars
<1>6. Reserved'
  BY DEF Reserved, StartFails, Finish
<1>7. Reported'
  BY DEF IInv, Reported, Phases, StartFails, Finish, childVars
<1>8. ToldIsFinal'
  BY DEF IInv, ToldIsFinal, Said, StartFails, Finish, childVars, streamVars
<1> QED
  BY <1>1, <1>2, <1>3, <1>4, <1>5, <1>6, <1>7, <1>8 DEF IInv

\* Every pipe is read to its end: the turn is over and reports.
LEMMA CloseStep ==
    ASSUME IInv, Close
    PROVE  IInv'
<1>1. TypeOK'
  BY DEF IInv, TypeOK, Timers, AllOff, Close, Finish, CloseComes, Verdict, childOnly,
         goneVars, childVars, streamVars, reserveVars
<1>2. Phases'
  BY DEF IInv, Phases, Close, Finish, CloseComes, childVars
<1>3. CallsAreTold'
  BY DEF IInv, CallsAreTold, Said, Close, Finish, childVars, streamVars
<1>4. ResultIsTold'
  BY DEF IInv, ResultIsTold, Close, Finish, childVars, streamVars
<1>5. InitComesFirst'
  BY DEF IInv, InitComesFirst, Unnamed, Close, Finish, childVars, streamVars
<1>6. Reserved'
  BY DEF Reserved, Close, Finish
<1>7. Reported'
  BY DEF IInv, TypeOK, Reported, DeniedEdit, ResultIsTold, Close, Finish, CloseComes,
         Verdict, childVars
<1>8. ToldIsFinal'
  BY DEF IInv, ToldIsFinal, Said, Close, Finish, childVars, streamVars
<1> QED
  BY <1>1, <1>2, <1>3, <1>4, <1>5, <1>6, <1>7, <1>8 DEF IInv

\* The wait for the pipes ends: the turn is over and reports what it has read.
LEMMA DrainEndsStep ==
    ASSUME IInv, DrainEnds
    PROVE  IInv'
<1>1. TypeOK'
  BY DEF IInv, TypeOK, Timers, AllOff, DrainEnds, Finish, Verdict, childOnly,
         goneVars, childVars, streamVars, reserveVars
<1>2. Phases'
  BY DEF IInv, Phases, DrainEnds, Finish, childVars
<1>3. CallsAreTold'
  BY DEF IInv, CallsAreTold, Said, DrainEnds, Finish, childVars, streamVars
<1>4. ResultIsTold'
  BY DEF IInv, ResultIsTold, DrainEnds, Finish, childVars, streamVars
<1>5. InitComesFirst'
  BY DEF IInv, InitComesFirst, Unnamed, DrainEnds, Finish, childVars, streamVars
<1>6. Reserved'
  BY DEF Reserved, DrainEnds, Finish
<1>7. Reported'
  BY DEF IInv, TypeOK, Reported, DeniedEdit, ResultIsTold, DrainEnds, Finish,
         Verdict, childVars
<1>8. ToldIsFinal'
  BY DEF IInv, ToldIsFinal, Said, DrainEnds, Finish, childVars, streamVars
<1> QED
  BY <1>1, <1>2, <1>3, <1>4, <1>5, <1>6, <1>7, <1>8 DEF IInv

\* A termination signal ends the companion.
LEMMA TerminationSignalStep ==
    ASSUME IInv, TerminationSignal
    PROVE  IInv'
<1>1. TypeOK'
  BY DEF IInv, TypeOK, Timers, AllOff, TerminationSignal, Gone, Signalled, childOnly, goneVars,
         childVars, streamVars, reserveVars
<1>2. Phases'
  BY DEF IInv, Phases, Timers, AllOff, TerminationSignal, Gone, Signalled, goneVars
<1>3. CallsAreTold'
  BY DEF IInv, CallsAreTold, Said, TerminationSignal, Signalled, goneVars, streamVars
<1>4. ResultIsTold'
  BY DEF IInv, ResultIsTold, TerminationSignal, Signalled, goneVars, streamVars
<1>5. InitComesFirst'
  BY DEF IInv, InitComesFirst, Unnamed, TerminationSignal, Signalled, goneVars, streamVars
<1>6. Reserved'
  BY DEF Reserved, TerminationSignal, Gone, Signalled
<1>7. Reported'
  BY DEF Reported, TerminationSignal, Gone
<1>8. ToldIsFinal'
  BY DEF IInv, ToldIsFinal, Said, TerminationSignal, Signalled, goneVars, streamVars
<1> QED
  BY <1>1, <1>2, <1>3, <1>4, <1>5, <1>6, <1>7, <1>8 DEF IInv

\* An exception nobody caught.
LEMMA UncaughtStep ==
    ASSUME IInv, Uncaught
    PROVE  IInv'
<1>1. TypeOK'
  BY DEF IInv, TypeOK, AllOff, Uncaught, Gone, Signalled, goneVars, streamVars
<1>2. Phases'
  BY DEF IInv, Phases, Timers, AllOff, Uncaught, Gone, Signalled, goneVars
<1>3. CallsAreTold'
  BY DEF IInv, CallsAreTold, Said, Uncaught, Signalled, goneVars, streamVars
<1>4. ResultIsTold'
  BY DEF IInv, ResultIsTold, Uncaught, Signalled, goneVars, streamVars
<1>5. InitComesFirst'
  BY DEF IInv, InitComesFirst, Unnamed, Uncaught, Signalled, goneVars, streamVars
<1>6. Reserved'
  BY DEF Reserved, Uncaught, Gone, Signalled
<1>7. Reported'
  BY DEF Reported, Uncaught, Gone
<1>8. ToldIsFinal'
  BY DEF IInv, ToldIsFinal, Said, Uncaught, Signalled, goneVars, streamVars
<1> QED
  BY <1>1, <1>2, <1>3, <1>4, <1>5, <1>6, <1>7, <1>8 DEF IInv

\* The companion is killed: nothing of it runs any more.
LEMMA KilledStep ==
    ASSUME IInv, Killed
    PROVE  IInv'
<1>1. TypeOK'
  BY DEF IInv, TypeOK, AllOff, Killed, Gone, goneVars, childVars, streamVars
<1>2. Phases'
  BY DEF IInv, Phases, Timers, AllOff, Killed, Gone, goneVars, childVars
<1>3. CallsAreTold'
  BY DEF IInv, CallsAreTold, Said, Killed, goneVars, childVars, streamVars
<1>4. ResultIsTold'
  BY DEF IInv, ResultIsTold, Killed, goneVars, childVars, streamVars
<1>5. InitComesFirst'
  BY DEF IInv, InitComesFirst, Unnamed, Killed, goneVars, childVars, streamVars
<1>6. Reserved'
  BY DEF IInv, Reserved, Unnamed, Phases, Killed, Gone, goneVars, childVars
<1>7. Reported'
  BY DEF Reported, Killed, Gone
<1>8. ToldIsFinal'
  BY DEF IInv, ToldIsFinal, Said, Killed, goneVars, childVars, streamVars
<1> QED
  BY <1>1, <1>2, <1>3, <1>4, <1>5, <1>6, <1>7, <1>8 DEF IInv

\* The invariant is inductive.
LEMMA NextInv == IInv /\ [Next]_vars => IInv'
<1> SUFFICES ASSUME IInv, [Next]_vars PROVE IInv'
  OBVIOUS
<1>1. CASE ChildStep
  BY <1>1, ChildInitStep, ChildAsksStep, ChildActsStep, ChildTellsStep, ChildResultStep,
     ChildForksStep, ChildExitsStep, HelperEndsStep
     DEF ChildStep
<1>2. CASE TurnStep
  BY <1>2, ReserveStep, PrepareStep, SpawnStep, NoteChildStep, ReadEventStep, SeeExitStep,
     StartFailsStep, CloseStep, DrainEndsStep, HardKillStep, TimePassesStep, StopChildStep
     DEF TurnStep
<1>3. CASE Noise \/ TerminationSignal \/ Uncaught \/ Killed
  BY <1>3, NoiseStep, TerminationSignalStep, UncaughtStep, KilledStep
<1>4. CASE UNCHANGED vars
  BY <1>4
     DEF vars, IInv, TypeOK, Phases, CallsAreTold, Said, ResultIsTold, InitComesFirst, Unnamed,
         ToldIsFinal, Reserved, Reported, DeniedEdit
<1> QED
  BY <1>1, <1>2, <1>3, <1>4 DEF Next

\* Every reachable state satisfies the inductive invariant.
THEOREM Inductive == Spec => []IInv
BY InitInv, NextInv, PTL DEF Spec

\* While a Claude child runs, the session it resumed or named is reserved with
\* its pid on it, also after the companion was killed, but for a note that was
\* lost and a fresh session that could not be reserved (claude-runner.ts:391-398,
\* 464-488, 615-650): for any number of edits, of events unread and of noise.
THEOREM SessionHeldWhileChildRunsHolds == Spec => []SessionHeldWhileChildRuns
<1>1. IInv => SessionHeldWhileChildRuns
  <2> SUFFICES ASSUME IInv PROVE SessionHeldWhileChildRuns
    OBVIOUS
  <2>1. Unnamed => NothingRead
    <3>1. ending # "nothing" /\ Unnamed => pipe # <<>>
      BY DEF Unnamed
    <3> QED
      BY <3>1 DEF IInv, InitComesFirst, NothingRead
  <2> QED
    BY <2>1 DEF IInv, TypeOK, Phases, Reserved, SessionHeldWhileChildRuns
<1> QED
  BY <1>1, Inductive, PTL

\* A turn that is over succeeded only when its child wrote a successful result,
\* no edit was denied and every event was recorded, and it names no edit the
\* child did not say was made; when no event was left unread it did succeed
\* then and names them all (claude-runner.ts:583-593, 732-789; claude-cli.ts:
\* 346-421): whatever the timers and the child's helpers did meanwhile.
THEOREM ReportIsTheChildsHolds == Spec => []ReportIsTheChilds
<1>1. IInv => ReportIsTheChilds
  <2> SUFFICES ASSUME IInv, turn = "over" PROVE ReportIsTheChilds
    BY DEF ReportIsTheChilds
  <2>1. \A c \in Edits : TouchedBy(c) => call[c] = "toldMade"
    BY DEF TouchedBy, Said, IInv, TypeOK, ToldIsFinal
  <2>2. ASSUME "events" \notin lost
        PROVE  \A c \in Edits : call[c] = "toldMade" => TouchedBy(c)
    <3>1. Len(pipe) = 0
      BY <2>2, EmptySeq DEF IInv, Reported
    <3>2. \A i \in 1 .. Len(pipe) : FALSE
      BY <3>1
    <3>3. \A c \in Edits : seen[c] = Said(c)
      BY <3>2 DEF IInv, CallsAreTold
    <3> QED
      BY <3>3 DEF TouchedBy, Said, IInv, TypeOK
  <2> QED
    BY <2>1, <2>2 DEF ReportIsTheChilds, IInv, Reported
<1> QED
  BY <1>1, Inductive, PTL
================================================================================
