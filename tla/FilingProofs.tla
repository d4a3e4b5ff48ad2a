------------------------------ MODULE FilingProofs ------------------------------
(***************************************************************************)
(* A submission is filed once, whichever deliveries of it cross, and a     *)
(* ticket becomes a duplicate by one ruling, whichever officers rule on    *)
(* it: for any number of deliveries, series, callers, tickets, similar     *)
(* pairs and officers.  At the end, the types of all the services.         *)
(***************************************************************************)
EXTENDS MCServices, HandOverProofs, CaseAuthorityProofs

-----------------------------------------------------------------------------
(***************************************************************************)
(* Filing.  A delivery acts on a snapshot that may be old by the time it   *)
(* writes; what keeps it right is what the write itself goes by: the       *)
(* counter as it is, the unique key, and the profile that must not have    *)
(* appeared.  So nothing need be known of what a delivery has read.        *)
(***************************************************************************)

\* Every number given out is one its series has counted.
Drawn(filed, counter) ==
  \A c \in filed :
    /\ c.number = <<c.number[1], c.number[2]>>
    /\ c.number[1] \in Series
    /\ c.number[2] \in Nat /\ c.number[2] <= counter[c.number[1]]

\* One case for a key and for a number.
OneEach(filed) == \A b, c \in filed : b.key = c.key \/ b.number = c.number => b = c

\* An answer names a case of the key it answers.
Answered(filed, all) ==
  \A d \in Calls : all[d].answer # NoTicket =>
    \E c \in filed : c.key = Deliveries[d].key /\ c.number = all[d].answer

IntakeInv ==
  /\ series \in [Series -> Nat]
  /\ callers \in [Persons -> {0, 1}]
  /\ DOMAIN delivery = Calls
  /\ Drawn(cases, series)
  /\ OneEach(cases)
  /\ Answered(cases, delivery)

\* Ending a delivery without an answer, or with the number of a case of its
\* key, leaves the answers right.
LEMMA EndsAnswered ==
  ASSUME NEW d \in Calls, NEW how, NEW number, NEW filed,
         DOMAIN delivery = Calls,
         Answered(cases, delivery), cases \subseteq filed, Ends(d, how, number),
         number # NoTicket => \E c \in filed : c.key = Deliveries[d].key /\ c.number = number
  PROVE  DOMAIN delivery' = Calls /\ Answered(filed, delivery')
  <1>1. /\ DOMAIN delivery' = Calls
        /\ \A e \in Calls : delivery'[e].answer = IF e = d THEN number ELSE delivery[e].answer
    BY DEF Ends, At
  <1> QED
    BY <1>1 DEF Answered

\* A case filed under the next number of its series, with a key nobody has.
LEMMA FiledNext ==
  ASSUME series \in [Series -> Nat], Drawn(cases, series), OneEach(cases),
         NEW q \in Series, NEW c, c.number = <<q, series[q] + 1>>, KeyFree(c.key)
  PROVE  LET counter == [series EXCEPT ![q] = @ + 1]
         IN  /\ counter \in [Series -> Nat]
             /\ Drawn(cases \cup {c}, counter)
             /\ OneEach(cases \cup {c})
  <1> DEFINE counter == [series EXCEPT ![q] = @ + 1]
  <1>1. counter \in [Series -> Nat] /\ \A r \in Series : series[r] <= counter[r]
    OBVIOUS
  <1>2. counter[q] = series[q] + 1 /\ c.number[1] = q /\ c.number[2] = series[q] + 1
    OBVIOUS
  <1>3. \A b \in cases : b.key # c.key /\ b.number # c.number
    <2> SUFFICES ASSUME NEW b \in cases PROVE b.key # c.key /\ b.number # c.number
      OBVIOUS
    <2>1. b.key # c.key
      BY DEF KeyFree, FiledAs
    <2>2. b.number # c.number
      <3> SUFFICES ASSUME b.number = c.number PROVE FALSE
        OBVIOUS
      <3>1. b.number[1] = q /\ b.number[2] = series[q] + 1
        BY <1>2
      <3>2. b.number[2] <= series[q]
        BY <3>1 DEF Drawn
      <3> QED
        BY <3>1, <3>2
    <2> QED
      BY <2>1, <2>2
  <1>4. Drawn(cases \cup {c}, counter)
    <2> SUFFICES ASSUME NEW b \in cases \cup {c}
                 PROVE  /\ b.number = <<b.number[1], b.number[2]>>
                        /\ b.number[1] \in Series
                        /\ b.number[2] \in Nat /\ b.number[2] <= counter[b.number[1]]
      BY DEF Drawn
    <2> HIDE DEF counter
    <2>1. CASE b \in cases
      <3>1. /\ b.number = <<b.number[1], b.number[2]>> /\ b.number[1] \in Series
            /\ b.number[2] \in Nat /\ b.number[2] <= series[b.number[1]]
        BY <2>1 DEF Drawn
      <3> QED
        BY <3>1, <1>1
    <2>2. CASE b = c
      BY <2>2, <1>1, <1>2
    <2> QED
      BY <2>1, <2>2
  <1>5. OneEach(cases \cup {c})
    BY <1>3 DEF OneEach
  <1> QED
    BY <1>1, <1>4, <1>5

\* Looking up answers, asks, or goes on to write.
LEMMA LookKeeps ==
  ASSUME IntakeInv, NEW d \in Calls, Look(d)
  PROVE  IntakeInv'
  <1> DEFINE call == Deliveries[d]
             filed == FiledAs(call.key, cases)
  <1>1. CASE filed # {}
    <2>1. PICK c \in filed : Ends(d, IF call.channel = "ivr" THEN "answered" ELSE "refused", c.number)
      BY <1>1 DEF Look
    <2>2. c \in cases /\ c.key = Deliveries[d].key
      BY DEF FiledAs
    <2>3. DOMAIN delivery' = Calls /\ Answered(cases, delivery')
      BY <2>1, <2>2, EndsAnswered DEF IntakeInv
    <2> QED
      BY <2>3 DEF IntakeInv, Look
  <1>2. CASE filed = {} /\ AsksFirst(d)
    <2>1. Ends(d, "asked", NoTicket)
      BY <1>2 DEF Look
    <2>2. DOMAIN delivery' = Calls /\ Answered(cases, delivery')
      BY <2>1, EndsAnswered DEF IntakeInv
    <2> QED
      BY <2>2 DEF IntakeInv, Look
  <1>3. CASE filed = {} /\ ~AsksFirst(d)
    <2>1. delivery' = [delivery EXCEPT ![d] =
                [at |-> "read", answer |-> NoTicket, count |-> series[call.series],
                 known |-> callers[call.person] > 0]]
      BY <1>3 DEF Look
    <2>2. DOMAIN delivery' = Calls /\ Answered(cases, delivery')
      BY <2>1 DEF IntakeInv, Answered
    <2> QED
      BY <2>2 DEF IntakeInv, Look
  <1> QED
    BY <1>1, <1>2, <1>3

\* Writing fails, finds the case of its key, or files it.
LEMMA FileKeeps ==
  ASSUME IntakeInv, NEW d \in Calls, File(d)
  PROVE  IntakeInv'
  <1> DEFINE call == Deliveries[d]
             number == <<call.series, series[call.series] + 1>>
             case == [key |-> call.key, person |-> call.person, number |-> number,
                      flagging |-> call.channel = "portal" \/ call.described]
  <1>1. call.series \in Series /\ call.person \in Persons
    BY DEF Series, Persons
  <1>2. CASE Ends(d, "failed", NoTicket) /\ UNCHANGED <<cases, series, callers>>
    <2>1. DOMAIN delivery' = Calls /\ Answered(cases, delivery')
      BY <1>2, EndsAnswered DEF IntakeInv
    <2> QED
      BY <1>2, <2>1 DEF IntakeInv
  <1>3. CASE /\ \E c \in FiledAs(call.key, cases) : Ends(d, "answered", c.number)
             /\ UNCHANGED <<cases, series, callers>>
    <2>1. PICK c \in FiledAs(call.key, cases) : Ends(d, "answered", c.number)
      BY <1>3
    <2>2. c \in cases /\ c.key = Deliveries[d].key
      BY DEF FiledAs
    <2>3. DOMAIN delivery' = Calls /\ Answered(cases, delivery')
      BY <2>1, <2>2, EndsAnswered DEF IntakeInv
    <2> QED
      BY <1>3, <2>3 DEF IntakeInv
  <1>4. CASE /\ ProfileStands(d) /\ KeyFree(call.key)
             /\ cases' = cases \cup {case}
             /\ series' = [series EXCEPT ![call.series] = @ + 1]
             /\ callers' = IF call.channel = "ivr" /\ ~delivery[d].known
                           THEN [callers EXCEPT ![call.person] = @ + 1] ELSE callers
             /\ Ends(d, "answered", number)
    <2>1. case.key = call.key /\ case.number = number
      OBVIOUS
    <2> HIDE DEF case
    <2>2. series' \in [Series -> Nat] /\ Drawn(cases', series') /\ OneEach(cases')
      BY <1>1, <1>4, <2>1, FiledNext DEF IntakeInv
    <2>3. callers' \in [Persons -> {0, 1}]
      BY <1>1, <1>4 DEF IntakeInv, ProfileStands
    <2>4. DOMAIN delivery' = Calls /\ Answered(cases', delivery')
      BY <1>4, <2>1, EndsAnswered DEF IntakeInv
    <2> QED
      BY <2>2, <2>3, <2>4 DEF IntakeInv
  <1>5. \/ Ends(d, "failed", NoTicket) /\ UNCHANGED <<cases, series, callers>>
        \/ /\ \E c \in FiledAs(call.key, cases) : Ends(d, "answered", c.number)
           /\ UNCHANGED <<cases, series, callers>>
        \/ /\ ProfileStands(d) /\ KeyFree(call.key)
           /\ cases' = cases \cup {case}
           /\ series' = [series EXCEPT ![call.series] = @ + 1]
           /\ callers' = IF call.channel = "ivr" /\ ~delivery[d].known
                         THEN [callers EXCEPT ![call.person] = @ + 1] ELSE callers
           /\ Ends(d, "answered", number)
    BY Zenon DEF File
  <1> HIDE DEF case, number
  <1> QED
    BY <1>2, <1>3, <1>4, <1>5

\* Every delivery, and the case it may file, keep the invariant.
LEMMA IntakeKept ==
  ASSUME IntakeInv, [IntakeNext]_intakeVars
  PROVE  IntakeInv'
  <1>1. CASE UNCHANGED intakeVars
    BY <1>1 DEF IntakeInv, intakeVars
  <1>2. ASSUME NEW d \in Calls, SendAgain(d) PROVE IntakeInv'
    <2>1. /\ DOMAIN delivery' = Calls
          /\ \A e \in Calls : delivery'[e].answer = delivery[e].answer
      BY <1>2 DEF SendAgain, IntakeInv
    <2> QED
      BY <1>2, <2>1 DEF SendAgain, IntakeInv, Answered
  <1> QED
    BY <1>1, <1>2, LookKeeps, FileKeeps DEF IntakeNext

\* For any deliveries of any calls and submissions, crossing in any order, and
\* with either behaviour of the database: one case and one number for a key,
\* one profile for a caller, and every answer names that case (FiledOnce).
THEOREM FiledOnceAlways == IntakeSpec => []FiledOnce
  <1>1. IntakeInit => IntakeInv
    BY DEF IntakeInit, IntakeInv, Drawn, OneEach, Answered, At
  <1>2. IntakeInv => FiledOnce
    BY DEF IntakeInv, OneEach, Answered, FiledOnce
  <1> QED
    BY <1>1, <1>2, IntakeKept, PTL DEF IntakeSpec

(***************************************************************************)
(* Types.  A series never counts further than there are deliveries, for it *)
(* counts the cases filed in it and no two cases have one key.             *)
(***************************************************************************)
FiledCase == [key : Keys, person : Persons, number : Series \X (Nat \ {0}), flagging : BOOLEAN]

FiledIn(q, filed) == {c \in filed : c.number[1] = q}

IntakeTyping ==
  /\ IntakeInv
  /\ IsFiniteSet(cases) /\ cases \subseteq FiledCase
  /\ \A q \in Series : series[q] = Cardinality(FiledIn(q, cases))
  /\ \A d \in Calls :
       delivery[d].at \in {"sent", "read", "answered", "refused", "asked", "failed"}
  /\ strict \in BOOLEAN

LEMMA EndsTyped ==
  ASSUME NEW d \in Calls, NEW number, DOMAIN delivery = Calls,
         NEW how \in {"sent", "read", "answered", "refused", "asked", "failed"},
         \A e \in Calls :
           delivery[e].at \in {"sent", "read", "answered", "refused", "asked", "failed"},
         Ends(d, how, number)
  PROVE  \A e \in Calls :
           delivery'[e].at \in {"sent", "read", "answered", "refused", "asked", "failed"}
  <1>1. \A e \in Calls : delivery'[e].at = IF e = d THEN how ELSE delivery[e].at
    BY DEF Ends, At
  <1> QED
    BY <1>1

\* The case filed is one more of its series, which had not counted it.
LEMMA FiledCounts ==
  ASSUME IntakeTyping, NEW c \in FiledCase, KeyFree(c.key), c.number[1] \in Series,
         NEW q \in Series
  PROVE  /\ IsFiniteSet(cases \cup {c})
         /\ Cardinality(FiledIn(q, cases \cup {c})) =
              IF c.number[1] = q THEN series[q] + 1 ELSE series[q]
  <1>0. IsFiniteSet(cases \cup {c})
    BY FS_AddElement DEF IntakeTyping
  <1>1. c \notin cases
    BY DEF KeyFree, FiledAs
  <1>2. IsFiniteSet(FiledIn(q, cases)) /\ Cardinality(FiledIn(q, cases)) = series[q]
    BY FS_Subset DEF IntakeTyping, FiledIn
  <1>3. CASE c.number[1] = q
    <2>1. FiledIn(q, cases \cup {c}) = FiledIn(q, cases) \cup {c}
      BY <1>3 DEF FiledIn
    <2>2. c \notin FiledIn(q, cases)
      BY <1>1 DEF FiledIn
    <2> QED
      BY <1>0, <1>2, <1>3, <2>1, <2>2, FS_AddElement
  <1>4. CASE c.number[1] # q
    <2>1. FiledIn(q, cases \cup {c}) = FiledIn(q, cases)
      BY <1>4 DEF FiledIn
    <2> QED
      BY <1>0, <1>2, <1>4, <2>1
  <1> QED
    BY <1>3, <1>4

LEMMA IntakeTypingStep ==
  ASSUME IntakeTyping, [IntakeNext]_intakeVars
  PROVE  IntakeTyping'
  <1>0. IntakeInv /\ IntakeInv'
    BY IntakeKept DEF IntakeTyping
  <1>1. CASE UNCHANGED intakeVars
    BY <1>0, <1>1 DEF IntakeTyping, intakeVars, FiledIn
  <1>2. ASSUME UNCHANGED <<cases, series, strict>>,
               NEW d \in Calls, NEW number,
               NEW how \in {"answered", "refused", "asked", "failed"}, Ends(d, how, number)
        PROVE  IntakeTyping'
    <2>1. \A e \in Calls :
            delivery'[e].at \in {"sent", "read", "answered", "refused", "asked", "failed"}
      BY <1>2, EndsTyped DEF IntakeTyping, IntakeInv
    <2> QED
      BY <1>0, <1>2, <2>1 DEF IntakeTyping, FiledIn
  <1>3. ASSUME NEW d \in Calls, Look(d) PROVE IntakeTyping'
    <2> DEFINE call == Deliveries[d]
               filed == FiledAs(call.key, cases)
    <2>1. UNCHANGED <<cases, series, strict>>
      BY <1>3 DEF Look
    <2>2. CASE filed # {}
      <3>1. PICK c \in filed :
              Ends(d, IF call.channel = "ivr" THEN "answered" ELSE "refused", c.number)
        BY <1>3, <2>2 DEF Look
      <3> QED
        BY <1>2, <2>1, <3>1
    <2>3. CASE filed = {} /\ AsksFirst(d)
      <3>1. Ends(d, "asked", NoTicket)
        BY <1>3, <2>3 DEF Look
      <3> QED
        BY <1>2, <2>1, <3>1
    <2>4. CASE filed = {} /\ ~AsksFirst(d)
      <3>1. delivery' = [delivery EXCEPT ![d] =
                [at |-> "read", answer |-> NoTicket, count |-> series[call.series],
                 known |-> callers[call.person] > 0]]
        BY <1>3, <2>4 DEF Look
      <3>2. \A e \in Calls :
              delivery'[e].at \in {"sent", "read", "answered", "refused", "asked", "failed"}
        BY <3>1 DEF IntakeTyping, IntakeInv
      <3> QED
        BY <1>0, <2>1, <3>2 DEF IntakeTyping, FiledIn
    <2> QED
      BY <2>2, <2>3, <2>4
  <1>4. ASSUME NEW d \in Calls, File(d) PROVE IntakeTyping'
    <2> DEFINE call == Deliveries[d]
               number == <<call.series, series[call.series] + 1>>
               case == [key |-> call.key, person |-> call.person, number |-> number,
                        flagging |-> call.channel = "portal" \/ call.described]
    <2>1. \/ Ends(d, "failed", NoTicket) /\ UNCHANGED <<cases, series>>
          \/ /\ \E c \in FiledAs(call.key, cases) : Ends(d, "answered", c.number)
             /\ UNCHANGED <<cases, series>>
          \/ /\ KeyFree(call.key)
             /\ cases' = cases \cup {case}
             /\ series' = [series EXCEPT ![call.series] = @ + 1]
             /\ Ends(d, "answered", number)
      BY <1>4, Zenon DEF File
    <2>2. strict' = strict
      BY <1>4, Zenon DEF File
    <2>3. /\ call.key \in Keys /\ call.person \in Persons /\ call.series \in Series
          /\ series[call.series] \in Nat
      BY <1>0 DEF Keys, Persons, Series, IntakeInv
    <2>4. case \in FiledCase /\ case.key = call.key /\ case.number[1] = call.series
      BY <2>3 DEF FiledCase
    <2> HIDE DEF number, case
    <2>5. CASE /\ KeyFree(call.key)
               /\ cases' = cases \cup {case}
               /\ series' = [series EXCEPT ![call.series] = @ + 1]
               /\ Ends(d, "answered", number)
      <3>1. IsFiniteSet(cases') /\ cases' \subseteq FiledCase
        BY <2>4, <2>5, FS_AddElement DEF IntakeTyping
      <3>2. \A q \in Series : Cardinality(FiledIn(q, cases')) =
                                IF call.series = q THEN series[q] + 1 ELSE series[q]
        BY <2>3, <2>4, <2>5, FiledCounts
      <3>3. \A q \in Series : series'[q] = IF call.series = q THEN series[q] + 1 ELSE series[q]
        BY <1>0, <2>5 DEF IntakeInv
      <3>4. \A e \in Calls :
              delivery'[e].at \in {"sent", "read", "answered", "refused", "asked", "failed"}
        BY <2>5, EndsTyped DEF IntakeTyping, IntakeInv
      <3> QED
        BY <1>0, <2>2, <3>1, <3>2, <3>3, <3>4 DEF IntakeTyping, FiledIn
    <2>6. CASE Ends(d, "failed", NoTicket) /\ UNCHANGED <<cases, series>>
      BY <1>2, <2>2, <2>6
    <2>7. CASE /\ \E c \in FiledAs(call.key, cases) : Ends(d, "answered", c.number)
               /\ UNCHANGED <<cases, series>>
      BY <1>2, <2>2, <2>7
    <2> QED
      BY <2>1, <2>5, <2>6, <2>7
  <1>5. ASSUME NEW d \in Calls, SendAgain(d) PROVE IntakeTyping'
    <2>1. \A e \in Calls :
            delivery'[e].at \in {"sent", "read", "answered", "refused", "asked", "failed"}
      BY <1>5 DEF SendAgain, IntakeTyping, IntakeInv
    <2> QED
      BY <1>0, <1>5, <2>1 DEF SendAgain, IntakeTyping, FiledIn
  <1> QED
    BY <1>1, <1>3, <1>4, <1>5 DEF IntakeNext

LEMMA IntakeTypingStart ==
  ASSUME IntakeInit
  PROVE  IntakeTyping
  <1>1. IntakeInv
    BY DEF IntakeInit, IntakeInv, Drawn, OneEach, Answered, At
  <1>2. \A q \in Series : FiledIn(q, cases) = {}
    BY DEF IntakeInit, FiledIn
  <1> QED
    BY <1>1, <1>2, FS_EmptySet DEF IntakeInit, IntakeTyping, At

\* There are no more cases than keys, and no more keys than deliveries.
LEMMA SeriesBounded ==
  ASSUME IntakeTyping, NEW q \in Series
  PROVE  series[q] <= Cardinality(Calls)
  <1>1. IsFiniteSet(Calls)
    BY DeliveriesFinite DEF Calls
  <1> DEFINE keyOf == [c \in cases |-> CHOOSE d \in Calls : Deliveries[d].key = c.key]
  <1>2. \A c \in cases : keyOf[c] \in Calls /\ Deliveries[keyOf[c]].key = c.key
    BY DEF IntakeTyping, FiledCase, Keys
  <1>3. keyOf \in Injection(cases, Calls)
    <2>1. \A b, c \in cases : keyOf[b] = keyOf[c] => b = c
      BY <1>2 DEF IntakeTyping, IntakeInv, OneEach
    <2>2. keyOf \in [cases -> Calls]
      BY <1>2
    <2> HIDE DEF keyOf
    <2> QED
      BY <2>1, <2>2 DEF Injection, IsInjective
  <1>4. Cardinality(cases) <= Cardinality(Calls)
    BY <1>1, <1>3, FS_Injection
  <1>5. Cardinality(FiledIn(q, cases)) <= Cardinality(cases)
    BY FS_Subset DEF FiledIn, IntakeTyping
  <1>6. /\ Cardinality(cases) \in Nat /\ Cardinality(Calls) \in Nat
        /\ Cardinality(FiledIn(q, cases)) \in Nat
    BY <1>1, FS_CardinalityType, FS_Subset DEF FiledIn, IntakeTyping
  <1> QED
    BY <1>4, <1>5, <1>6 DEF IntakeTyping

LEMMA IntakeIsTyped == IntakeTyping => IntakeTypeOK
  <1> SUFFICES ASSUME IntakeTyping PROVE IntakeTypeOK
    OBVIOUS
  <1>1. Cardinality(Calls) \in Nat
    BY DeliveriesFinite, FS_CardinalityType DEF Calls
  <1>2. series \in [Series -> 0..Cardinality(Calls)]
    <2>1. \A q \in Series : series[q] \in Nat /\ series[q] <= Cardinality(Calls)
      BY SeriesBounded DEF IntakeTyping, IntakeInv
    <2> QED
      BY <1>1, <2>1 DEF IntakeTyping, IntakeInv
  <1>3. \A c \in cases : c \in Case
    <2> SUFFICES ASSUME NEW c \in cases PROVE c \in Case
      OBVIOUS
    <2>1. c \in FiledCase /\ c.number[2] <= series[c.number[1]]
      BY DEF IntakeTyping, IntakeInv, Drawn
    <2>2. c.number[1] \in Series
      BY DEF IntakeTyping, IntakeInv, Drawn
    <2>3. c.number[2] \in 1..Cardinality(Calls)
      BY <1>1, <1>2, <2>1, <2>2 DEF FiledCase
    <2> QED
      BY <2>1, <2>3 DEF FiledCase, Case, Numbers
  <1>4. callers \in [Persons -> 0..Cardinality(Calls)]
    <2>1. Persons # {} => Cardinality(Calls) >= 1
      <3>1. Persons # {} => Calls # {}
        BY DEF Persons
      <3> QED
        BY <1>1, <3>1, DeliveriesFinite, FS_EmptySet DEF Calls
    <2> QED
      BY <1>1, <2>1 DEF IntakeTyping, IntakeInv
  <1>5. \A d \in Calls : delivery[d].answer \in Numbers \cup {NoTicket}
    <2> SUFFICES ASSUME NEW d \in Calls, delivery[d].answer # NoTicket
                 PROVE  delivery[d].answer \in Numbers
      OBVIOUS
    <2>1. PICK c \in cases : c.number = delivery[d].answer
      BY DEF IntakeTyping, IntakeInv, Answered
    <2> QED
      BY <1>3, <2>1 DEF Case
  <1> QED
    BY <1>2, <1>3, <1>4, <1>5 DEF IntakeTyping, IntakeTypeOK

\* Whatever is delivered and sent again, no series counts further than there are
\* deliveries, and every case, number and answer has its type.
THEOREM IntakeTypedAlways == IntakeSpec => []IntakeTypeOK
  BY IntakeIsTyped, IntakeTypingStart, IntakeTypingStep, PTL DEF IntakeSpec

-----------------------------------------------------------------------------
(***************************************************************************)
(* Ruling.  An officer's request writes on what it read some time before;  *)
(* what it read is right as long as the ticket and the pending rows are    *)
(* still as they were, and it is refused otherwise.                        *)
(***************************************************************************)
TicketRow == [state : {"Unfiled", "Open", "Closed", "Duplicate"},
              main : Tickets \cup {NoMain}]
RulingRows == SUBSET {"pending", "confirmed", "dismissed"}

\* A request that confirms read a ticket that was open, and another as the main.
Confirming(r) ==
  r.kind = "confirm" =>
    /\ r.ticket \in Tickets /\ r.main \in Tickets \ {r.ticket}
    /\ r.seen.state = "Open"

DuplicateInv ==
  /\ dupTicket \in [Tickets -> TicketRow]
  /\ reviews \in [Pairs -> RulingRows]
  /\ \A o \in Rulers : Confirming(ruling[o])
  /\ DOMAIN ruling = Rulers
  /\ DuplicateHasOneRuling

\* A step that rules on nothing: no ruling is confirmed, no ticket becomes a
\* duplicate or stops being one.
NothingRuled ==
  /\ dupTicket' \in [Tickets -> TicketRow] /\ reviews' \in [Pairs -> RulingRows]
  /\ \A p \in Pairs : "confirmed" \in reviews'[p] <=> "confirmed" \in reviews[p]
  /\ \A x \in Tickets :
       \/ dupTicket'[x] = dupTicket[x]
       \/ dupTicket[x].state # "Duplicate" /\ dupTicket'[x].state # "Duplicate"

LEMMA NothingRuledKeeps ==
  ASSUME DuplicateHasOneRuling, NothingRuled
  PROVE  DuplicateHasOneRuling'
  <1> SUFFICES ASSUME NEW x \in Tickets
               PROVE  {m \in Tickets \ {x} : "confirmed" \in reviews'[<<x, m>>]} =
                        IF dupTicket'[x].state = "Duplicate" THEN {dupTicket'[x].main} ELSE {}
    BY DEF DuplicateHasOneRuling
  <1>1. \A m \in Tickets \ {x} :
          "confirmed" \in reviews'[<<x, m>>] <=> "confirmed" \in reviews[<<x, m>>]
    BY DEF NothingRuled, Pairs
  <1>2. {m \in Tickets \ {x} : "confirmed" \in reviews[<<x, m>>]} =
          IF dupTicket[x].state = "Duplicate" THEN {dupTicket[x].main} ELSE {}
    BY DEF DuplicateHasOneRuling
  <1> QED
    BY <1>1, <1>2 DEF NothingRuled

\* A ruling on rows that are as they were read.
LEMMA RuleKeeps ==
  ASSUME DuplicateInv, NEW o \in Rulers, Rule(o)
  PROVE  DuplicateInv'
  <1> DEFINE r == ruling[o]
             x == r.ticket
  <1>1. \A q \in Rulers : Confirming(ruling'[q])
    BY DEF Rule, DuplicateInv, Confirming, NoRequestYet
  <1>2. DOMAIN ruling' = Rulers
    BY DEF Rule, DuplicateInv
  <1>3. CASE ~RowsAsRead(r)
    <2>1. UNCHANGED <<dupTicket, reviews>>
      BY <1>3 DEF Rule
    <2> QED
      BY <1>1, <1>2, <2>1 DEF DuplicateInv, DuplicateHasOneRuling
  <1>4. CASE RowsAsRead(r) /\ r.kind # "confirm"
    <2>1. reviews' = Dismissed(r) /\ UNCHANGED dupTicket
      BY <1>4 DEF Rule
    <2>2. NothingRuled
      BY <2>1 DEF NothingRuled, Dismissed, Settled, DuplicateInv, RulingRows
    <2> QED
      BY <1>1, <1>2, <2>2, NothingRuledKeeps DEF DuplicateInv, NothingRuled
  <1>5. CASE RowsAsRead(r) /\ r.kind = "confirm"
    <2>1. /\ dupTicket' = [dupTicket EXCEPT ![x] = [state |-> "Duplicate", main |-> r.main]]
          /\ reviews' = Confirmed(r)
      BY <1>5 DEF Rule
    <2>2. x \in Tickets /\ r.main \in Tickets \ {x} /\ dupTicket[x].state = "Open"
      BY <1>5 DEF RowsAsRead, DuplicateInv, Confirming
    <2>3. dupTicket' \in [Tickets -> TicketRow]
      BY <2>1, <2>2 DEF DuplicateInv, TicketRow
    <2>4. reviews' \in [Pairs -> RulingRows]
      BY <2>1 DEF Confirmed, Settled, DuplicateInv, RulingRows
    <2>5. ASSUME NEW y \in Tickets, NEW m \in Tickets \ {y}
          PROVE  "confirmed" \in reviews'[<<y, m>>] <=>
                   (y = x /\ m = r.main) \/ "confirmed" \in reviews[<<y, m>>]
      <3>1. <<y, m>> \in Pairs
        BY DEF Pairs
      <3> QED
        BY <2>1, <3>1 DEF Confirmed, Settled
    <2>6. {m \in Tickets \ {x} : "confirmed" \in reviews[<<x, m>>]} = {}
      BY <2>2 DEF DuplicateInv, DuplicateHasOneRuling
    <2>7. ASSUME NEW y \in Tickets
          PROVE  {m \in Tickets \ {y} : "confirmed" \in reviews'[<<y, m>>]} =
                   IF dupTicket'[y].state = "Duplicate" THEN {dupTicket'[y].main} ELSE {}
      <3>1. CASE y = x
        <4>1. dupTicket'[y].state = "Duplicate" /\ dupTicket'[y].main = r.main
          BY <2>1, <2>2, <3>1 DEF DuplicateInv
        <4>2. \A m \in Tickets \ {y} : "confirmed" \in reviews'[<<y, m>>] <=> m = r.main
          BY <2>5, <2>6, <3>1
        <4> QED
          BY <2>2, <3>1, <4>1, <4>2
      <3>2. CASE y # x
        <4>1. dupTicket'[y] = dupTicket[y]
          BY <2>1, <3>2 DEF DuplicateInv
        <4>2. \A m \in Tickets \ {y} :
                "confirmed" \in reviews'[<<y, m>>] <=> "confirmed" \in reviews[<<y, m>>]
          BY <2>5, <3>2
        <4> QED
          BY <4>1, <4>2 DEF DuplicateInv, DuplicateHasOneRuling
      <3> QED
        BY <3>1, <3>2
    <2>8. DuplicateHasOneRuling'
      BY <2>7 DEF DuplicateHasOneRuling
    <2> QED
      BY <1>1, <1>2, <2>3, <2>4, <2>8 DEF DuplicateInv
  <1> QED
    BY <1>3, <1>4, <1>5

\* Every step of the tickets, the flag jobs and the officers.
LEMMA DuplicateKept ==
  ASSUME DuplicateInv, [DuplicateNext]_duplicateVars
  PROVE  DuplicateInv'
  <1>1. CASE UNCHANGED duplicateVars
    BY <1>1 DEF DuplicateInv, duplicateVars, DuplicateHasOneRuling
  <1>2. ASSUME NothingRuled, UNCHANGED ruling PROVE DuplicateInv'
    BY <1>2, NothingRuledKeeps DEF DuplicateInv, NothingRuled
  <1>3. ASSUME NEW x \in Tickets, FileTicket(x) PROVE DuplicateInv'
    BY <1>2, <1>3 DEF FileTicket, NothingRuled, DuplicateInv, TicketRow
  <1>4. ASSUME NEW x \in Tickets, ScoreTicket(x) PROVE DuplicateInv'
    BY <1>2, <1>4 DEF ScoreTicket, NothingRuled, DuplicateInv
  <1>5. ASSUME NEW x \in Tickets, FlagTicket(x) PROVE DuplicateInv'
    BY <1>2, <1>5 DEF FlagTicket, NothingRuled, DuplicateInv, RulingRows
  <1>6. ASSUME NEW x \in Tickets, CloseTicket(x) PROVE DuplicateInv'
    BY <1>2, <1>6 DEF CloseTicket, NothingRuled, DuplicateInv, TicketRow
  <1>7. ASSUME NEW o \in Rulers, NEW x \in Tickets, ReadToDismiss(o, x) PROVE DuplicateInv'
    BY <1>7 DEF ReadToDismiss, DuplicateInv, Confirming, DuplicateHasOneRuling
  <1>8. ASSUME NEW o \in Rulers, NEW x \in Tickets, NEW m \in Tickets, ReadToConfirm(o, x, m)
        PROVE  DuplicateInv'
    BY <1>8 DEF ReadToConfirm, ValidMain, DuplicateInv, Confirming, DuplicateHasOneRuling
  <1> QED
    BY <1>1, <1>3, <1>4, <1>5, <1>6, <1>7, <1>8, RuleKeeps DEF DuplicateNext

LEMMA DuplicateStarts ==
  ASSUME DuplicateInit
  PROVE  DuplicateInv
  BY DEF DuplicateInit, DuplicateInv, DuplicateHasOneRuling, TicketRow, RulingRows,
         Confirming, NoRequestYet, Pairs

\* For any tickets, similar pairs and officers: a ticket is a Duplicate by
\* exactly one confirmed ruling, which names its main ticket, however rulings
\* and late flag jobs cross (DuplicateHasOneRuling).
THEOREM OneRulingAlways == DuplicateSpec => []DuplicateHasOneRuling
  <1>1. DuplicateInit => DuplicateInv
    BY DuplicateStarts
  <1>2. DuplicateInv => DuplicateHasOneRuling
    BY DEF DuplicateInv
  <1> QED
    BY <1>1, <1>2, DuplicateKept, PTL DEF DuplicateSpec

\* Flag jobs and officers keep their types too.
FlagJob == [at : {"none", "queued", "scored"}, found : SUBSET Tickets]

DuplicateTyping ==
  /\ DuplicateInv
  /\ flagging \in [Tickets -> FlagJob]
  /\ \A o \in Rulers : ruling[o].kind \in {"none", "confirm", "dismiss"}

LEMMA DuplicateTypingStep ==
  ASSUME DuplicateTyping, [DuplicateNext]_duplicateVars
  PROVE  DuplicateTyping'
  <1>0. DuplicateInv /\ DuplicateInv'
    BY DuplicateKept DEF DuplicateTyping
  <1>1. CASE UNCHANGED duplicateVars
    BY <1>0, <1>1 DEF DuplicateTyping, duplicateVars
  <1>2. ASSUME NEW x \in Tickets, NEW job \in FlagJob,
               flagging' = [flagging EXCEPT ![x] = job], UNCHANGED ruling
        PROVE  DuplicateTyping'
    BY <1>0, <1>2 DEF DuplicateTyping
  <1>3. ASSUME NEW x \in Tickets, FileTicket(x) PROVE DuplicateTyping'
    BY <1>0, <1>3 DEF FileTicket, DuplicateTyping, FlagJob
  <1>4. ASSUME NEW x \in Tickets, ScoreTicket(x) PROVE DuplicateTyping'
    BY <1>2, <1>4 DEF ScoreTicket, FlagJob
  <1>5. ASSUME NEW x \in Tickets, FlagTicket(x) PROVE DuplicateTyping'
    BY <1>2, <1>5 DEF FlagTicket, NoJob, FlagJob
  <1>6. ASSUME NEW x \in Tickets, CloseTicket(x) PROVE DuplicateTyping'
    BY <1>0, <1>6 DEF CloseTicket, DuplicateTyping
  <1>7. ASSUME NEW o \in Rulers, NEW x \in Tickets, ReadToDismiss(o, x) PROVE DuplicateTyping'
    BY <1>0, <1>7 DEF ReadToDismiss, DuplicateTyping, DuplicateInv
  <1>8. ASSUME NEW o \in Rulers, NEW x \in Tickets, NEW m \in Tickets, ReadToConfirm(o, x, m)
        PROVE  DuplicateTyping'
    BY <1>0, <1>8 DEF ReadToConfirm, DuplicateTyping, DuplicateInv
  <1>9. ASSUME NEW o \in Rulers, Rule(o) PROVE DuplicateTyping'
    <2>1. ruling' = [ruling EXCEPT ![o] = NoRequestYet] /\ UNCHANGED flagging
      BY <1>9, Zenon DEF Rule
    <2> QED
      BY <1>0, <2>1 DEF DuplicateTyping, DuplicateInv, NoRequestYet
  <1> QED
    BY <1>1, <1>3, <1>4, <1>5, <1>6, <1>7, <1>8, <1>9 DEF DuplicateNext

LEMMA DuplicateTypingStart ==
  ASSUME DuplicateInit
  PROVE  DuplicateTyping
  BY DuplicateStarts DEF DuplicateInit, DuplicateTyping, FlagJob, NoJob, NoRequestYet

LEMMA DuplicateIsTyped == DuplicateTyping => DuplicateTypeOK
  BY DEF DuplicateTyping, DuplicateInv, DuplicateTypeOK, FlagJob, TicketRow, RulingRows

\* For any tickets, pairs and officers, tickets, flags, jobs and requests keep
\* their types.
THEOREM DuplicateTypedAlways == DuplicateSpec => []DuplicateTypeOK
  BY DuplicateIsTyped, DuplicateTypingStart, DuplicateTypingStep, PTL DEF DuplicateSpec

-----------------------------------------------------------------------------
(***************************************************************************)
(* The components side by side, as the runs check them: the one picked     *)
(* keeps its own invariant, the others rest.                               *)
(***************************************************************************)
ServicesInv ==
  /\ part = "scan" => ScanTyping
  /\ part = "notices" => NoticeTyping
  /\ part = "authority" => AuthorityInv
  /\ part = "routing" => RoutingInv
  /\ part = "duplicates" => DuplicateTyping
  /\ part = "intake" => IntakeTyping

LEMMA ServicesStart ==
  ASSUME ServicesInit
  PROVE  ServicesInv
  BY ScanTypingStart, NoticeTypingStart, AuthorityStart, RoutingStart, DuplicateTypingStart,
     IntakeTypingStart DEF ServicesInit, ServicesInv

\* A step is one of the component picked, or changes nothing of it.
LEMMA PickedServes ==
  ASSUME [ServicesNext]_servicesVars
  PROVE  /\ part' = part
         /\ part = "scan" => [ScanNext]_scanVars
         /\ part = "notices" => [NoticeNext]_noticeVars
         /\ part = "authority" => [AuthorityNext]_authorityVars
         /\ part = "routing" => [RoutingNext]_routingVars
         /\ part = "duplicates" => [DuplicateNext]_duplicateVars
         /\ part = "intake" => [IntakeNext]_intakeVars
  BY DEF ServicesNext, Rest, servicesVars

LEMMA ServicesStep ==
  ASSUME ServicesInv, [ServicesNext]_servicesVars
  PROVE  ServicesInv'
  <1>1. part = "scan" => ScanTyping'
    BY PickedServes, ScanTypingStep DEF ServicesInv
  <1>2. part = "notices" => NoticeTyping'
    BY PickedServes, NoticeTypingStep DEF ServicesInv
  <1>3. part = "authority" => AuthorityInv'
    BY PickedServes, AuthorityStep DEF ServicesInv
  <1>4. part = "routing" => RoutingInv'
    BY PickedServes, RoutingStep DEF ServicesInv
  <1>5. part = "duplicates" => DuplicateTyping'
    BY PickedServes, DuplicateTypingStep DEF ServicesInv
  <1>6. part = "intake" => IntakeTyping'
    BY PickedServes, IntakeTypingStep DEF ServicesInv
  <1> QED
    BY <1>1, <1>2, <1>3, <1>4, <1>5, <1>6, PickedServes DEF ServicesInv

\* Whatever the sizes, every variable of the component picked keeps its type
\* (ServicesTypeOK).
THEOREM ServicesTyped == ServicesSpec => []ServicesTypeOK
  <1>1. AuthorityInv => AuthorityTypeOK
    BY DEF AuthorityInv, AuthorityTypeOK, CaseTyped, RequestTyped, SomeOfficer, SomeDepartment
  <1>2. ServicesInv => ServicesTypeOK
    BY <1>1, ScanIsTyped, NoticeIsTyped, RoutingHolds, DuplicateIsTyped, IntakeIsTyped
       DEF ServicesInv, ServicesTypeOK
  <1> QED
    BY <1>2, ServicesStart, ServicesStep, PTL DEF ServicesSpec
==============================================================================
