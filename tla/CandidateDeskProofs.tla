------------------------ MODULE CandidateDeskProofs -------------------------
(***************************************************************************)
(* Of the pages on which candidates are looked at and decided upon, for    *)
(* any number of candidates, requests and attempts: the buttons of a row,  *)
(* the mails to candidates, the table and its feed, the transcripts of a   *)
(* candidate's attempts.                                                   *)
(***************************************************************************)
EXTENDS CandidateTable, CandidateMailer, StaffWidgets, CandidateReport, Lists,
        FiniteSetTheorems, SequenceTheorems, TLAPS

-----------------------------------------------------------------------------
(* Lists.  What filtering and sorting keep, for any finite set and any      *)
(* sequence.  The place of an element is an injection into as many numbers  *)
(* as there are elements, so it is onto: every place is taken, by one       *)
(* element.                                                                 *)

LEMMA OneTo ==
    ASSUME NEW n \in Nat
    PROVE  IsFiniteSet(1 .. n) /\ Cardinality(1 .. n) = n
<1>1. Cardinality(1 .. n) = IF 1 > n THEN 0 ELSE n - 1 + 1
  BY FS_Interval
<1>2. IsFiniteSet(1 .. n)
  BY FS_Interval
<1> QED BY <1>1, <1>2

LEMMA Smallest ==
    ASSUME NEW S, S \subseteq Nat, S # {}
    PROVE  \E n \in S : \A m \in S : n <= m
<1>1. PICK n \in S : \A m \in S : ~(<<m, n>> \in OpToRel(<, Nat))
  BY WFMin, NatLessThanWellFounded, Zenon
<1>2. \A m \in S : ~(m < n)
  BY <1>1 DEF OpToRel
<1>3. \A m \in S : n <= m
  BY <1>2
<1> QED BY <1>3

\* R orders the elements of S.
Orders(R, S) ==
    /\ \A x \in S : <<x, x>> \notin R
    /\ \A x, y, z \in S : <<x, y>> \in R /\ <<y, z>> \in R => <<x, z>> \in R
    /\ \A x, y \in S : x # y => <<x, y>> \in R \/ <<y, x>> \in R

LEMMA PlacesAreTaken ==
    ASSUME NEW S, IsFiniteSet(S), NEW R, Orders(R, S)
    PROVE  /\ \A n \in 1 .. Cardinality(S) : \E x \in S : Cardinality({y \in S : <<y, x>> \in R}) = n - 1
           /\ \A x \in S : Cardinality({y \in S : <<y, x>> \in R}) + 1 \in 1 .. Cardinality(S)
           /\ \A x, z \in S : <<x, z>> \in R =>
                 Cardinality({y \in S : <<y, x>> \in R}) < Cardinality({y \in S : <<y, z>> \in R})
<1> DEFINE before(x) == {y \in S : <<y, x>> \in R}
           place == [x \in S |-> Cardinality(before(x)) + 1]
<1>0. Cardinality(S) \in Nat
  BY FS_CardinalityType
<1>1. ASSUME NEW x \in S
      PROVE  IsFiniteSet(before(x)) /\ Cardinality(before(x)) \in Nat /\ Cardinality(before(x)) < Cardinality(S)
  <2>1. before(x) \in SUBSET S /\ before(x) # S
    BY DEF Orders
  <2> HIDE DEF before
  <2>2. IsFiniteSet(before(x)) /\ Cardinality(before(x)) <= Cardinality(S) /\ Cardinality(before(x)) # Cardinality(S)
    BY <2>1, FS_Subset
  <2>3. Cardinality(before(x)) \in Nat
    BY <2>2, FS_CardinalityType
  <2> QED BY <1>0, <2>2, <2>3
<1>2. ASSUME NEW x \in S, NEW z \in S, <<x, z>> \in R
      PROVE  Cardinality(before(x)) < Cardinality(before(z))
  <2>1. before(x) \in SUBSET before(z) /\ x \in before(z) /\ x \notin before(x)
    BY <1>2 DEF Orders
  <2> HIDE DEF before
  <2>2. Cardinality(before(x)) <= Cardinality(before(z)) /\ Cardinality(before(x)) # Cardinality(before(z))
    BY <1>1, <2>1, FS_Subset
  <2> QED BY <1>1, <2>2
<1>3. place \in Injection(S, 1 .. Cardinality(S))
  <2>1. place \in [S -> 1 .. Cardinality(S)]
    <3>1. \A x \in S : Cardinality(before(x)) + 1 \in 1 .. Cardinality(S)
      BY <1>0, <1>1
    <3> HIDE DEF before
    <3> QED BY <3>1
  <2>2. ASSUME NEW x \in S, NEW z \in S, place[x] = place[z] PROVE x = z
    <3>1. Cardinality(before(x)) = Cardinality(before(z))
      <4>1. Cardinality(before(x)) + 1 = Cardinality(before(z)) + 1
        BY <2>2
      <4> HIDE DEF before
      <4> QED BY <1>1, <4>1
    <3>2. ~(Cardinality(before(x)) < Cardinality(before(z))) /\ ~(Cardinality(before(z)) < Cardinality(before(x)))
      <4> HIDE DEF before
      <4> QED BY <1>1, <3>1
    <3>3. <<x, z>> \notin R /\ <<z, x>> \notin R
      <4> HIDE DEF before
      <4> QED BY <1>2, <3>2
    <3> QED BY <3>3 DEF Orders
  <2> QED BY <2>1, <2>2 DEF Injection, IsInjective
<1>4. place \in Surjection(S, 1 .. Cardinality(S))
  <2> HIDE DEF place
  <2>1. IsFiniteSet(1 .. Cardinality(S)) /\ Cardinality(1 .. Cardinality(S)) = Cardinality(S)
    BY <1>0, OneTo
  <2> QED BY <1>3, <2>1, FS_Injection
<1>5. \A n \in 1 .. Cardinality(S) : \E x \in S : Cardinality(before(x)) = n - 1
  <2> SUFFICES ASSUME NEW n \in 1 .. Cardinality(S) PROVE \E x \in S : Cardinality(before(x)) = n - 1
    OBVIOUS
  <2>1. PICK x \in S : place[x] = n
    BY <1>4 DEF Surjection
  <2>2. Cardinality(before(x)) + 1 = n
    BY <2>1
  <2> HIDE DEF before
  <2>3. Cardinality(before(x)) = n - 1
    BY <1>1, <2>2
  <2> QED BY <2>3
<1>6. \A x \in S : Cardinality(before(x)) + 1 \in 1 .. Cardinality(S)
  BY <1>0, <1>1
<1> QED BY <1>2, <1>5, <1>6

(* A sorted list has every element, once, and in their order.               *)
LEMMA SortedByOrders ==
    ASSUME NEW S, IsFiniteSet(S), NEW R, Orders(R, S)
    PROVE  /\ SortedBy(S, R) \in [1 .. Cardinality(S) -> S]
           /\ Cardinality(S) \in Nat
           /\ \A x \in S : \E n \in 1 .. Cardinality(S) : SortedBy(S, R)[n] = x
           /\ \A m, n \in 1 .. Cardinality(S) : m < n <=> <<SortedBy(S, R)[m], SortedBy(S, R)[n]>> \in R
<1> DEFINE before(x) == {y \in S : <<y, x>> \in R}
           s == SortedBy(S, R)
<1>0. Cardinality(S) \in Nat
  BY FS_CardinalityType
<1>1. /\ \A n \in 1 .. Cardinality(S) : \E x \in S : Cardinality(before(x)) = n - 1
      /\ \A x \in S : Cardinality(before(x)) + 1 \in 1 .. Cardinality(S)
      /\ \A x, z \in S : <<x, z>> \in R => Cardinality(before(x)) < Cardinality(before(z))
  BY PlacesAreTaken
<1>2. s = [n \in 1 .. Cardinality(S) |-> CHOOSE x \in S : Cardinality(before(x)) = n - 1]
  BY Zenon DEF SortedBy
<1> HIDE DEF before, s
<1>3. \A n \in 1 .. Cardinality(S) : s[n] \in S /\ Cardinality(before(s[n])) = n - 1
  BY <1>1, <1>2
<1>4. s \in [1 .. Cardinality(S) -> S]
  BY <1>2, <1>3
<1>5. \A x \in S : Cardinality(before(x)) \in Int
  <2> SUFFICES ASSUME NEW x \in S PROVE Cardinality(before(x)) \in Int
    OBVIOUS
  <2>1. before(x) \in SUBSET S
    BY DEF before
  <2> QED BY <2>1, FS_Subset, FS_CardinalityType
<1>6. ASSUME NEW x \in S, NEW z \in S, Cardinality(before(x)) = Cardinality(before(z)) PROVE x = z
  <2>1. ~(Cardinality(before(x)) < Cardinality(before(z))) /\ ~(Cardinality(before(z)) < Cardinality(before(x)))
    BY <1>5, <1>6
  <2>2. <<x, z>> \notin R /\ <<z, x>> \notin R
    BY <1>1, <2>1
  <2> QED BY <2>2 DEF Orders
<1>7. ASSUME NEW x \in S PROVE \E n \in 1 .. Cardinality(S) : s[n] = x
  <2> DEFINE n == Cardinality(before(x)) + 1
  <2>1. n \in 1 .. Cardinality(S) /\ n - 1 = Cardinality(before(x))
    BY <1>1, <1>5
  <2>2. Cardinality(before(s[n])) = Cardinality(before(x)) /\ s[n] \in S
    BY <1>3, <2>1
  <2>3. s[n] = x
    BY <1>6, <2>2
  <2> QED BY <2>1, <2>3
<1>8. ASSUME NEW m \in 1 .. Cardinality(S), NEW n \in 1 .. Cardinality(S) PROVE m < n <=> <<s[m], s[n]>> \in R
  <2>1. /\ s[m] \in S /\ Cardinality(before(s[m])) = m - 1
        /\ s[n] \in S /\ Cardinality(before(s[n])) = n - 1
    BY <1>3
  <2>2. ASSUME <<s[m], s[n]>> \in R PROVE m < n
    <3>1. m - 1 < n - 1
      BY <1>1, <2>1, <2>2
    <3> QED BY <3>1
  <2>3. ASSUME m < n, <<s[m], s[n]>> \notin R PROVE FALSE
    <3>1. s[m] # s[n]
      BY <2>1, <2>3
    <3>2. <<s[n], s[m]>> \in R
      BY <2>1, <2>3, <3>1 DEF Orders
    <3>3. n - 1 < m - 1
      BY <1>1, <2>1, <3>2
    <3> QED BY <2>3, <3>3
  <2> QED BY <2>2, <2>3
<1> QED BY <1>0, <1>4, <1>7, <1>8 DEF s

(* A filtered list keeps the chosen elements, all of them, in their order. *)
LEMMA FilterKeeps ==
    ASSUME NEW A, NEW s \in Seq(A), NEW K
    PROVE  /\ Filter(s, K) \in Seq(A)
           /\ \A n \in DOMAIN Filter(s, K) : Filter(s, K)[n] \in K
           /\ \A i \in DOMAIN s : s[i] \in K => \E n \in DOMAIN Filter(s, K) : Filter(s, K)[n] = s[i]
           /\ \E at \in [DOMAIN Filter(s, K) -> DOMAIN s] :
                 /\ \A n \in DOMAIN Filter(s, K) : Filter(s, K)[n] = s[at[n]]
                 /\ \A m, n \in DOMAIN Filter(s, K) : m < n => at[m] < at[n]
<1> DEFINE kept == {i \in DOMAIN s : s[i] \in K}
           R == Ascending(kept, [i \in kept |-> i])
           at == SortedBy(kept, R)
<1>0. DOMAIN s = 1 .. Len(s) /\ Len(s) \in Nat /\ \A i \in DOMAIN s : s[i] \in A
  OBVIOUS
<1>1. IsFiniteSet(kept) /\ \A i \in kept : i \in Nat
  <2>1. IsFiniteSet(DOMAIN s)
    BY <1>0, OneTo
  <2>2. kept \in SUBSET DOMAIN s
    OBVIOUS
  <2> QED BY <1>0, <2>1, <2>2, FS_Subset
<1>2. R = {p \in kept \X kept : p[1] < p[2]}
  BY DEF Ascending
<1>3. Orders(R, kept)
  <2> HIDE DEF kept, R
  <2>1. \A x, y \in kept : <<x, y>> \in R <=> x < y
    BY <1>2
  <2> QED BY <1>1, <2>1 DEF Orders
<1>4. Filter(s, K) = [n \in 1 .. Cardinality(kept) |-> s[at[n]]]
  BY DEF Filter
<1>5. /\ at \in [1 .. Cardinality(kept) -> kept]
      /\ Cardinality(kept) \in Nat
      /\ \A x \in kept : \E n \in 1 .. Cardinality(kept) : at[n] = x
      /\ \A m, n \in 1 .. Cardinality(kept) : m < n <=> <<at[m], at[n]>> \in R
  <2> HIDE DEF kept, R
  <2> QED BY <1>1, <1>3, SortedByOrders
<1> HIDE DEF at, R
<1>6. \A n \in 1 .. Cardinality(kept) : at[n] \in DOMAIN s /\ s[at[n]] \in K /\ s[at[n]] \in A
  BY <1>0, <1>5
<1>7. \A i \in DOMAIN s : s[i] \in K => \E n \in 1 .. Cardinality(kept) : s[at[n]] = s[i]
  BY <1>5
<1>8. \A m, n \in 1 .. Cardinality(kept) : m < n => at[m] < at[n]
  BY <1>1, <1>2, <1>5
<1>9. at \in [1 .. Cardinality(kept) -> DOMAIN s]
  BY <1>5, <1>6
<1> DEFINE c == Cardinality(kept)
           f == Filter(s, K)
<1>10. f = [n \in 1 .. c |-> s[at[n]]] /\ c \in Nat /\ DOMAIN f = 1 .. c
  BY <1>4, <1>5
<1>11. f \in Seq(A)
  BY <1>6, <1>10
<1> HIDE DEF c, f, kept
<1> SUFFICES /\ f \in Seq(A)
             /\ \A n \in DOMAIN f : f[n] \in K
             /\ \A i \in DOMAIN s : s[i] \in K => \E n \in DOMAIN f : f[n] = s[i]
             /\ \E a \in [DOMAIN f -> DOMAIN s] :
                   /\ \A n \in DOMAIN f : f[n] = s[a[n]]
                   /\ \A m, n \in DOMAIN f : m < n => a[m] < a[n]
  BY DEF f
<1> QED BY <1>6, <1>7, <1>8, <1>9, <1>10, <1>11 DEF c

(* Without an element twice, a list has none twice when filtered, nor with  *)
(* another appended that has nothing in common with it.                     *)
LEMMA FilterInjective ==
    ASSUME NEW A, NEW s \in Seq(A), IsInjective(s), NEW K
    PROVE  IsInjective(Filter(s, K))
<1> DEFINE f == Filter(s, K)
<1>1. f \in Seq(A)
  BY FilterKeeps
<1>2. PICK at \in [DOMAIN f -> DOMAIN s] :
         /\ \A n \in DOMAIN f : f[n] = s[at[n]]
         /\ \A m, n \in DOMAIN f : m < n => at[m] < at[n]
  BY FilterKeeps
<1> HIDE DEF f
<1>3. \A n \in DOMAIN f : n \in Nat /\ at[n] \in Nat
  BY <1>1, <1>2
<1>4. ASSUME NEW m \in DOMAIN f, NEW n \in DOMAIN f, f[m] = f[n] PROVE m = n
  <2>1. at[m] = at[n]
    BY <1>2, <1>4 DEF IsInjective
  <2> QED BY <1>2, <1>3, <2>1
<1>5. IsInjective(f)
  BY <1>4 DEF IsInjective
<1> QED BY <1>5 DEF f

LEMMA ConcatInjective ==
    ASSUME NEW A, NEW s \in Seq(A), NEW t \in Seq(A), IsInjective(s), IsInjective(t),
           \A i \in DOMAIN s, k \in DOMAIN t : s[i] # t[k]
    PROVE  IsInjective(s \o t)
<1> DEFINE u == s \o t
<1>1. /\ Len(s) \in Nat /\ DOMAIN s = 1 .. Len(s)
      /\ Len(t) \in Nat /\ DOMAIN t = 1 .. Len(t)
      /\ DOMAIN u = 1 .. Len(s) + Len(t)
  OBVIOUS
<1>2. \A i \in DOMAIN u : \/ i \in DOMAIN s /\ u[i] = s[i]
                          \/ i - Len(s) \in DOMAIN t /\ u[i] = t[i - Len(s)]
  OBVIOUS
<1>3. \A i \in DOMAIN u : i \in Int
  BY <1>1
<1> HIDE DEF u
<1>4. ASSUME NEW i \in DOMAIN u, NEW k \in DOMAIN u, u[i] = u[k] PROVE i = k
  <2>1. CASE i \in DOMAIN s /\ u[i] = s[i] /\ k \in DOMAIN s /\ u[k] = s[k]
    BY <1>4, <2>1 DEF IsInjective
  <2>2. CASE i - Len(s) \in DOMAIN t /\ u[i] = t[i - Len(s)] /\ k - Len(s) \in DOMAIN t /\ u[k] = t[k - Len(s)]
    <3>1. i - Len(s) = k - Len(s)
      BY <1>4, <2>2 DEF IsInjective
    <3> QED BY <1>1, <1>3, <3>1
  <2> QED BY <1>2, <1>4, <2>1, <2>2
<1> QED BY <1>4 DEF IsInjective, u

-----------------------------------------------------------------------------
(* StaffWidgets.  What makes a button ask for the same thing again is never *)
(* that it was told: the last request of the button on the screen is the    *)
(* only one that can change what it shows, and a text that was sent is      *)
(* never typed again.                                                       *)

OneShot == {"rescore", "rescreen", "change"}

\* Requests that were not made are blank; an answer told is the backend's.
Answered ==
    \A n \in 1 .. MaxRequests :
        /\ n > asked => requests[n].heard = "none" /\ requests[n].backend = "none"
        /\ n <= asked => requests[n].heard # "none"
        /\ requests[n].heard = "told" => requests[n].backend # "none"

\* The subjects of the requests made: rows up to the one shown, texts typed.
SubjectsNumbered ==
    /\ change.text <= change.typed
    /\ \A n \in 1 .. asked :
         IF which = "change" THEN requests[n].subject > 0 /\ requests[n].subject <= change.typed
         ELSE requests[n].subject <= mount

\* A button waits for its last request at most.
WaitsForOne ==
    \A n \in 1 .. asked : Mine(n) /\ requests[n].heard = "waiting" => n = asked /\ button = "loading"

\* It shows that it was told, or its text is gone.
ShowsWhatWasTold ==
    \A n \in 1 .. asked :
        requests[n].heard = "told" /\ requests[n].backend = "took" =>
            /\ which \in {"rescore", "rescreen"} /\ Mine(n) => button = "done"
            /\ which = "change" => requests[n].subject # change.text

\* What was asked for before the same thing was asked for again.
AskedAgain ==
    which \in OneShot =>
        \A n \in 1 .. asked : \A m \in 1 .. n - 1 :
            requests[m].subject = requests[n].subject =>
                \/ requests[m].heard = "lost"
                \/ requests[m].heard = "told" /\ requests[m].backend = "refused"

DoneIsDone == button \in {"done", "partial"} => asked > 0 /\ requests[asked].backend = "took"

WidgetInv ==
    WidgetTypeOK /\ Answered /\ SubjectsNumbered /\ WaitsForOne /\ ShowsWhatWasTold /\ AskedAgain /\ DoneIsDone

LEMMA WidgetInitially == WidgetInit => WidgetInv
<1> SUFFICES ASSUME WidgetInit PROVE WidgetInv
  OBVIOUS
<1>1. WidgetTypeOK
  BY MaxRequestsAssumption DEF WidgetInit, WidgetTypeOK, Unasked
<1>2. Answered /\ SubjectsNumbered /\ WaitsForOne /\ ShowsWhatWasTold /\ AskedAgain /\ DoneIsDone
  BY MaxRequestsAssumption
     DEF WidgetInit, Answered, SubjectsNumbered, WaitsForOne, ShowsWhatWasTold, AskedAgain, DoneIsDone, Unasked
<1> QED BY <1>1, <1>2 DEF WidgetInv

(* The types, one by one.                                                   *)
LEMMA WidgetTypes ==
    ASSUME WidgetTypeOK
    PROVE  /\ MaxRequests \in Nat /\ asked \in 0 .. MaxRequests /\ mount \in Nat
           /\ button \in {"idle", "loading", "done", "failed", "partial"} /\ which \in Buttons
           /\ requests \in [1 .. MaxRequests -> [subject : Nat, backend : {"none", "took", "refused"},
                                                heard : {"none", "waiting", "told", "lost"}]]
           /\ change \in [open : BOOLEAN, text : 0 .. MaxRequests, typed : 0 .. MaxRequests]
           /\ change.text \in Nat /\ change.typed \in Nat
  BY MaxRequestsAssumption DEF WidgetTypeOK

(* Asking: the button was not waiting, and of what it asks for it was not   *)
(* told.                                                                    *)
LEMMA Asking ==
    ASSUME WidgetInv, NEW b \in Buttons, Ask(b), button # "loading",
           b \in {"rescore", "rescreen"} => button # "done",
           b = "change" => change.text # 0
    PROVE  WidgetInv'
<1> USE WidgetTypes DEF WidgetInv
<1> DEFINE k == asked + 1
           new == [subject |-> Subject, backend |-> "none", heard |-> "waiting"]
<1>1. /\ k \in 1 .. MaxRequests /\ asked' = k /\ asked \in Nat /\ k \in Nat
      /\ which = b /\ button' = "loading" /\ UNCHANGED <<which, mount, change>>
      /\ requests' = [requests EXCEPT ![k] = new]
  BY DEF Ask
<1>2. Subject \in Nat
  BY DEF Subject
<1>3. /\ requests'[k].subject = Subject /\ requests'[k].backend = "none" /\ requests'[k].heard = "waiting"
      /\ \A n \in 1 .. MaxRequests : n # k => requests'[n] = requests[n]
  BY <1>1
<1>4. \A n \in 1 .. asked : n \in 1 .. MaxRequests /\ n # k /\ n < k
  BY <1>1
<1>5. \A n \in 1 .. k : n = k \/ n \in 1 .. asked
  BY <1>1
<1> HIDE DEF k, new
<1>6. WidgetTypeOK'
  <2>1. requests' \in [1 .. MaxRequests -> [subject : Nat, backend : {"none", "took", "refused"},
                                            heard : {"none", "waiting", "told", "lost"}]]
    BY <1>1, <1>2 DEF new
  <2> QED BY <1>1, <2>1 DEF WidgetTypeOK
<1>7. Answered'
  <2> SUFFICES ASSUME NEW n \in 1 .. MaxRequests
               PROVE  /\ n > k => requests'[n].heard = "none" /\ requests'[n].backend = "none"
                      /\ n <= k => requests'[n].heard # "none"
                      /\ requests'[n].heard = "told" => requests'[n].backend # "none"
    BY <1>1 DEF Answered
  <2>1. CASE n = k
    BY <1>3, <2>1
  <2>2. CASE n # k
    <3>1. (n > k => n > asked) /\ (n <= k => n <= asked)
      BY <1>1, <2>2 DEF k
    <3> QED BY <1>3, <2>2, <3>1 DEF Answered
  <2> QED BY <2>1, <2>2
<1>8. SubjectsNumbered'
  <2>1. change'.text <= change'.typed
    BY <1>1 DEF SubjectsNumbered
  <2> SUFFICES ASSUME NEW n \in 1 .. k
               PROVE  IF which = "change" THEN requests'[n].subject > 0 /\ requests'[n].subject <= change.typed
                      ELSE requests'[n].subject <= mount
    BY <1>1, <2>1 DEF SubjectsNumbered
  <2>2. CASE n = k
    <3>1. CASE which = "change"
      BY <1>1, <1>3, <2>2, <3>1 DEF Subject, SubjectsNumbered
    <3>2. CASE which # "change"
      BY <1>3, <2>2, <3>2 DEF Subject
    <3> QED BY <3>1, <3>2
  <2>3. CASE n \in 1 .. asked
    BY <1>3, <1>4, <2>3 DEF SubjectsNumbered
  <2> QED BY <1>5, <2>2, <2>3
\* The button of the row shown has nothing to wait for.
<1>9. \A n \in 1 .. asked : Mine(n) => requests[n].heard # "waiting"
  BY DEF WaitsForOne
<1>10. \A n \in 1 .. asked : requests'[n] = requests[n] /\ (Mine(n)' <=> Mine(n))
  BY <1>1, <1>3, <1>4 DEF Mine
<1>11. WaitsForOne'
  BY <1>1, <1>5, <1>9, <1>10 DEF WaitsForOne
<1>12. ShowsWhatWasTold'
  <2> SUFFICES ASSUME NEW n \in 1 .. k, requests'[n].heard = "told", requests'[n].backend = "took"
               PROVE  /\ which \in {"rescore", "rescreen"} /\ Mine(n)' => FALSE
                      /\ which = "change" => requests'[n].subject # change.text
    BY <1>1 DEF ShowsWhatWasTold
  <2>1. n \in 1 .. asked
    BY <1>3, <1>5
  <2> QED BY <1>1, <1>10, <2>1 DEF ShowsWhatWasTold
<1>13. AskedAgain'
  <2> SUFFICES ASSUME which \in OneShot, NEW n \in 1 .. k, NEW m \in 1 .. n - 1,
                      requests'[m].subject = requests'[n].subject
               PROVE  \/ requests'[m].heard = "lost"
                      \/ requests'[m].heard = "told" /\ requests'[m].backend = "refused"
    BY <1>1 DEF AskedAgain
  <2>1. m \in 1 .. asked
    BY <1>1 DEF k
  <2>2. CASE n \in 1 .. asked
    BY <1>10, <2>1, <2>2 DEF AskedAgain
  <2>3. CASE n = k
    <3>1. requests[m].subject = Subject
      BY <1>3, <1>10, <2>1, <2>3
    <3>2. Mine(m)
      BY <3>1 DEF Mine, Subject
    <3>3. requests[m].heard # "waiting" /\ requests[m].heard # "none"
      BY <1>4, <1>9, <2>1, <3>2 DEF Answered
    <3>4. ~(requests[m].heard = "told" /\ requests[m].backend = "took")
      <4>1. CASE which = "change"
        BY <2>1, <3>1, <4>1 DEF ShowsWhatWasTold, Subject
      <4>2. CASE which \in {"rescore", "rescreen"}
        BY <1>1, <2>1, <3>2, <4>2 DEF ShowsWhatWasTold
      <4> QED BY <4>1, <4>2 DEF OneShot
    <3>5. /\ requests[m].heard \in {"none", "waiting", "told", "lost"}
          /\ requests[m].backend \in {"none", "took", "refused"}
          /\ requests[m].heard = "told" => requests[m].backend # "none"
      BY <1>4, <2>1 DEF Answered
    <3> QED BY <1>10, <2>1, <3>3, <3>4, <3>5
  <2> QED BY <1>5, <2>2, <2>3
<1>14. DoneIsDone'
  BY <1>1 DEF DoneIsDone
<1> QED BY <1>6, <1>7, <1>8, <1>11, <1>12, <1>13, <1>14

(* Handling: the backend decides what nobody has been told yet.             *)
LEMMA Handling == ASSUME WidgetInv, NEW k \in 1 .. MaxRequests, Handle(k) PROVE WidgetInv'
<1> USE WidgetTypes DEF WidgetInv
<1>1. k \in 1 .. asked /\ requests[k].backend = "none" /\ UNCHANGED <<which, button, mount, asked, change>>
  BY DEF Handle
<1>2. PICK done \in {"took", "refused"} : requests' = [requests EXCEPT ![k].backend = done]
  BY DEF Handle
<1>3. /\ requests' \in [1 .. MaxRequests -> [subject : Nat, backend : {"none", "took", "refused"},
                                            heard : {"none", "waiting", "told", "lost"}]]
      /\ \A n \in 1 .. MaxRequests : requests'[n].subject = requests[n].subject /\ requests'[n].heard = requests[n].heard
      /\ \A n \in 1 .. MaxRequests : n # k => requests'[n].backend = requests[n].backend
      /\ requests'[k].backend = done
  BY <1>2
<1>4. requests[k].heard # "told" /\ 1 .. asked \subseteq 1 .. MaxRequests
  <2>1. requests[k].heard = "told" => requests[k].backend # "none"
    BY DEF Answered
  <2>2. 1 .. asked \subseteq 1 .. MaxRequests
    OBVIOUS
  <2> QED BY <1>1, <2>1, <2>2
<1>5. WidgetTypeOK'
  BY <1>1, <1>3 DEF WidgetTypeOK
<1>6. Answered'
  <2> SUFFICES ASSUME NEW n \in 1 .. MaxRequests
               PROVE  /\ n > asked => requests'[n].heard = "none" /\ requests'[n].backend = "none"
                      /\ n <= asked => requests'[n].heard # "none"
                      /\ requests'[n].heard = "told" => requests'[n].backend # "none"
    BY <1>1 DEF Answered
  <2> QED BY <1>1, <1>3, <1>4 DEF Answered
<1>7. SubjectsNumbered'
  BY <1>1, <1>3, <1>4 DEF SubjectsNumbered
<1>8. \A n \in 1 .. asked : Mine(n)' <=> Mine(n)
  BY <1>1, <1>3, <1>4 DEF Mine
<1>9. WaitsForOne'
  BY <1>1, <1>3, <1>4, <1>8 DEF WaitsForOne
<1>10. ShowsWhatWasTold'
  <2> SUFFICES ASSUME NEW n \in 1 .. asked, requests'[n].heard = "told", requests'[n].backend = "took"
               PROVE  /\ which \in {"rescore", "rescreen"} /\ Mine(n)' => button = "done"
                      /\ which = "change" => requests'[n].subject # change.text
    BY <1>1 DEF ShowsWhatWasTold
  <2>1. requests[n].heard = "told" /\ requests[n].backend = "took"
    BY <1>3, <1>4
  <2> QED BY <1>3, <1>4, <1>8, <2>1 DEF ShowsWhatWasTold
<1>11. AskedAgain'
  <2> SUFFICES ASSUME which \in OneShot, NEW n \in 1 .. asked, NEW m \in 1 .. n - 1,
                      requests'[m].subject = requests'[n].subject
               PROVE  \/ requests'[m].heard = "lost"
                      \/ requests'[m].heard = "told" /\ requests'[m].backend = "refused"
    BY <1>1 DEF AskedAgain
  <2>1. m \in 1 .. MaxRequests /\ n \in 1 .. MaxRequests
    OBVIOUS
  <2>2. \/ requests[m].heard = "lost"
        \/ requests[m].heard = "told" /\ requests[m].backend = "refused"
    BY <1>3, <2>1 DEF AskedAgain
  <2> QED BY <1>3, <1>4, <2>1, <2>2
<1>12. DoneIsDone'
  BY <1>1, <1>3, <1>4 DEF DoneIsDone
<1> QED BY <1>5, <1>6, <1>7, <1>9, <1>10, <1>11, <1>12

(* Hearing: the button on the screen shows it, that of a row that is gone   *)
(* does not.                                                                *)
LEMMA Hearing ==
    ASSUME WidgetInv, NEW k \in 1 .. asked, NEW what \in {"told", "lost"},
           NEW shown \in {"idle", "done", "failed", "partial"}, Learns(k, what, shown),
           what = "told" => requests[k].backend # "none",
           shown \in {"done", "partial"} => requests[k].backend = "took",
           what = "told" /\ requests[k].backend = "took" =>
               /\ which \in {"rescore", "rescreen"} => shown = "done"
               /\ which = "change" => change' = [change EXCEPT !.text = 0],
           change' \in {change, [change EXCEPT !.text = 0]}
    PROVE  WidgetInv'
<1> USE WidgetTypes DEF WidgetInv
<1>1. /\ requests[k].heard = "waiting" /\ UNCHANGED <<which, mount, asked>> /\ k \in 1 .. MaxRequests
      /\ button' = IF Mine(k) THEN shown ELSE button
      /\ requests' = [requests EXCEPT ![k].heard = what]
  BY DEF Learns
<1>2. /\ requests' \in [1 .. MaxRequests -> [subject : Nat, backend : {"none", "took", "refused"},
                                            heard : {"none", "waiting", "told", "lost"}]]
      /\ \A n \in 1 .. MaxRequests :
           requests'[n].subject = requests[n].subject /\ requests'[n].backend = requests[n].backend
      /\ \A n \in 1 .. MaxRequests : n # k => requests'[n].heard = requests[n].heard
      /\ requests'[k].heard = what
  BY <1>1
<1>3. 1 .. asked \subseteq 1 .. MaxRequests
  OBVIOUS
<1>4. /\ change' \in [open : BOOLEAN, text : 0 .. MaxRequests, typed : 0 .. MaxRequests]
      /\ change'.typed = change.typed
      /\ change'.text = 0 \/ change' = change
  OBVIOUS
<1>5. WidgetTypeOK'
  BY <1>1, <1>2, <1>4 DEF WidgetTypeOK
<1>6. Answered'
  <2> SUFFICES ASSUME NEW n \in 1 .. MaxRequests
               PROVE  /\ n > asked => requests'[n].heard = "none" /\ requests'[n].backend = "none"
                      /\ n <= asked => requests'[n].heard # "none"
                      /\ requests'[n].heard = "told" => requests'[n].backend # "none"
    BY <1>1 DEF Answered
  <2>1. CASE n = k
    BY <1>1, <1>2, <2>1
  <2>2. CASE n # k
    BY <1>2, <2>2 DEF Answered
  <2> QED BY <2>1, <2>2
<1>7. SubjectsNumbered'
  BY <1>1, <1>2, <1>3, <1>4 DEF SubjectsNumbered
<1>8. \A n \in 1 .. asked : Mine(n)' <=> Mine(n)
  BY <1>1, <1>2, <1>3 DEF Mine
\* If the button on the screen hears it, it was its last request.
<1>9. Mine(k) => k = asked /\ button = "loading"
  BY <1>1 DEF WaitsForOne
<1>10. \A n \in 1 .. asked : requests'[n].heard = "waiting" => n # k /\ requests[n].heard = "waiting"
  BY <1>2, <1>3
<1>11. WaitsForOne'
  BY <1>1, <1>8, <1>9, <1>10 DEF WaitsForOne
<1>12. ShowsWhatWasTold'
  <2> SUFFICES ASSUME NEW n \in 1 .. asked, requests'[n].heard = "told", requests'[n].backend = "took"
               PROVE  /\ which \in {"rescore", "rescreen"} /\ Mine(n) => button' = "done"
                      /\ which = "change" => requests'[n].subject # change'.text
    BY <1>1, <1>8 DEF ShowsWhatWasTold
  <2>1. requests[n].backend = "took"
    BY <1>2, <1>3
  <2>2. which = "change" => requests'[n].subject # change'.text
    <3> SUFFICES ASSUME which = "change" PROVE requests'[n].subject # change'.text
      OBVIOUS
    <3>1. requests'[n].subject = requests[n].subject /\ requests[n].subject > 0
      BY <1>2, <1>3 DEF SubjectsNumbered
    <3>2. CASE n = k
      <4>1. change' = [change EXCEPT !.text = 0]
        BY <1>2, <2>1, <3>2
      <4> QED BY <3>1, <4>1
    <3>3. CASE n # k
      <4>1. requests[n].heard = "told"
        BY <1>2, <1>3, <3>3
      <4> QED BY <1>4, <2>1, <3>1, <4>1 DEF ShowsWhatWasTold
    <3> QED BY <3>2, <3>3
  <2>3. which \in {"rescore", "rescreen"} /\ Mine(n) => button' = "done"
    <3> SUFFICES ASSUME which \in {"rescore", "rescreen"}, Mine(n) PROVE button' = "done"
      OBVIOUS
    <3>1. CASE n = k
      BY <1>1, <1>2, <2>1, <3>1
    <3>2. CASE n # k
      <4>1. button = "done"
        BY <1>2, <1>3, <2>1, <3>2 DEF ShowsWhatWasTold
      <4> QED BY <1>1, <1>9, <4>1
    <3> QED BY <3>1, <3>2
  <2> QED BY <2>2, <2>3
<1>13. AskedAgain'
  <2> SUFFICES ASSUME which \in OneShot, NEW n \in 1 .. asked, NEW m \in 1 .. n - 1,
                      requests'[m].subject = requests'[n].subject
               PROVE  \/ requests'[m].heard = "lost"
                      \/ requests'[m].heard = "told" /\ requests'[m].backend = "refused"
    BY <1>1 DEF AskedAgain
  <2>1. m \in 1 .. MaxRequests /\ n \in 1 .. MaxRequests
    OBVIOUS
  <2>2. \/ requests[m].heard = "lost"
        \/ requests[m].heard = "told" /\ requests[m].backend = "refused"
    BY <1>2, <2>1 DEF AskedAgain
  <2> QED BY <1>1, <1>2, <2>1, <2>2
<1>14. DoneIsDone'
  <2> SUFFICES ASSUME button' \in {"done", "partial"} PROVE asked > 0 /\ requests'[asked].backend = "took"
    BY <1>1 DEF DoneIsDone
  <2>1. CASE Mine(k)
    <3>1. k = asked /\ button' = shown
      BY <1>1, <1>9, <2>1
    <3> QED BY <1>1, <1>2, <3>1
  <2>2. CASE ~Mine(k)
    <3>1. button' = button
      BY <1>1, <2>2
    <3>2. asked > 0 /\ requests[asked].backend = "took" /\ asked \in 1 .. MaxRequests
      BY <3>1 DEF DoneIsDone
    <3> QED BY <1>2, <3>2
  <2> QED BY <2>1, <2>2
<1> QED BY <1>5, <1>6, <1>7, <1>11, <1>12, <1>13, <1>14

(* An answer of one of the buttons: told that it was done, told or taken    *)
(* for a failure.                                                           *)
LEMMA Telling ==
    ASSUME WidgetInv, NEW b, NEW shown \in {"idle", "done", "failed", "partial"}, Served(b, shown),
           b \in {"rescore", "rescreen"} => shown = "done",
           change' = IF b = "change" THEN [change EXCEPT !.text = 0] ELSE change
    PROVE  WidgetInv'
<1>1. PICK k \in 1 .. asked : which = b /\ requests[k].backend = "took" /\ Learns(k, "told", shown)
  BY DEF Served
<1>2. change' \in {change, [change EXCEPT !.text = 0]}
  OBVIOUS
<1>3. which = "change" => change' = [change EXCEPT !.text = 0]
  BY <1>1
<1> QED BY <1>1, <1>2, <1>3, Hearing

LEMMA Failing ==
    ASSUME WidgetInv, NEW b, NEW shown \in {"idle", "failed"}, Unserved(b, shown), change' = change
    PROVE  WidgetInv'
<1>1. PICK k \in 1 .. asked : \/ requests[k].backend = "refused" /\ Learns(k, "told", shown)
                              \/ Learns(k, "lost", shown)
  BY DEF Unserved
<1>2. shown \in {"idle", "done", "failed", "partial"} /\ shown \notin {"done", "partial"}
  OBVIOUS
<1>3. CASE requests[k].backend = "refused" /\ Learns(k, "told", shown)
  BY <1>2, <1>3, Hearing
<1>4. CASE Learns(k, "lost", shown)
  BY <1>2, <1>4, Hearing
<1> QED BY <1>1, <1>3, <1>4

(* What changes neither the requests nor what the button shows of them.     *)
LEMMA Elsewhere ==
    ASSUME WidgetInv, UNCHANGED <<which, mount, asked, requests>>,
           button' = button \/ (button' = "idle" /\ which = "change" /\ button # "loading"),
           change' \in [open : BOOLEAN, text : 0 .. MaxRequests, typed : 0 .. MaxRequests],
           change'.typed >= change.typed,
           \/ change'.text = change.text
           \/ change'.text > change.typed /\ change'.text <= change'.typed
    PROVE  WidgetInv'
<1> USE WidgetTypes DEF WidgetInv
<1>1. WidgetTypeOK'
  BY DEF WidgetTypeOK
<1>2. change'.typed \in Nat /\ change'.text \in Nat
  OBVIOUS
<1>3. SubjectsNumbered'
  <2>1. change'.text <= change'.typed
    BY <1>2 DEF SubjectsNumbered
  <2> SUFFICES ASSUME NEW n \in 1 .. asked
               PROVE  IF which = "change" THEN requests[n].subject > 0 /\ requests[n].subject <= change'.typed
                      ELSE requests[n].subject <= mount
    BY <2>1 DEF SubjectsNumbered
  <2>2. requests[n].subject \in Nat
    OBVIOUS
  <2> QED BY <1>2, <2>2 DEF SubjectsNumbered
<1>4. Answered' /\ AskedAgain'
  BY DEF Answered, AskedAgain
<1>5. WaitsForOne' /\ DoneIsDone'
  BY DEF WaitsForOne, DoneIsDone, Mine
<1>6. ShowsWhatWasTold'
  <2> SUFFICES ASSUME NEW n \in 1 .. asked, requests[n].heard = "told", requests[n].backend = "took"
               PROVE  /\ which \in {"rescore", "rescreen"} /\ Mine(n) => button' = "done"
                      /\ which = "change" => requests[n].subject # change'.text
    BY DEF ShowsWhatWasTold, Mine
  <2>1. requests[n].subject \in Nat
    OBVIOUS
  <2> QED BY <1>2, <2>1 DEF ShowsWhatWasTold, SubjectsNumbered
<1> QED BY <1>1, <1>3, <1>4, <1>5, <1>6

(* A new mounting of a button has asked for nothing.                        *)
LEMMA Remounting == ASSUME WidgetInv, Remount PROVE WidgetInv'
<1> USE WidgetTypes DEF WidgetInv
<1>1. /\ which # "change" /\ button' = "idle" /\ mount' = mount + 1
      /\ UNCHANGED <<which, asked, requests, change>>
  BY DEF Remount
<1>2. \A n \in 1 .. asked : requests[n].subject \in Nat /\ requests[n].subject <= mount
  BY <1>1 DEF SubjectsNumbered
<1>3. \A n \in 1 .. asked : ~Mine(n)'
  BY <1>1, <1>2 DEF Mine
<1>4. mount' \in Nat
  BY <1>1
<1>5. WidgetTypeOK'
  BY <1>1, <1>4 DEF WidgetTypeOK
<1>6. Answered' /\ AskedAgain'
  BY <1>1 DEF Answered, AskedAgain
<1>7. SubjectsNumbered'
  BY <1>1, <1>2 DEF SubjectsNumbered
<1>8. WaitsForOne' /\ ShowsWhatWasTold' /\ DoneIsDone'
  BY <1>1, <1>3 DEF WaitsForOne, ShowsWhatWasTold, DoneIsDone
<1> QED BY <1>5, <1>6, <1>7, <1>8

LEMMA WidgetStep == WidgetInv /\ [WidgetNext]_widgetVars => WidgetInv'
<1> SUFFICES ASSUME WidgetInv, [WidgetNext]_widgetVars PROVE WidgetInv'
  OBVIOUS
<1>types. WidgetTypeOK
  BY DEF WidgetInv
<1>1. CASE RescoreClick
  BY <1>1, Asking DEF RescoreClick, Buttons
<1>2. CASE ReScreenClick
  BY <1>2, Asking DEF ReScreenClick, Buttons
<1>3. CASE ResumeClick
  BY <1>3, Asking DEF ResumeClick, Buttons
<1>4. CASE ZipClick
  BY <1>4, Asking DEF ZipClick, Buttons
<1>5. CASE handleSend
  BY <1>5, Asking DEF handleSend, Buttons
<1>6. CASE RescoreAnswer
  BY <1>6, Telling, Failing DEF RescoreAnswer
<1>7. CASE ReScreenAnswer
  BY <1>7, Telling, Failing DEF ReScreenAnswer
<1>8. CASE ResumeAnswer
  BY <1>8, Telling, Failing DEF ResumeAnswer
<1>9. CASE ZipAnswer
  <2>1. ASSUME NEW shown \in {"idle", "partial"}, Served("zip", shown) PROVE WidgetInv'
    BY <1>9, <2>1, Telling DEF ZipAnswer
  <2> QED BY <1>9, <2>1, Failing DEF ZipAnswer
<1>10. CASE ChangeAnswer
  BY <1>10, Telling, Failing DEF ChangeAnswer
<1>11. ASSUME NEW next \in BOOLEAN, handleOpenChange(next) PROVE WidgetInv'
  <2>1. /\ change' \in [open : BOOLEAN, text : 0 .. MaxRequests, typed : 0 .. MaxRequests]
        /\ change'.typed = change.typed /\ change'.text = change.text
    BY <1>types, <1>11, WidgetTypes DEF handleOpenChange
  <2>2. /\ UNCHANGED <<which, mount, asked, requests>>
        /\ button' = button \/ (button' = "idle" /\ which = "change" /\ button # "loading")
    BY <1>11 DEF handleOpenChange
  <2> QED BY <1>types, <2>1, <2>2, Elsewhere, WidgetTypes
<1>12. CASE TypeChange
  <2> DEFINE fresh == change.typed + 1
  <2>1. fresh \in 0 .. MaxRequests /\ fresh > change.typed
    BY <1>types, <1>12, WidgetTypes DEF TypeChange
  <2>2. change' = [change EXCEPT !.text = fresh, !.typed = fresh] /\ UNCHANGED <<which, button, mount, asked, requests>>
    BY <1>12 DEF TypeChange
  <2> HIDE DEF fresh
  <2>3. /\ change' \in [open : BOOLEAN, text : 0 .. MaxRequests, typed : 0 .. MaxRequests]
        /\ change'.typed = fresh /\ change'.text = fresh
    BY <1>types, <2>1, <2>2, WidgetTypes
  <2>4. change'.typed >= change.typed /\ change'.text > change.typed /\ change'.text <= change'.typed
    BY <1>types, <2>1, <2>3, WidgetTypes
  <2> QED BY <2>2, <2>3, <2>4, Elsewhere
<1>13. ASSUME NEW n \in 1 .. MaxRequests, Handle(n) PROVE WidgetInv'
  BY <1>13, Handling
<1>14. CASE Remount
  BY <1>14, Remounting
<1>15. CASE UNCHANGED widgetVars
  <2>1. UNCHANGED <<which, button, mount, asked, requests, change>>
    BY <1>15 DEF widgetVars
  <2> QED BY <1>types, <2>1, Elsewhere, WidgetTypes
<1> QED
  BY <1>1, <1>2, <1>3, <1>4, <1>5, <1>6, <1>7, <1>8, <1>9, <1>10, <1>11, <1>12, <1>13, <1>14, <1>15
     DEF WidgetNext

(* Whatever clicks, retries, remounts and dialogs cross answers that may be *)
(* lost: what the backend does a second time for one button or one text, it *)
(* does because the answer to the first request was lost, and what a button *)
(* says was done was done (candidate-table.tsx 154-304,                     *)
(* request-change-dialog.tsx 23-50).                                        *)
THEOREM RequestsAreRepeatedForCause == WidgetSpec => []TwiceOnlyIfAnswerLost
<1>1. WidgetInv => TwiceOnlyIfAnswerLost
  <2> SUFFICES ASSUME WidgetInv PROVE TwiceOnlyIfAnswerLost
    OBVIOUS
  <2>1. AskedAgain /\ DoneIsDone
    BY DEF WidgetInv
  <2> QED BY <2>1 DEF TwiceOnlyIfAnswerLost, AskedAgain, DoneIsDone, OneShot
<1> QED BY <1>1, WidgetInitially, WidgetStep, PTL DEF WidgetSpec

-----------------------------------------------------------------------------
(* CandidateMailer.  Drafts are numbered as they are begun.  While no       *)
(* answer is lost, nobody has had the text in the dialog or on its way.     *)

Mailers == [loading : BOOLEAN, loadError : BOOLEAN, rows : SUBSET Candidates,
            status : [Candidates -> CandidateStatuses],
            typed : SUBSET Candidates, found : SUBSET Candidates,
            statusFilter : CandidateStatuses \union {"all"},
            page : Nat \ {0}, pageSize : PageSizes, selectedIds : SUBSET Candidates,
            audience : Audiences \union {"none"}, draft : Drafts \union {0},
            reading : SUBSET Files, attached : SUBSET Files,
            sending : [kind : Audiences, draft : Drafts, files : SUBSET Files, to : SUBSET Candidates]
                      \union {NoMail},
            sends : Nat]

DraftInDialog == mailer.draft # 0 => mailer.audience # "none"

BegunInOrder == \A d, e \in Drafts : e < d /\ written[d] # "none" => written[e] # "none"

SentOnceWritten == \A c \in Candidates, d \in Drafts : copies[c][d] > 0 => written[d] # "none"

UnsentYet == ~lost => \A c \in Candidates : /\ mailer.draft # 0 => copies[c][mailer.draft] = 0
                                            /\ mailer.sending # NoMail => copies[c][mailer.sending.draft] = 0

MailerInv ==
    /\ MailerTypeOK /\ DraftGoesToItsAudience /\ DraftInDialog
    /\ BegunInOrder /\ SentOnceWritten /\ UnsentYet /\ OneCopyUnlessAnswerLost

LEMMA MailersTyped == MailerTypeOK => mailer \in Mailers
BY Zenon DEF MailerTypeOK, Mailers

LEMMA MailerInitially == MailerInit => MailerInv
<1> SUFFICES ASSUME MailerInit PROVE MailerInv
  OBVIOUS
<1> DEFINE least == CHOOSE n \in PageSizes : \A m \in PageSizes : n <= m
<1>1. least \in PageSizes
  BY MailerAssumption, Smallest
<1>3. mailer \in Mailers /\ mailer.draft = 0 /\ mailer.sending = NoMail
  BY <1>1 DEF MailerInit, NewMailer, Mailers, CandidateStatuses
<1>4. standing \in [Candidates -> CandidateStatuses]
  BY DEF MailerInit, CandidateStatuses
<1>5. copies \in [Candidates -> [Drafts -> Nat]] /\ \A c \in Candidates, d \in Drafts : copies[c][d] = 0
  BY DEF MailerInit
<1>6. written \in [Drafts -> Audiences \union {"none"}] /\ \A d \in Drafts : written[d] = "none"
  BY DEF MailerInit
<1>7. lost \in BOOLEAN
  BY Zenon DEF MailerInit
<1>8. MailerTypeOK
  BY <1>3, <1>4, <1>5, <1>6, <1>7, Zenon DEF MailerTypeOK, Mailers
<1>9. /\ DraftGoesToItsAudience /\ DraftInDialog /\ BegunInOrder /\ SentOnceWritten
      /\ UnsentYet /\ OneCopyUnlessAnswerLost
  BY <1>3, <1>5, <1>6 DEF DraftGoesToItsAudience, DraftInDialog, BegunInOrder, SentOnceWritten, UnsentYet, OneCopyUnlessAnswerLost
<1> QED BY <1>8, <1>9 DEF MailerInv

-----------------------------------------------------------------------------
(* Drafts: the next one is the first that was not begun.                    *)

LEMMA NextDraft ==
    ASSUME BegunInOrder, NEW d \in Drafts, d = 1 + Cardinality({e \in Drafts : written[e] # "none"})
    PROVE  written[d] = "none" /\ \A e \in Drafts : e < d => written[e] # "none"
<1> DEFINE W == {e \in Drafts : written[e] # "none"}
<1>0. MaxDrafts \in Nat /\ d \in Nat /\ \A e \in Drafts : e \in Nat /\ e >= 1 /\ e <= MaxDrafts
  BY MailerAssumption DEF Drafts
<1>1. IsFiniteSet(1 .. MaxDrafts) /\ W \in SUBSET (1 .. MaxDrafts)
  BY <1>0, FS_Interval DEF Drafts
<1>2. IsFiniteSet(W) /\ Cardinality(W) \in Nat
  BY <1>1, FS_Subset, FS_CardinalityType
<1>3. d = 1 + Cardinality(W)
  OBVIOUS
<1>4. ASSUME d \in W PROVE FALSE
  <2>1. 1 .. d \in SUBSET W
    BY <1>0, <1>4 DEF BegunInOrder, Drafts
  <2>2. Cardinality(1 .. d) <= Cardinality(W)
    BY <1>2, <2>1, FS_Subset
  <2>3. Cardinality(1 .. d) = d
    BY <1>0, OneTo
  <2> QED BY <1>0, <1>2, <2>2, <2>3
<1>5. ASSUME NEW e \in Drafts, e < d, e \notin W PROVE FALSE
  <2> DEFINE below == e - 1
  <2>1. below \in Nat /\ d > below + 1
    BY <1>0, <1>5
  <2>2. \A f \in W : f \in Nat /\ f >= 1 /\ f <= below
    BY <1>0, <1>5 DEF BegunInOrder
  <2> HIDE DEF below, W
  <2>3. W \in SUBSET (1 .. below)
    BY <2>1, <2>2
  <2>4. IsFiniteSet(1 .. below) /\ Cardinality(1 .. below) = below
    BY <2>1, OneTo
  <2>5. Cardinality(W) <= below
    BY <2>3, <2>4, FS_Subset
  <2> QED BY <1>0, <1>2, <1>3, <2>1, <2>5
<1> QED BY <1>4, <1>5

-----------------------------------------------------------------------------
(* The list behind the dialog.                                              *)

\* The dialog's part of what the section keeps.
DialogKept == /\ mailer'.audience = mailer.audience /\ mailer'.draft = mailer.draft
              /\ mailer'.sending = mailer.sending

LEMMA DialogKeptKeeps ==
    ASSUME MailerInv, mailer' \in Mailers, DialogKept, UNCHANGED <<standing, copies, written, lost>>
    PROVE  MailerInv'
<1>1. MailerTypeOK'
  BY Zenon DEF MailerInv, MailerTypeOK, Mailers, Drafts, Candidates
<1>2. /\ DraftGoesToItsAudience' /\ DraftInDialog' /\ BegunInOrder' /\ SentOnceWritten'
      /\ UnsentYet' /\ OneCopyUnlessAnswerLost'
  BY Zenon DEF MailerInv, DialogKept, DraftGoesToItsAudience, DraftInDialog, BegunInOrder, SentOnceWritten, UnsentYet, OneCopyUnlessAnswerLost
<1> QED BY <1>1, <1>2 DEF MailerInv

LEMMA CountsPages ==
    ASSUME mailer \in Mailers
    PROVE  totalPages \in Nat \ {0}
<1> DEFINE n == Cardinality(filteredCandidates)
<1>1. mailer.pageSize \in Nat \ {0}
  BY MailerAssumption DEF Mailers
<1>2. filteredCandidates \in SUBSET Candidates /\ IsFiniteSet(Candidates)
  BY MailerAssumption, FS_Interval DEF filteredCandidates, Mailers, Candidates
<1>3. n \in Nat
  BY <1>2, FS_Subset, FS_CardinalityType
<1> HIDE DEF n
<1>4. ASSUME NEW p \in Nat \ {0}, n # 0 PROVE (n + p - 1) \div p \in Nat \ {0}
  BY <1>3, <1>4
<1>5. totalPages = IF n = 0 THEN 1 ELSE (n + mailer.pageSize - 1) \div mailer.pageSize
  BY DEF totalPages, n
<1> QED BY <1>1, <1>3, <1>4, <1>5

LEMMA ListStepKeeps ==
    ASSUME MailerInv, ListStep
    PROVE  MailerInv'
<1>0. mailer \in Mailers /\ standing \in [Candidates -> CandidateStatuses]
  BY MailersTyped DEF MailerInv, MailerTypeOK
<1> USE DEF DialogKept
<1>1. CASE LoadSucceeds
  <2>1. mailer' \in Mailers /\ DialogKept /\ UNCHANGED <<standing, copies, written, lost>>
    BY <1>0, <1>1 DEF LoadSucceeds, Mailers
  <2> QED BY <2>1, DialogKeptKeeps
<1>2. CASE LoadFails
  <2>1. mailer' \in Mailers /\ DialogKept /\ UNCHANGED <<standing, copies, written, lost>>
    BY <1>0, <1>2 DEF LoadFails, Mailers
  <2> QED BY <2>1, DialogKeptKeeps
<1>3. CASE retryLoad
  <2>1. mailer' \in Mailers /\ DialogKept /\ UNCHANGED <<standing, copies, written, lost>>
    BY <1>0, <1>3 DEF retryLoad, Mailers
  <2> QED BY <2>1, DialogKeptKeeps
<1>4. CASE Debounced
  <2>1. mailer' \in Mailers /\ DialogKept /\ UNCHANGED <<standing, copies, written, lost>>
    BY <1>0, <1>4 DEF Debounced, Mailers
  <2> QED BY <2>1, DialogKeptKeeps
<1>5. ASSUME NEW found \in {Candidates, Candidates \intersect {1}}, Search(found) PROVE MailerInv'
  <2>1. found \in SUBSET Candidates
    OBVIOUS
  <2>0. 1 \in Nat \ {0}
    OBVIOUS
  <2>2. mailer' \in Mailers /\ DialogKept /\ UNCHANGED <<standing, copies, written, lost>>
    BY <1>0, <1>5, <2>1, <2>0 DEF Search, Mailers
  <2> QED BY <2>2, DialogKeptKeeps
<1>6. ASSUME NEW s \in {"all", "shortlisted"}, SetStatus(s) PROVE MailerInv'
  <2>0. 1 \in Nat \ {0}
    OBVIOUS
  <2>1. mailer' \in Mailers /\ DialogKept /\ UNCHANGED <<standing, copies, written, lost>>
    BY <1>0, <1>6, <2>0 DEF SetStatus, Mailers, CandidateStatuses
  <2> QED BY <2>1, DialogKeptKeeps
<1>7. ASSUME NEW n \in PageSizes, SetPageSize(n) PROVE MailerInv'
  <2>0. 1 \in Nat \ {0}
    OBVIOUS
  <2>1. mailer' \in Mailers /\ DialogKept /\ UNCHANGED <<standing, copies, written, lost>>
    BY <1>0, <1>7, <2>0 DEF SetPageSize, Mailers
  <2> QED BY <2>1, DialogKeptKeeps
<1>8. CASE PreviousPage
  <2>1. mailer' \in Mailers /\ DialogKept /\ UNCHANGED <<standing, copies, written, lost>>
    BY <1>0, <1>8 DEF PreviousPage, Mailers
  <2> QED BY <2>1, DialogKeptKeeps
<1>9. CASE NextPage
  <2>1. mailer' \in Mailers /\ DialogKept /\ UNCHANGED <<standing, copies, written, lost>>
    BY <1>0, <1>9, CountsPages DEF NextPage, Mailers
  <2> QED BY <2>1, DialogKeptKeeps
<1>10. ASSUME NEW c \in Candidates, toggleOne(c) PROVE MailerInv'
  <2>1. mailer' \in Mailers /\ DialogKept /\ UNCHANGED <<standing, copies, written, lost>>
    BY <1>0, <1>10 DEF toggleOne, Mailers
  <2> QED BY <2>1, DialogKeptKeeps
<1>11. CASE toggleAllOnPage
  <2>1. pagedCandidates \subseteq Candidates
    BY <1>0 DEF pagedCandidates, filteredCandidates, Mailers
  <2>2. mailer' \in Mailers /\ DialogKept /\ UNCHANGED <<standing, copies, written, lost>>
    BY <1>0, <1>11, <2>1 DEF toggleAllOnPage, Mailers
  <2> QED BY <2>2, DialogKeptKeeps
<1>12. CASE ClearSelection
  <2>1. mailer' \in Mailers /\ DialogKept /\ UNCHANGED <<standing, copies, written, lost>>
    BY <1>0, <1>12 DEF ClearSelection, Mailers
  <2> QED BY <2>1, DialogKeptKeeps
<1> QED BY <1>1, <1>2, <1>3, <1>4, <1>5, <1>6, <1>7, <1>8, <1>9, <1>10, <1>11, <1>12 DEF ListStep

-----------------------------------------------------------------------------
(* The dialog.                                                              *)

\* What the mails' part of the invariant says of a draft.
LEMMA DialogKeeps ==
    ASSUME MailerInv, mailer' \in Mailers, DraftGoesToItsAudience', DraftInDialog', UnsentYet',
           UNCHANGED <<standing, copies, written, lost>>
    PROVE  MailerInv'
<1>1. MailerTypeOK'
  BY Zenon DEF MailerInv, MailerTypeOK, Mailers, Drafts, Candidates
<1>2. BegunInOrder' /\ SentOnceWritten' /\ OneCopyUnlessAnswerLost'
  BY Zenon DEF MailerInv, BegunInOrder, SentOnceWritten, OneCopyUnlessAnswerLost
<1> QED BY <1>1, <1>2 DEF MailerInv

LEMMA TypeKeeps ==
    ASSUME MailerInv, NEW d \in Drafts, Type(d)
    PROVE  MailerInv'
<1>0. mailer \in Mailers /\ copies \in [Candidates -> [Drafts -> Nat]]
      /\ written \in [Drafts -> Audiences \union {"none"}]
  BY MailersTyped DEF MailerInv, MailerTypeOK
<1>1. written[d] = "none" /\ \A e \in Drafts : e < d => written[e] # "none"
  BY NextDraft DEF MailerInv, Type
<1>2. /\ mailer' = [mailer EXCEPT !.draft = d] /\ UNCHANGED <<standing, copies, lost>>
      /\ written' = [written EXCEPT ![d] = mailer.audience] /\ mailer.audience # "none"
  BY DEF Type
<1>3. mailer' \in Mailers /\ written' \in [Drafts -> Audiences \union {"none"}]
  BY <1>0, <1>2 DEF Mailers
<1>4. MailerTypeOK'
  BY <1>2, <1>3, Zenon DEF MailerInv, MailerTypeOK, Mailers, Drafts, Candidates
<1>5. \A e \in Drafts : written'[e] = IF e = d THEN mailer.audience ELSE written[e]
  BY <1>0, <1>2
<1>6. /\ mailer'.draft = d /\ mailer'.audience = mailer.audience /\ mailer'.sending = mailer.sending
      /\ mailer.sending # NoMail => mailer.sending.draft \in Drafts
  BY <1>0, <1>2 DEF Mailers
<1>7. DraftGoesToItsAudience'
  <2>1. mailer.sending # NoMail => mailer.sending.draft # d
    BY <1>0, <1>1 DEF MailerInv, DraftGoesToItsAudience, Mailers, Audiences
  <2> QED BY <1>5, <1>6, <2>1 DEF MailerInv, DraftGoesToItsAudience
<1>7a. DraftInDialog'
  BY <1>2, <1>6 DEF DraftInDialog
<1>8. BegunInOrder'
  <2> SUFFICES ASSUME NEW e \in Drafts, NEW f \in Drafts, f < e, written'[e] # "none" PROVE written'[f] # "none"
    BY DEF BegunInOrder
  <2> QED BY <1>1, <1>2, <1>5 DEF MailerInv, BegunInOrder
<1>9. SentOnceWritten' /\ OneCopyUnlessAnswerLost'
  BY <1>2, <1>5 DEF MailerInv, SentOnceWritten, OneCopyUnlessAnswerLost
<1>10. UnsentYet'
  <2>1. \A c \in Candidates : copies[c][d] = 0
    BY <1>0, <1>1 DEF MailerInv, SentOnceWritten
  <2> QED BY <1>2, <1>6, <2>1 DEF MailerInv, UnsentYet
<1> QED BY <1>4, <1>7, <1>7a, <1>8, <1>9, <1>10 DEF MailerInv

LEMMA DialogStepKeeps ==
    ASSUME MailerInv, DialogStep
    PROVE  MailerInv'
<1>0. mailer \in Mailers
  BY MailersTyped DEF MailerInv
<1>1. DraftGoesToItsAudience /\ DraftInDialog /\ UnsentYet
  BY DEF MailerInv
<1>2. ASSUME NEW kind \in Audiences, openModal(kind) PROVE MailerInv'
  <2>1. mailer' \in Mailers /\ UNCHANGED <<standing, copies, written, lost>>
    BY <1>0, <1>2 DEF openModal, Mailers
  <2>2. mailer'.draft = mailer.draft /\ mailer'.sending = mailer.sending /\ mailer'.audience = kind
    BY <1>0, <1>2 DEF openModal, Mailers
  <2>3. mailer.audience = "none"
    BY <1>2 DEF openModal
  <2>4. mailer.draft = 0
    BY <1>1, <2>3 DEF DraftInDialog
  <2>5. DraftGoesToItsAudience' /\ DraftInDialog' /\ UnsentYet'
    BY <1>1, <2>1, <2>2, <2>4 DEF DraftGoesToItsAudience, DraftInDialog, UnsentYet
  <2> QED BY <2>1, <2>5, DialogKeeps
<1>3. CASE closeModal
  <2>1. mailer' \in Mailers /\ UNCHANGED <<standing, copies, written, lost>>
    BY <1>0, <1>3 DEF closeModal, resetEmailComposer, Mailers
  <2>2. mailer'.draft = 0 /\ mailer'.sending = mailer.sending
    BY <1>0, <1>3 DEF closeModal, resetEmailComposer, Mailers
  <2>3. DraftGoesToItsAudience' /\ DraftInDialog' /\ UnsentYet'
    BY <1>1, <2>1, <2>2 DEF DraftGoesToItsAudience, DraftInDialog, UnsentYet
  <2> QED BY <2>1, <2>3, DialogKeeps
<1>4. ASSUME NEW d \in Drafts, Type(d) PROVE MailerInv'
  BY <1>4, TypeKeeps
<1>5. ASSUME NEW f \in Files, addAttachments(f) PROVE MailerInv'
  <2>1. mailer' \in Mailers /\ DialogKept /\ UNCHANGED <<standing, copies, written, lost>>
    BY <1>0, <1>5 DEF addAttachments, Mailers, DialogKept
  <2> QED BY <2>1, DialogKeptKeeps
<1>6. ASSUME NEW f \in Files, AttachmentsRead(f) PROVE MailerInv'
  <2>1. mailer' \in Mailers /\ DialogKept /\ UNCHANGED <<standing, copies, written, lost>>
    <3>1. CASE mailer' = [mailer EXCEPT !.reading = @ \ {f}, !.attached = @ \union {f}]
      BY <1>0, <1>6, <3>1 DEF AttachmentsRead, Mailers, DialogKept
    <3>2. CASE mailer' = [mailer EXCEPT !.reading = @ \ {f}]
      BY <1>0, <1>6, <3>2 DEF AttachmentsRead, Mailers, DialogKept
    <3> QED BY <1>6, <3>1, <3>2 DEF AttachmentsRead
  <2> QED BY <2>1, DialogKeptKeeps
<1>7. ASSUME NEW f \in Files, RemoveAttachment(f) PROVE MailerInv'
  <2>1. mailer' \in Mailers /\ DialogKept /\ UNCHANGED <<standing, copies, written, lost>>
    BY <1>0, <1>7 DEF RemoveAttachment, Mailers, DialogKept
  <2> QED BY <2>1, DialogKeptKeeps
<1>8. CASE sendBulk
  <2> DEFINE mail == [kind |-> mailer.audience, draft |-> mailer.draft, files |-> mailer.attached,
                      to |-> recipientsByAudience(mailer.audience)]
  <2>1. mailer.audience \in Audiences /\ mailer.draft \in Drafts /\ mailer.attached \in SUBSET Files
    BY <1>0, <1>8 DEF sendBulk, sendDisabled, Mailers
  <2>2. recipientsByAudience(mailer.audience) \in SUBSET Candidates
    BY <1>0, <2>1 DEF recipientsByAudience, Mailers, Audiences
  <2>3. /\ mail \in [kind : Audiences, draft : Drafts, files : SUBSET Files, to : SUBSET Candidates]
        /\ mail.kind = mailer.audience /\ mail.draft = mailer.draft
    BY <2>1, <2>2
  <2> DEFINE n == mailer.sends + 1
  <2>4. /\ mailer' = [mailer EXCEPT !.sends = n, !.sending = mail]
        /\ UNCHANGED <<standing, copies, written, lost>>
    BY <1>8 DEF sendBulk
  <2>n. n \in Nat
    BY <1>0 DEF Mailers
  <2> HIDE DEF mail, n
  <2>5. mailer' \in Mailers
    BY <1>0, <2>3, <2>4, <2>n DEF Mailers
  <2>6. mailer'.sending = mail /\ mailer'.draft = mailer.draft /\ mailer'.audience = mailer.audience
    BY <1>0, <2>4 DEF Mailers
  <2>7. mailer.draft # 0
    BY <1>8 DEF sendBulk, sendDisabled
  <2>8. DraftGoesToItsAudience' /\ DraftInDialog' /\ UnsentYet'
    BY <1>1, <2>3, <2>4, <2>6, <2>7 DEF DraftGoesToItsAudience, DraftInDialog, UnsentYet
  <2> QED BY <2>4, <2>5, <2>8, DialogKeeps
<1> QED BY <1>2, <1>3, <1>4, <1>5, <1>6, <1>7, <1>8 DEF DialogStep

-----------------------------------------------------------------------------
(* The answer to a mail.                                                    *)

LEMMA DeliverKeeps ==
    ASSUME MailerInv, mailer.sending # NoMail, NEW reached \in SUBSET mailer.sending.to, Deliver(reached),
           UNCHANGED <<standing, written>>
    PROVE  /\ copies' \in [Candidates -> [Drafts -> Nat]]
           /\ SentOnceWritten'
           /\ ~lost => \A c \in Candidates, d \in Drafts : ~(copies'[c][d] > 1)
<1> DEFINE d == mailer.sending.draft
<1>0. mailer \in Mailers /\ copies \in [Candidates -> [Drafts -> Nat]]
  BY MailersTyped DEF MailerInv, MailerTypeOK
<1>1. d \in Drafts /\ mailer.sending.kind \in Audiences /\ written[d] # "none"
  BY <1>0 DEF MailerInv, DraftGoesToItsAudience, Mailers, Audiences
<1>2. ~lost => \A c \in Candidates : copies[c][d] = 0
  BY DEF MailerInv, UnsentYet
<1> HIDE DEF d
<1>3. copies' = [c \in Candidates |-> IF c \in reached THEN [copies[c] EXCEPT ![d] = @ + 1] ELSE copies[c]]
  BY DEF Deliver, d
<1>4. copies' \in [Candidates -> [Drafts -> Nat]]
  BY <1>0, <1>1, <1>3
<1>5. \A c \in Candidates, e \in Drafts :
         copies'[c][e] = IF c \in reached /\ e = d THEN copies[c][e] + 1 ELSE copies[c][e]
  BY <1>0, <1>1, <1>3
<1>6. SentOnceWritten'
  BY <1>0, <1>1, <1>5 DEF MailerInv, SentOnceWritten
<1>7. ~lost => \A c \in Candidates, e \in Drafts : ~(copies'[c][e] > 1)
  BY <1>0, <1>2, <1>5 DEF MailerInv, OneCopyUnlessAnswerLost
<1> QED BY <1>4, <1>6, <1>7

LEMMA AnswerKeeps ==
    ASSUME MailerInv, MailAnswer
    PROVE  MailerInv'
<1>0. mailer \in Mailers /\ standing \in [Candidates -> CandidateStatuses]
      /\ written \in [Drafts -> Audiences \union {"none"}] /\ lost \in BOOLEAN
      /\ copies \in [Candidates -> [Drafts -> Nat]]
  BY MailersTyped DEF MailerInv, MailerTypeOK
<1>1. BegunInOrder /\ DraftGoesToItsAudience /\ DraftInDialog /\ UnsentYet
  BY DEF MailerInv
<1>2. ASSUME NEW reached \in SUBSET mailer.sending.to, BulkSent(reached) PROVE MailerInv'
  <2>1. mailer' \in Mailers /\ mailer'.draft = 0 /\ mailer'.sending = NoMail
    BY <1>0, <1>2 DEF BulkSent, resetEmailComposer, Mailers
  <2>2. mailer.sending # NoMail /\ Deliver(reached) /\ UNCHANGED <<standing, written, lost>>
    BY <1>2 DEF BulkSent
  <2>3. MailerTypeOK'
    BY <1>0, <2>1, <2>2, DeliverKeeps, Zenon DEF MailerTypeOK, Mailers, Drafts, Candidates
  <2>4. SentOnceWritten' /\ OneCopyUnlessAnswerLost'
    BY <2>2, DeliverKeeps DEF OneCopyUnlessAnswerLost
  <2>5. BegunInOrder' /\ DraftGoesToItsAudience' /\ DraftInDialog' /\ UnsentYet'
    BY <1>1, <2>1, <2>2 DEF BegunInOrder, DraftGoesToItsAudience, DraftInDialog, UnsentYet
  <2> QED BY <2>3, <2>4, <2>5 DEF MailerInv
<1>3. ASSUME NEW reached \in SUBSET mailer.sending.to, BulkAnswerLost(reached) PROVE MailerInv'
  <2>1. /\ mailer' \in Mailers /\ mailer'.draft = mailer.draft /\ mailer'.sending = NoMail
        /\ mailer'.audience = mailer.audience
    BY <1>0, <1>3 DEF BulkAnswerLost, Mailers
  <2>2. mailer.sending # NoMail /\ Deliver(reached) /\ UNCHANGED <<standing, written>> /\ lost'
    BY <1>3 DEF BulkAnswerLost
  <2>3. lost' \in BOOLEAN
    BY <1>3, Zenon DEF BulkAnswerLost
  <2>4. MailerTypeOK'
    BY <1>0, <2>1, <2>2, <2>3, DeliverKeeps, Zenon DEF MailerTypeOK, Mailers, Drafts, Candidates
  <2>5. SentOnceWritten' /\ OneCopyUnlessAnswerLost'
    BY <2>2, DeliverKeeps DEF OneCopyUnlessAnswerLost
  <2>6. BegunInOrder' /\ DraftGoesToItsAudience' /\ DraftInDialog' /\ UnsentYet'
    BY <1>1, <2>1, <2>2 DEF BegunInOrder, DraftGoesToItsAudience, DraftInDialog, UnsentYet
  <2> QED BY <2>4, <2>5, <2>6 DEF MailerInv
<1>4. CASE BulkFailed
  <2>1. mailer' \in Mailers /\ mailer'.draft = mailer.draft /\ mailer'.sending = NoMail
        /\ mailer'.audience = mailer.audience /\ UNCHANGED <<standing, copies, written, lost>>
    BY <1>0, <1>4 DEF BulkFailed, Mailers
  <2>2. DraftGoesToItsAudience' /\ DraftInDialog' /\ UnsentYet'
    BY <1>1, <2>1 DEF DraftGoesToItsAudience, DraftInDialog, UnsentYet
  <2> QED BY <2>1, <2>2, DialogKeeps
<1> QED BY <1>2, <1>3, <1>4 DEF MailAnswer

LEMMA MailerStep == MailerInv /\ [MailerNext]_mailerVars => MailerInv'
<1> SUFFICES ASSUME MailerInv, [MailerNext]_mailerVars PROVE MailerInv'
  OBVIOUS
<1>1. CASE ListStep
  BY <1>1, ListStepKeeps
<1>2. CASE Debounced
  BY <1>2, ListStepKeeps DEF ListStep
<1>3. CASE DialogStep
  BY <1>3, DialogStepKeeps
<1>4. CASE MailAnswer
  BY <1>4, AnswerKeeps
<1>5. ASSUME NEW c \in Candidates, Decided(c) PROVE MailerInv'
  <2>1. standing' \in [Candidates -> CandidateStatuses] /\ UNCHANGED <<copies, written, lost, mailer>>
    BY <1>5 DEF Decided, MailerInv, MailerTypeOK
  <2>2. MailerTypeOK'
    BY <2>1, Zenon DEF MailerInv, MailerTypeOK, Candidates, Drafts
  <2> QED BY <2>1, <2>2 DEF MailerInv, DraftGoesToItsAudience, DraftInDialog, BegunInOrder, SentOnceWritten, UnsentYet,
                            OneCopyUnlessAnswerLost
<1>6. CASE UNCHANGED mailerVars
  <2>1. UNCHANGED <<standing, copies, written, lost, mailer>>
    BY <1>6 DEF mailerVars
  <2>2. MailerTypeOK'
    BY <2>1, Zenon DEF MailerInv, MailerTypeOK, Candidates, Drafts
  <2> QED BY <2>1, <2>2 DEF MailerInv, DraftGoesToItsAudience, DraftInDialog, BegunInOrder, SentOnceWritten, UnsentYet,
                            OneCopyUnlessAnswerLost
<1> QED BY <1>1, <1>2, <1>3, <1>4, <1>5, <1>6 DEF MailerNext

LEMMA MailerInvariant == MailerSpec => []MailerInv
BY MailerInitially, MailerStep, PTL DEF MailerSpec

(* A text is only ever sent to the audience it was typed for, however its   *)
(* dialog is dismissed and reopened while the mails are under way.          *)
THEOREM MailsReachTheirAudience == MailerSpec => []DraftGoesToItsAudience
<1>1. MailerInv => DraftGoesToItsAudience
  BY DEF MailerInv
<1> QED BY <1>1, MailerInvariant, PTL

(* No candidate has one text twice, unless the answer to a request was      *)
(* lost: a text is emptied as soon as somebody is known to have had it.     *)
THEOREM MailsAreSentOnce == MailerSpec => []OneCopyUnlessAnswerLost
<1>1. MailerInv => OneCopyUnlessAnswerLost
  BY DEF MailerInv
<1> QED BY <1>1, MailerInvariant, PTL

-----------------------------------------------------------------------------
(* CandidateTable.  Every row that the page or an answer has is a row that  *)
(* the database had, and a row that was written since is on its way.        *)

TableEvents == [kind : {"INSERT", "UPDATE"}, app : Apps]
TableFetches == [kind : {"INSERT", "UPDATE"}, app : Apps, row : TableRow]
Rows == [Apps -> TableRow \union {NoRow}]
Bulks == [action : BulkActions \union {"none"}, todo : SUBSET Apps, rows : Rows, at : Apps \union {"next", "mail"}]

\* r is the row of application a as it is or as it was.
Behind(r, a) == r # NoRow => db[a] # NoRow /\ r.ver <= db[a].ver /\ (r.ver = db[a].ver => r = db[a])

Known ==
    /\ \A a \in rowSelection \union bulk.todo : db[a] # NoRow
    /\ \A i \in DOMAIN feed : db[feed[i].app] # NoRow
    /\ rowSelection # {} \/ bulk.action # "none" => tablePage # "none" /\ ~readOnly

RowsBehind ==
    /\ \A a \in Apps : Behind(data[a], a) /\ Behind(bulk.rows[a], a)
    /\ \A f \in fetches : Behind(f.row, f.app)

\* An application is new once, and before its row has come it is not shown.
InsertOnce ==
    /\ \A i, j \in DOMAIN feed :
          feed[i].kind = "INSERT" /\ feed[j].kind = "INSERT" /\ feed[i].app = feed[j].app => i = j
    /\ \A i \in DOMAIN feed, f \in fetches : feed[i].kind = "INSERT" /\ f.kind = "INSERT" => feed[i].app # f.app
    /\ \A f, g \in fetches : f.kind = "INSERT" /\ g.kind = "INSERT" /\ f.app = g.app => f = g
    /\ \A i \in DOMAIN feed : feed[i].kind = "INSERT" => data[feed[i].app] = NoRow
    /\ \A f \in fetches : f.kind = "INSERT" => data[f.app] = NoRow

ClosedIsEmpty == tablePage = "none" => feed = <<>> /\ fetches = {} /\ \A a \in Apps : data[a] = NoRow

Followed(a) == tablePage # "none" /\ ~readOnly /\ InScope(tablePage, a)

ShownOrComing ==
    \A a \in Apps : Followed(a) /\ a \notin raced =>
        \/ data[a] = db[a]
        \/ \E i \in DOMAIN feed : feed[i].app = a
        \/ \E f \in fetches : f.app = a /\ f.row = db[a]

\* The variables' types, but for the filters'.
TableTyped ==
    /\ db \in Rows /\ tablePage \in JobIds \union {"all", "none"} /\ readOnly \in BOOLEAN /\ live \in BOOLEAN
    /\ data \in Rows /\ feed \in Seq(TableEvents) /\ fetches \in SUBSET TableFetches /\ raced \in SUBSET Apps
    /\ rowSelection \in SUBSET Apps /\ bulk \in Bulks

Filtered == jobFilter \in JobIds \union {"all"} /\ statusFilter \in Filters /\ globalFilter \in Searches

Counted == moves \in Nat /\ bulks \in Nat

TableInv ==
    /\ TableTyped /\ Filtered /\ Counted /\ Known /\ ClosedIsEmpty
    /\ RowsBehind /\ InsertOnce /\ ShownOrComing

LEMMA TableTypes == TableTypeOK <=> TableTyped /\ Filtered /\ Counted
BY Zenon DEF TableTypeOK, TableTyped, Filtered, Counted, Rows, Bulks, TableEvents, TableFetches

LEMMA TableRows ==
    /\ NoRow \notin TableRow
    /\ \A r \in TableRow : r.status \in Statuses /\ r.ver \in Nat /\ r = [status |-> r.status, ver |-> r.ver]
BY NoRowAssumption DEF TableRow

LEMMA EmptyFeed == <<>> \in Seq(TableEvents) /\ DOMAIN <<>> = {}
OBVIOUS

LEMMA NoBulkTyped == NoBulk \in Bulks /\ NoBulk.todo = {} /\ NoBulk.action = "none"
                     /\ \A a \in Apps : NoBulk.rows[a] = NoRow
BY DEF NoBulk, Bulks, Rows

LEMMA TableInitially == TableInit => TableInv
<1> SUFFICES ASSUME TableInit PROVE TableInv
  OBVIOUS
<1>1. db \in Rows
  <2>1. [status : Statuses, ver : {0}] \subseteq TableRow
    BY DEF TableRow
  <2> QED BY <2>1, StartAssumption DEF TableInit, Rows
<1>2. TableTyped
  <2>1. readOnly \in BOOLEAN /\ live \in BOOLEAN
    BY Zenon DEF TableInit
  <2>2. data \in Rows /\ tablePage \in JobIds \union {"all", "none"} /\ fetches \in SUBSET TableFetches
        /\ raced \in SUBSET Apps /\ rowSelection \in SUBSET Apps
    BY DEF TableInit, Rows
  <2> QED BY <1>1, <2>1, <2>2, NoBulkTyped, EmptyFeed DEF TableInit, TableTyped
<1>3. Filtered /\ Counted
  BY FiltersAssumption, SearchesAssumption DEF TableInit, Filtered, Counted
<1>4. Known /\ ClosedIsEmpty /\ RowsBehind
  BY NoBulkTyped, EmptyFeed DEF TableInit, Known, ClosedIsEmpty, RowsBehind, Behind
<1>5. InsertOnce /\ ShownOrComing
  BY EmptyFeed DEF TableInit, InsertOnce, ShownOrComing, Followed
<1> QED BY <1>2, <1>3, <1>4, <1>5 DEF TableInv

-----------------------------------------------------------------------------
(* Pages.                                                                   *)

LEMMA FreshKeeps ==
    ASSUME TableInv, NEW p \in JobIds \union {"all", "none"}, Fresh(p), readOnly' \in BOOLEAN,
           UNCHANGED <<applicationsTable, bulks>>
    PROVE  TableInv'
<1>0. TableTyped /\ Counted
  BY DEF TableInv
<1>1. data' = [a \in Apps |-> IF InScope(p, a) THEN db[a] ELSE NoRow] /\ UNCHANGED db
  BY DEF Fresh, applicationsTable
<1>2. TableTyped'
  <2>1. data' \in Rows
    BY <1>0, <1>1 DEF TableTyped, Rows
  <2>2. live' \in BOOLEAN
    BY Zenon DEF Fresh
  <2>3. UNCHANGED db /\ tablePage' = p /\ feed' = <<>> /\ fetches' = {} /\ raced' = {} /\ rowSelection' = {}
        /\ bulk' = NoBulk
    BY DEF Fresh, applicationsTable
  <2> QED BY <1>0, <2>1, <2>2, <2>3, NoBulkTyped, EmptyFeed, Zenon DEF TableTyped, Rows, Bulks, TableEvents, TableFetches, TableRow
<1>3. Filtered' /\ Counted'
  BY <1>0, FiltersAssumption, SearchesAssumption DEF Fresh, Filtered, Counted, applicationsTable
<1>4. Known' /\ ClosedIsEmpty'
  <2>1. \A a \in Apps : ~InScope("none", a)
    BY PagesAssumption, JobOfAssumption DEF InScope
  <2> QED BY <2>1, NoBulkTyped, EmptyFeed DEF Fresh, Known, ClosedIsEmpty
<1>5. RowsBehind'
  BY <1>0, <1>1, NoBulkTyped, TableRows DEF Fresh, RowsBehind, Behind, TableTyped, Rows
<1>6. InsertOnce'
  BY EmptyFeed DEF Fresh, InsertOnce
<1>7. ShownOrComing'
  BY <1>1 DEF Fresh, ShownOrComing, Followed, InScope
<1> QED BY <1>2, <1>3, <1>4, <1>5, <1>6, <1>7 DEF TableInv

LEMMA PagesKeep ==
    ASSUME TableInv, Pages
    PROVE  TableInv'
<1>1. ASSUME NEW j \in JobIds, OpenJob(j) \/ OpenClient(j) PROVE TableInv'
  <2>1. Fresh(j) /\ UNCHANGED <<applicationsTable, bulks>> /\ readOnly' \in BOOLEAN
    BY <1>1, Zenon DEF OpenJob, OpenClient
  <2> QED BY <2>1, FreshKeeps
<1>2. CASE OpenAll \/ CloseTab
  <2>1. (Fresh("all") \/ Fresh("none")) /\ UNCHANGED <<applicationsTable, bulks>> /\ readOnly' \in BOOLEAN
    BY <1>2, Zenon DEF OpenAll, CloseTab
  <2> QED BY <2>1, FreshKeeps
<1> QED BY <1>1, <1>2 DEF Pages

-----------------------------------------------------------------------------
(* Writes.  Those of the applications as are written; the events of those   *)
(* that the page follows are put on the feed, or their refresh is missed.   *)

RowsWritten(as) ==
    /\ db' \in Rows
    /\ \A a \in Apps : a \notin as => db'[a] = db[a]
    /\ \A a \in as : /\ db'[a] # NoRow
                     /\ db[a] # NoRow => db'[a].ver = db[a].ver + 1
    /\ feed' \in Seq(TableEvents) /\ raced' \in SUBSET Apps /\ raced \subseteq raced'
    /\ \A i \in DOMAIN feed : i \in DOMAIN feed' /\ feed'[i] = feed[i]
    /\ \A i \in DOMAIN feed' \ DOMAIN feed : feed'[i].app \in as
    /\ \A a \in as : Followed(a) => a \in raced' \/ \E i \in DOMAIN feed' : feed'[i].app = a

\* Only a new application's event says INSERT.
Announced == \A i, j \in DOMAIN feed' \ DOMAIN feed :
                 feed'[i].kind = "INSERT" => i = j /\ db[feed'[i].app] = NoRow

LEMMA BehindKept ==
    ASSUME db \in Rows, NEW as \in SUBSET Apps, RowsWritten(as), NEW a \in Apps, NEW r \in TableRow \union {NoRow},
           Behind(r, a)
    PROVE  Behind(r, a)'
<1>1. CASE r = NoRow
  BY <1>1 DEF Behind
<1>2. CASE r # NoRow
  <2>1. db[a] # NoRow /\ r \in TableRow /\ db[a] \in TableRow /\ db'[a] \in TableRow \union {NoRow}
    BY <1>2 DEF Behind, Rows, RowsWritten
  <2>2. CASE a \notin as
    BY <1>2, <2>1, <2>2 DEF Behind, RowsWritten
  <2>3. CASE a \in as
    <3>1. db'[a] # NoRow /\ db'[a].ver = db[a].ver + 1 /\ r.ver <= db[a].ver
      BY <1>2, <2>1, <2>3 DEF Behind, RowsWritten
    <3>2. r.ver \in Nat /\ db[a].ver \in Nat
      BY <2>1, TableRows
    <3>3. r.ver <= db'[a].ver /\ r.ver # db'[a].ver
      BY <3>1, <3>2
    <3> QED BY <3>1, <3>3 DEF Behind
  <2> QED BY <2>2, <2>3
<1> QED BY <1>1, <1>2

LEMMA WrittenKeeps ==
    ASSUME TableInv, NEW as \in SUBSET Apps, RowsWritten(as), Announced, bulk' \in Bulks, bulk'.todo \subseteq bulk.todo,
           bulk'.action = bulk.action, bulk'.rows = bulk.rows, moves' \in Nat, tablePage = "none" => UNCHANGED feed,
           UNCHANGED <<tablePage, readOnly, data, live, fetches, tableFilters, rowSelection, bulks>>
    PROVE  TableInv'
<1>0. /\ TableTyped /\ Filtered /\ Counted /\ Known /\ ClosedIsEmpty
      /\ RowsBehind /\ InsertOnce /\ ShownOrComing
  BY DEF TableInv
<1>1. TableTyped' /\ Filtered' /\ Counted'
  <2>1. TableTyped'
    BY <1>0, Zenon DEF TableTyped, RowsWritten, Rows, Bulks, TableEvents, TableFetches, TableRow
  <2> QED BY <1>0, <2>1 DEF Filtered, Counted, tableFilters
<1>2. \A a \in Apps : db[a] # NoRow => db'[a] # NoRow
  BY DEF RowsWritten
<1>3. \A i \in DOMAIN feed' : feed'[i] \in TableEvents
  BY DEF RowsWritten
<1>4. Known'
  <2>1. \A a \in rowSelection' \union bulk'.todo : db'[a] # NoRow
    BY <1>0, <1>2 DEF Known, TableTyped, Bulks
  <2>2. ASSUME NEW i \in DOMAIN feed' PROVE db'[feed'[i].app] # NoRow
    <3>1. CASE i \in DOMAIN feed
      <4>1. feed'[i] = feed[i] /\ feed[i].app \in Apps /\ db[feed[i].app] # NoRow
        BY <1>0, <1>3, <3>1 DEF RowsWritten, Known, TableEvents
      <4> QED BY <1>2, <4>1
    <3>2. CASE i \notin DOMAIN feed
      BY <3>2 DEF RowsWritten
    <3> QED BY <3>1, <3>2
  <2> QED BY <1>0, <2>1, <2>2 DEF Known
<1>4a. ClosedIsEmpty'
  BY <1>0 DEF ClosedIsEmpty
<1>5. RowsBehind'
  <2>1. \A a \in Apps : Behind(data[a], a)' /\ Behind(bulk.rows[a], a)'
    <3> SUFFICES ASSUME NEW a \in Apps PROVE Behind(data[a], a)' /\ Behind(bulk.rows[a], a)'
      OBVIOUS
    <3>1. data[a] \in TableRow \union {NoRow} /\ bulk.rows[a] \in TableRow \union {NoRow} /\ db \in Rows
      BY <1>0 DEF TableTyped, Rows, Bulks
    <3>2. Behind(data[a], a) /\ Behind(bulk.rows[a], a)
      BY <1>0 DEF RowsBehind
    <3>3. \A r \in TableRow \union {NoRow} : Behind(r, a) => (r # NoRow => db'[a] # NoRow /\ r.ver <= db'[a].ver /\ (r.ver = db'[a].ver => r = db'[a]))
      BY <3>1, BehindKept DEF Behind
    <3> QED BY <3>1, <3>2, <3>3 DEF Behind
  <2>2. \A f \in fetches : Behind(f.row, f.app)'
    <3> SUFFICES ASSUME NEW f \in fetches PROVE Behind(f.row, f.app)'
      OBVIOUS
    <3>1. f.row \in TableRow \union {NoRow} /\ f.app \in Apps /\ db \in Rows /\ Behind(f.row, f.app)
      BY <1>0 DEF TableTyped, TableFetches, RowsBehind
    <3>2. \A r \in TableRow \union {NoRow}, a \in Apps : Behind(r, a) => (r # NoRow => db'[a] # NoRow /\ r.ver <= db'[a].ver /\ (r.ver = db'[a].ver => r = db'[a]))
      BY <3>1, BehindKept DEF Behind
    <3> QED BY <3>1, <3>2 DEF Behind
  <2> QED BY <2>1, <2>2 DEF RowsBehind, Behind
<1>6. InsertOnce'
  <2>1. \A i \in DOMAIN feed : feed'[i] = feed[i] /\ i \in DOMAIN feed' /\ db[feed[i].app] # NoRow
    BY <1>0 DEF RowsWritten, Known
  <2>2. \A f \in fetches : f.app \in Apps /\ db[f.app] # NoRow
    BY <1>0, TableRows DEF RowsBehind, Behind, TableTyped, TableFetches
  <2>3. \A i \in DOMAIN feed' : i \notin DOMAIN feed /\ feed'[i].kind = "INSERT" =>
            /\ db[feed'[i].app] = NoRow /\ data[feed'[i].app] = NoRow
            /\ \A j \in DOMAIN feed' : j \notin DOMAIN feed => i = j
    <3> SUFFICES ASSUME NEW i \in DOMAIN feed', i \notin DOMAIN feed, feed'[i].kind = "INSERT"
                 PROVE  /\ db[feed'[i].app] = NoRow /\ data[feed'[i].app] = NoRow
                        /\ \A j \in DOMAIN feed' : j \notin DOMAIN feed => i = j
      OBVIOUS
    <3>1. db[feed'[i].app] = NoRow /\ feed'[i].app \in Apps
      BY <1>3 DEF Announced, TableEvents
    <3>2. data[feed'[i].app] = NoRow
      BY <1>0, <3>1 DEF RowsBehind, Behind
    <3> QED BY <3>1, <3>2 DEF Announced
  <2>4. \A i, j \in DOMAIN feed' :
          feed'[i].kind = "INSERT" /\ feed'[j].kind = "INSERT" /\ feed'[i].app = feed'[j].app => i = j
    BY <1>0, <2>1, <2>3 DEF InsertOnce
  <2>5. \A i \in DOMAIN feed', f \in fetches : feed'[i].kind = "INSERT" /\ f.kind = "INSERT" => feed'[i].app # f.app
    BY <1>0, <2>1, <2>2, <2>3 DEF InsertOnce
  <2>6. \A i \in DOMAIN feed' : feed'[i].kind = "INSERT" => data[feed'[i].app] = NoRow
    BY <1>0, <2>1, <2>3 DEF InsertOnce
  <2> QED BY <1>0, <2>4, <2>5, <2>6 DEF InsertOnce
<1>7. ShownOrComing'
  <2> SUFFICES ASSUME NEW a \in Apps, Followed(a), a \notin raced'
               PROVE  \/ data[a] = db'[a]
                      \/ \E i \in DOMAIN feed' : feed'[i].app = a
                      \/ \E f \in fetches : f.app = a /\ f.row = db'[a]
    BY DEF ShownOrComing, Followed
  <2>1. CASE a \in as
    BY <2>1 DEF RowsWritten
  <2>2. CASE a \notin as
    <3>1. db'[a] = db[a] /\ a \notin raced
      BY <2>2 DEF RowsWritten
    <3>2. ASSUME NEW i \in DOMAIN feed, feed[i].app = a PROVE \E j \in DOMAIN feed' : feed'[j].app = a
      BY <3>2 DEF RowsWritten
    <3> QED BY <1>0, <3>1, <3>2 DEF ShownOrComing
  <2> QED BY <2>1, <2>2
<1> QED BY <1>1, <1>4, <1>4a, <1>5, <1>6, <1>7 DEF TableInv

LEMMA NotifiedWrites ==
    ASSUME TableTyped, NEW a \in Apps, NEW kind \in {"INSERT", "UPDATE"}, Notified(a, kind),
           kind = "INSERT" => db[a] = NoRow, NEW r \in TableRow, db' = [db EXCEPT ![a] = r],
           db[a] # NoRow => r.ver = db[a].ver + 1
    PROVE  RowsWritten({a}) /\ Announced /\ (tablePage = "none" => UNCHANGED feed)
<1> DEFINE e == [kind |-> kind, app |-> a]
<1>0. e \in TableEvents /\ e.kind = kind /\ e.app = a
  BY DEF TableEvents
<1> HIDE DEF e
<1>1. /\ db' \in Rows /\ db'[a] = r /\ r # NoRow
      /\ \A b \in Apps : b # a => db'[b] = db[b]
  BY TableRows DEF TableTyped, Rows
<1>2. CASE Followed(a) /\ live
  <2>1. feed' = Append(feed, e) /\ UNCHANGED raced
    BY <1>2, Zenon DEF Notified, Followed, e
  <2>2. feed' \in Seq(TableEvents) /\ DOMAIN feed = 1 .. Len(feed) /\ DOMAIN feed' = 1 .. Len(feed) + 1
        /\ Len(feed) \in Nat
    BY <1>0, <2>1 DEF TableTyped
  <2>3. feed'[Len(feed) + 1] = e /\ \A i \in DOMAIN feed : i \in DOMAIN feed' /\ feed'[i] = feed[i]
    BY <1>0, <2>1, <2>2 DEF TableTyped
  <2>4. \A i \in DOMAIN feed' \ DOMAIN feed : i = Len(feed) + 1
    BY <2>2
  <2>5. Announced
    BY <1>0, <2>3, <2>4 DEF Announced
  <2>6. Len(feed) + 1 \in DOMAIN feed'
    BY <2>2
  <2> QED BY <1>0, <1>1, <1>2, <2>1, <2>2, <2>3, <2>4, <2>5, <2>6 DEF RowsWritten, TableTyped, Followed
<1>3. CASE Followed(a) /\ ~live
  <2>1. raced' = raced \union {a} /\ UNCHANGED feed
    BY <1>3, Zenon DEF Notified, Followed
  <2> QED BY <1>1, <2>1 DEF RowsWritten, Announced, TableTyped
<1>4. CASE ~Followed(a)
  <2>1. UNCHANGED <<feed, raced>>
    BY <1>4, Zenon DEF Notified, Followed
  <2> QED BY <1>1, <1>4, <2>1 DEF RowsWritten, Announced, TableTyped
<1> QED BY <1>2, <1>3, <1>4

LEMMA NextStatusesTyped == \A s \in Statuses : NextStatuses(s) \subseteq Statuses
BY DEF NextStatuses, Statuses

LEMMA WorldKeeps ==
    ASSUME TableInv, NEW a \in Apps, Submitted(a) \/ Moved(a)
    PROVE  TableInv'
<1>0. TableTyped /\ Counted /\ db \in Rows /\ bulk \in Bulks
  BY DEF TableInv, TableTyped
<1>1. CASE Submitted(a)
  <2> DEFINE r == [status |-> "applied", ver |-> 0]
  <2>1. r \in TableRow
    BY DEF TableRow, Statuses
  <2>2. db' = [db EXCEPT ![a] = r] /\ db[a] = NoRow /\ Notified(a, "INSERT")
    BY <1>1 DEF Submitted
  <2> HIDE DEF r
  <2>3. RowsWritten({a}) /\ Announced /\ (tablePage = "none" => UNCHANGED feed)
    BY <1>0, <2>1, <2>2, NotifiedWrites
  <2>4. moves' \in Nat
    BY <1>0, <1>1 DEF Submitted, Counted
  <2> QED BY <1>0, <1>1, <2>3, <2>4, WrittenKeeps DEF Submitted
<1>2. CASE Moved(a)
  <2>1. PICK s \in NextStatuses(db[a].status) : db' = [db EXCEPT ![a] = [status |-> s, ver |-> @.ver + 1]]
    BY <1>2 DEF Moved
  <2> DEFINE r == [status |-> s, ver |-> db[a].ver + 1]
  <2>2. db[a] # NoRow /\ db[a] \in TableRow /\ Notified(a, "UPDATE")
    BY <1>0, <1>2 DEF Moved, Rows
  <2>3. r \in TableRow /\ r.ver = db[a].ver + 1
    BY <2>1, <2>2, TableRows, NextStatusesTyped DEF TableRow
  <2>4. db' = [db EXCEPT ![a] = r]
    BY <2>1
  <2> HIDE DEF r
  <2>5. RowsWritten({a}) /\ Announced /\ (tablePage = "none" => UNCHANGED feed)
    BY <1>0, <2>2, <2>3, <2>4, NotifiedWrites
  <2>6. moves' \in Nat
    BY <1>0, <1>2 DEF Moved, Counted
  <2> QED BY <1>0, <1>2, <2>5, <2>6, WrittenKeeps DEF Moved
<1> QED BY <1>1, <1>2

-----------------------------------------------------------------------------
(* The feed.                                                                *)

LEMMA SubscribeKeeps ==
    ASSUME TableInv, Subscribe
    PROVE  TableInv'
<1>1. live' \in BOOLEAN
  BY Zenon DEF Subscribe
<1>2. UNCHANGED <<db, moves, tablePage, readOnly, data, feed, fetches, raced, tableFilters, rowSelection, bulk, bulks>>
  BY DEF Subscribe, applicationsTable
<1>3. TableTyped'
  BY <1>1, <1>2, Zenon DEF TableInv, TableTyped, Rows, Bulks, TableEvents, TableFetches, TableRow
<1> QED BY <1>2, <1>3 DEF TableInv, Filtered, Counted, tableFilters, Known, ClosedIsEmpty, RowsBehind, Behind, InsertOnce,
                          ShownOrComing, Followed

LEMMA EventKeeps ==
    ASSUME TableInv, Event
    PROVE  TableInv'
<1>0. /\ TableTyped /\ Filtered /\ Counted /\ Known /\ ClosedIsEmpty
      /\ RowsBehind /\ InsertOnce /\ ShownOrComing
  BY DEF TableInv
<1> DEFINE e == Head(feed)
           f == [kind |-> e.kind, app |-> e.app, row |-> db[e.app]]
<1>1. /\ feed' = Tail(feed) /\ fetches' = fetches \union {f} /\ feed # <<>>
      /\ UNCHANGED <<db, moves, tablePage, readOnly, data, live, raced, tableFilters, rowSelection, bulk, bulks>>
  BY DEF Event, applicationsTable
<1>2. e \in TableEvents /\ 1 \in DOMAIN feed /\ e = feed[1] /\ Len(feed) \in Nat /\ DOMAIN feed = 1 .. Len(feed)
  BY <1>0, <1>1 DEF TableTyped
<1>3. feed' \in Seq(TableEvents) /\ DOMAIN feed' = 1 .. Len(feed) - 1
      /\ \A i \in DOMAIN feed' : i + 1 \in DOMAIN feed /\ i + 1 # 1 /\ feed'[i] = feed[i + 1]
  BY <1>0, <1>1, <1>2 DEF TableTyped
<1>4. db[e.app] # NoRow /\ db[e.app] \in TableRow /\ e.app \in Apps
  BY <1>0, <1>2 DEF Known, TableTyped, Rows, TableEvents
<1>5. f \in TableFetches /\ f.kind = e.kind /\ f.app = e.app /\ f.row = db[e.app]
  BY <1>2, <1>4 DEF TableFetches, TableEvents
<1> HIDE DEF e, f
<1>6. TableTyped'
  <2>1. fetches' \in SUBSET TableFetches
    BY <1>0, <1>1, <1>5 DEF TableTyped
  <2> QED BY <1>0, <1>1, <1>3, <2>1, Zenon DEF TableTyped, Rows, Bulks, TableEvents, TableFetches, TableRow
<1>7. Filtered' /\ Counted'
  BY <1>0, <1>1 DEF Filtered, Counted, tableFilters
<1>8. Known' /\ ClosedIsEmpty'
  BY <1>0, <1>1, <1>3 DEF Known, ClosedIsEmpty
<1>9. RowsBehind'
  <2>1. Behind(f.row, f.app)
    BY <1>4, <1>5, TableRows DEF Behind
  <2> QED BY <1>0, <1>1, <2>1 DEF RowsBehind, Behind
<1>10. InsertOnce'
  <2>1. \A i, j \in DOMAIN feed' :
          feed'[i].kind = "INSERT" /\ feed'[j].kind = "INSERT" /\ feed'[i].app = feed'[j].app => i = j
    <3> SUFFICES ASSUME NEW i \in DOMAIN feed', NEW j \in DOMAIN feed', feed'[i].kind = "INSERT",
                        feed'[j].kind = "INSERT", feed'[i].app = feed'[j].app
                 PROVE  i = j
      OBVIOUS
    <3>1. i + 1 = j + 1
      BY <1>0, <1>3 DEF InsertOnce
    <3> QED BY <1>2, <1>3, <3>1
  <2>2. \A i \in DOMAIN feed' : feed'[i].kind = "INSERT" /\ f.kind = "INSERT" => feed'[i].app # f.app
    BY <1>0, <1>2, <1>3, <1>5 DEF InsertOnce
  <2>3. \A g \in fetches : f.kind = "INSERT" /\ g.kind = "INSERT" => g.app # f.app
    BY <1>0, <1>2, <1>5 DEF InsertOnce
  <2>4. f.kind = "INSERT" => data[f.app] = NoRow
    BY <1>0, <1>2, <1>5 DEF InsertOnce
  <2>5. \A i \in DOMAIN feed', g \in fetches' : feed'[i].kind = "INSERT" /\ g.kind = "INSERT" => feed'[i].app # g.app
    BY <1>0, <1>1, <1>3, <2>2 DEF InsertOnce
  <2>6. \A g, h \in fetches' : g.kind = "INSERT" /\ h.kind = "INSERT" /\ g.app = h.app => g = h
    BY <1>0, <1>1, <2>3 DEF InsertOnce
  <2>7. \A i \in DOMAIN feed' : feed'[i].kind = "INSERT" => data'[feed'[i].app] = NoRow
    BY <1>0, <1>1, <1>3 DEF InsertOnce
  <2>8. \A g \in fetches' : g.kind = "INSERT" => data'[g.app] = NoRow
    BY <1>0, <1>1, <2>4 DEF InsertOnce
  <2> QED BY <2>1, <2>5, <2>6, <2>7, <2>8 DEF InsertOnce
<1>11. ShownOrComing'
  <2> SUFFICES ASSUME NEW a \in Apps, Followed(a), a \notin raced
               PROVE  \/ data[a] = db[a]
                      \/ \E i \in DOMAIN feed' : feed'[i].app = a
                      \/ \E g \in fetches' : g.app = a /\ g.row = db[a]
    BY <1>1 DEF ShownOrComing, Followed
  <2>1. CASE \E i \in DOMAIN feed : feed[i].app = a
    <3>1. PICK i \in DOMAIN feed : feed[i].app = a
      BY <2>1
    <3>2. CASE i = 1
      BY <1>1, <1>2, <1>5, <3>1, <3>2
    <3>3. CASE i # 1
      <4>1. i - 1 \in DOMAIN feed' /\ feed'[i - 1] = feed[i]
        BY <1>2, <1>3, <3>3
      <4> QED BY <3>1, <4>1
    <3> QED BY <3>2, <3>3
  <2>2. CASE data[a] = db[a] \/ \E g \in fetches : g.app = a /\ g.row = db[a]
    BY <1>1, <2>2
  <2> QED BY <1>0, <2>1, <2>2 DEF ShownOrComing
<1> QED BY <1>6, <1>7, <1>8, <1>9, <1>10, <1>11 DEF TableInv

\* An answer leaves its row on the page, or the row is among the raced.
LEMMA AnsweredFeed ==
    ASSUME TableInv, NEW f \in fetches, fetches' = fetches \ {f}, data' \in Rows, raced' \in SUBSET Apps,
           raced \subseteq raced',
           \A a \in Apps : a # f.app => data'[a] = data[a],
           data'[f.app] \in {data[f.app], f.row},
           f.kind = "UPDATE" /\ data[f.app] = NoRow => data'[f.app] = NoRow,
           f.app \in raced' \/ data'[f.app] = f.row,
           f.app \in raced' \/ data[f.app] = NoRow \/ data[f.app].ver <= f.row.ver,
           UNCHANGED <<applicationsTable, tablePage, readOnly, live, feed, tableFilters, rowSelection, bulk, bulks>>
    PROVE  TableInv'
<1>0. /\ TableTyped /\ Filtered /\ Counted /\ Known /\ ClosedIsEmpty
      /\ RowsBehind /\ InsertOnce /\ ShownOrComing
  BY DEF TableInv
<1>1. UNCHANGED <<db, moves, tablePage, readOnly, live, feed, tableFilters, rowSelection, bulk, bulks>>
  BY DEF applicationsTable
<1>2. f \in TableFetches /\ f.app \in Apps /\ f.row \in TableRow /\ f.kind \in {"INSERT", "UPDATE"}
  BY <1>0 DEF TableTyped, TableFetches
<1>3. TableTyped'
  BY <1>0, <1>1, Zenon DEF TableTyped, Rows, Bulks, TableEvents, TableFetches, TableRow
<1>4. Filtered' /\ Counted' /\ Known' /\ ClosedIsEmpty'
  BY <1>0, <1>1 DEF Filtered, Counted, tableFilters, Known, ClosedIsEmpty
<1>5. RowsBehind'
  <2>1. \A a \in Apps : Behind(data'[a], a)
    BY <1>0, <1>2 DEF RowsBehind
  <2> QED BY <1>0, <1>1, <2>1 DEF RowsBehind, Behind
<1>6. InsertOnce'
  <2>1. \A a \in Apps : data[a] = NoRow /\ (a # f.app \/ f.kind = "UPDATE") => data'[a] = NoRow
    OBVIOUS
  <2>2. \A i \in DOMAIN feed : feed[i].app \in Apps
    <3>1. \A i \in DOMAIN feed : feed[i] \in TableEvents
      BY <1>0 DEF TableTyped
    <3> QED BY <3>1 DEF TableEvents
  <2>3. \A g \in fetches : g.app \in Apps
    BY <1>0 DEF TableTyped, TableFetches
  <2>4. \A i \in DOMAIN feed : feed[i].kind = "INSERT" => data'[feed[i].app] = NoRow
    BY <1>0, <1>2, <2>1, <2>2 DEF InsertOnce
  <2>5. \A g \in fetches \ {f} : g.kind = "INSERT" => data'[g.app] = NoRow
    BY <1>0, <1>2, <2>1, <2>3 DEF InsertOnce
  <2> QED BY <1>0, <1>1, <2>4, <2>5 DEF InsertOnce
<1>7. ShownOrComing'
  <2> SUFFICES ASSUME NEW a \in Apps, Followed(a), a \notin raced'
               PROVE  \/ data'[a] = db[a]
                      \/ \E i \in DOMAIN feed : feed[i].app = a
                      \/ \E g \in fetches' : g.app = a /\ g.row = db[a]
    BY <1>1 DEF ShownOrComing, Followed
  <2>1. \/ data[a] = db[a]
        \/ \E i \in DOMAIN feed : feed[i].app = a
        \/ \E g \in fetches : g.app = a /\ g.row = db[a]
    BY <1>0 DEF ShownOrComing
  <2>2. CASE a # f.app
    BY <2>1, <2>2
  <2>3. CASE a = f.app
    <3>1. data'[a] = f.row /\ (data[a] = NoRow \/ data[a].ver <= f.row.ver)
      BY <2>3
    <3>2. ASSUME data[a] = db[a] PROVE f.row = db[a]
      <4>1. Behind(f.row, a) /\ f.row # NoRow
        BY <1>0, <1>2, <2>3, TableRows DEF RowsBehind
      <4>2. db[a] # NoRow /\ f.row.ver <= db[a].ver /\ (f.row.ver = db[a].ver => f.row = db[a])
        BY <4>1 DEF Behind
      <4>3. db[a] \in TableRow /\ db[a].ver <= f.row.ver
        BY <1>0, <3>1, <3>2, <4>2 DEF TableTyped, Rows
      <4> QED BY <1>2, <4>2, <4>3, TableRows
    <3> QED BY <2>1, <3>1, <3>2
  <2> QED BY <2>2, <2>3
<1> QED BY <1>3, <1>4, <1>5, <1>6, <1>7 DEF TableInv

LEMMA FeedKeeps ==
    ASSUME TableInv, Feed
    PROVE  TableInv'
<1>0. TableTyped /\ RowsBehind /\ InsertOnce
  BY DEF TableInv
<1>1. \A f \in fetches : f.app \in Apps /\ f.row \in TableRow
  BY <1>0 DEF TableTyped, TableFetches
<1>2. data \in Rows /\ raced \in SUBSET Apps
  BY <1>0 DEF TableTyped
<1>3. ASSUME NEW f \in fetches, AnswerUpdate(f) PROVE TableInv'
  <2>1. CASE data[f.app] = NoRow
    <3>1. data' = data /\ raced' = raced \union {f.app}
      BY <1>3, <2>1 DEF AnswerUpdate
    <3> QED BY <1>1, <1>2, <1>3, <2>1, <3>1, AnsweredFeed DEF AnswerUpdate
  <2>2. CASE data[f.app] # NoRow
    <3>1. data' = [data EXCEPT ![f.app] = f.row]
          /\ raced' = IF data[f.app].ver > f.row.ver THEN raced \union {f.app} ELSE raced
      BY <1>3, <2>2 DEF AnswerUpdate
    <3>2. data[f.app].ver \in Nat /\ f.row.ver \in Nat
      BY <1>1, <1>2, <2>2, TableRows DEF Rows
    <3>3. data' \in Rows /\ data'[f.app] = f.row /\ \A a \in Apps : a # f.app => data'[a] = data[a]
      BY <1>1, <1>2, <3>1 DEF Rows
    <3>4. raced' \in SUBSET Apps /\ raced \subseteq raced' /\ (f.app \in raced' \/ data[f.app].ver <= f.row.ver)
      BY <1>1, <1>2, <3>1, <3>2
    <3> QED BY <1>3, <2>2, <3>3, <3>4, AnsweredFeed DEF AnswerUpdate
  <2> QED BY <2>1, <2>2
<1>4. ASSUME NEW f \in fetches, AnswerInsert(f) PROVE TableInv'
  <2>1. data[f.app] = NoRow /\ f.kind = "INSERT"
    BY <1>0, <1>4 DEF AnswerInsert, InsertOnce
  <2>2. data' = [data EXCEPT ![f.app] = f.row] /\ raced' = raced
    BY <1>4 DEF AnswerInsert
  <2>3. data' \in Rows /\ data'[f.app] = f.row /\ \A a \in Apps : a # f.app => data'[a] = data[a]
    BY <1>1, <1>2, <2>2 DEF Rows
  <2> QED BY <1>2, <1>4, <2>1, <2>2, <2>3, AnsweredFeed DEF AnswerInsert
<1>5. ASSUME NEW f \in fetches, AnswerError(f) PROVE TableInv'
  <2>1. data' = data /\ raced' = raced \union {f.app}
    BY <1>5 DEF AnswerError
  <2> QED BY <1>1, <1>2, <1>5, <2>1, AnsweredFeed DEF AnswerError
<1> QED BY <1>3, <1>4, <1>5, SubscribeKeeps, EventKeeps DEF Feed

-----------------------------------------------------------------------------
(* Filters, tick boxes and bulk actions, as far as they write nothing.      *)

LEMMA SelectionKeeps ==
    ASSUME TableInv, bulk' \in Bulks, rowSelection' \in SUBSET Apps, Filtered', bulks' \in Nat,
           bulk'.todo \union rowSelection' \subseteq bulk.todo \union rowSelection \union {a \in Apps : data[a] # NoRow},
           \A a \in Apps : bulk'.rows[a] \in {bulk.rows[a], data[a], NoRow},
           rowSelection' # {} \/ bulk'.action # "none" => tablePage # "none" /\ ~readOnly,
           UNCHANGED <<applicationsTable, tablePage, readOnly, realtime>>
    PROVE  TableInv'
<1>0. TableTyped /\ Counted /\ Known /\ ClosedIsEmpty /\ RowsBehind /\ InsertOnce /\ ShownOrComing
  BY DEF TableInv
<1>1. UNCHANGED <<db, moves, tablePage, readOnly, data, live, feed, fetches, raced>>
  BY DEF applicationsTable, realtime
<1>2. TableTyped' /\ Counted'
  <2>1. TableTyped'
    BY <1>0, <1>1, Zenon DEF TableTyped, Rows, Bulks, TableEvents, TableFetches, TableRow
  <2> QED BY <1>0, <1>1, <2>1 DEF Counted
<1>3. Known' /\ ClosedIsEmpty'
  <2>1. \A a \in Apps : data[a] # NoRow => db[a] # NoRow
    BY <1>0 DEF RowsBehind, Behind
  <2> QED BY <1>0, <1>1, <2>1 DEF Known, ClosedIsEmpty
<1>4. RowsBehind'
  <2>1. \A a \in Apps : Behind(bulk'.rows[a], a)
    BY <1>0 DEF RowsBehind, Behind
  <2> QED BY <1>0, <1>1, <2>1 DEF RowsBehind, Behind
<1>5. InsertOnce' /\ ShownOrComing'
  BY <1>0, <1>1 DEF InsertOnce, ShownOrComing, Followed
<1> QED BY <1>2, <1>3, <1>4, <1>5 DEF TableInv

LEMMA VisibleRows ==
    ASSUME TableInv
    PROVE  /\ Visible \subseteq {a \in Apps : data[a] # NoRow}
           /\ \A a \in Apps : TableData(a) \in {data[a], NoRow}
BY SearchesAssumption DEF TableInv, Filtered, Visible, TableData

LEMMA FiltersKeep ==
    ASSUME TableInv, Controls
    PROVE  TableInv'
<1>0. /\ bulk \in Bulks /\ rowSelection \in SUBSET Apps /\ bulks \in Nat /\ Filtered
      /\ rowSelection # {} \/ bulk.action # "none" => tablePage # "none" /\ ~readOnly
  BY DEF TableInv, TableTyped, Counted, Known
<1>1. \A a \in Apps : data[a] # NoRow => tablePage # "none"
  BY DEF TableInv, ClosedIsEmpty
<1>2. ASSUME NEW j \in JobIds \union {"all"}, SetJobFilter(j) PROVE TableInv'
  <2>1. Filtered' /\ UNCHANGED <<rowSelection, bulk, bulks, applicationsTable, tablePage, readOnly, realtime>>
    BY <1>0, <1>2 DEF SetJobFilter, Filtered
  <2> QED BY <1>0, <2>1, SelectionKeeps, Zenon
<1>3. ASSUME NEW v \in Filters, SetStatusFilter(v) PROVE TableInv'
  <2>1. Filtered' /\ UNCHANGED <<rowSelection, bulk, bulks, applicationsTable, tablePage, readOnly, realtime>>
    BY <1>0, <1>3 DEF SetStatusFilter, Filtered
  <2> QED BY <1>0, <2>1, SelectionKeeps, Zenon
<1>4. ASSUME NEW found \in Searches, SetGlobalFilter(found) PROVE TableInv'
  <2>1. Filtered' /\ UNCHANGED <<rowSelection, bulk, bulks, applicationsTable, tablePage, readOnly, realtime>>
    BY <1>0, <1>4 DEF SetGlobalFilter, Filtered
  <2> QED BY <1>0, <2>1, SelectionKeeps, Zenon
<1>5. ASSUME NEW a \in Apps, ToggleRow(a) PROVE TableInv'
  <2>1. data[a] # NoRow
    BY <1>5, VisibleRows DEF ToggleRow
  <2>2. rowSelection' \in SUBSET Apps /\ rowSelection' \subseteq rowSelection \union {b \in Apps : data[b] # NoRow}
    BY <1>0, <1>5, <2>1 DEF ToggleRow
  <2>3. /\ ~readOnly /\ tablePage # "none"
        /\ UNCHANGED <<bulk, bulks, applicationsTable, tablePage, readOnly, realtime, tableFilters>>
    BY <1>1, <1>5, <2>1 DEF ToggleRow
  <2>4. Filtered'
    BY <1>0, <2>3 DEF Filtered, tableFilters
  <2> QED BY <1>0, <2>2, <2>3, <2>4, SelectionKeeps
<1>6. CASE ToggleAllRows
  <2>1. Visible \subseteq {b \in Apps : data[b] # NoRow}
    BY VisibleRows
  <2>2. rowSelection' \in SUBSET Apps /\ rowSelection' \subseteq rowSelection \union {b \in Apps : data[b] # NoRow}
    BY <1>0, <1>6, <2>1 DEF ToggleAllRows
  <2>3. /\ ~readOnly /\ tablePage # "none"
        /\ UNCHANGED <<bulk, bulks, applicationsTable, tablePage, readOnly, realtime, tableFilters>>
    BY <1>1, <1>6, <2>1 DEF ToggleAllRows
  <2>4. Filtered'
    BY <1>0, <2>3 DEF Filtered, tableFilters
  <2> QED BY <1>0, <2>2, <2>3, <2>4, SelectionKeeps
<1> QED BY <1>2, <1>3, <1>4, <1>5, <1>6 DEF Controls

LEMMA StartKeeps ==
    ASSUME TableInv, NEW action \in BulkActions, StartBulk(action)
    PROVE  TableInv'
<1> DEFINE seen == [a \in Apps |-> TableData(a)]
<1>0. /\ bulk \in Bulks /\ rowSelection \in SUBSET Apps /\ bulks \in Nat /\ Filtered /\ data \in Rows
      /\ rowSelection # {} \/ bulk.action # "none" => tablePage # "none" /\ ~readOnly
  BY DEF TableInv, TableTyped, Counted, Known
<1>1. seen \in Rows /\ \A a \in Apps : seen[a] \in {data[a], NoRow}
  BY <1>0, VisibleRows DEF Rows
<1> HIDE DEF seen
<1>2. bulk' = [action |-> action, todo |-> rowSelection, rows |-> seen, at |-> "next"] /\ rowSelection # {}
  BY DEF StartBulk, BulkBar, seen
<1>3. /\ bulk' \in Bulks /\ bulk'.todo = rowSelection /\ bulk'.rows = seen
      /\ UNCHANGED <<applicationsTable, tablePage, readOnly, realtime, tableFilters, rowSelection>>
  BY <1>0, <1>1, <1>2 DEF Bulks, StartBulk
<1>4. bulks' \in Nat /\ Filtered'
  BY <1>0 DEF StartBulk, Filtered, tableFilters
<1> QED BY <1>0, <1>1, <1>2, <1>3, <1>4, SelectionKeeps

-----------------------------------------------------------------------------
(* The steps of a bulk action.                                              *)

LEMMA PassedOver ==
    ASSUME TableInv, bulk' \in Bulks, bulk'.todo \subseteq bulk.todo, bulk'.rows = bulk.rows,
           bulk'.action = bulk.action,
           UNCHANGED <<applicationsTable, tablePage, readOnly, realtime, tableFilters, rowSelection, bulks>>
    PROVE  TableInv'
<1>1. /\ rowSelection \in SUBSET Apps /\ bulks \in Nat /\ Filtered'
      /\ rowSelection # {} \/ bulk.action # "none" => tablePage # "none" /\ ~readOnly
  BY DEF TableInv, TableTyped, Counted, Known, Filtered, tableFilters
<1> QED BY <1>1, SelectionKeeps

LEMMA SendUpdateKeeps ==
    ASSUME TableInv, NEW a \in Apps, SendUpdate(a)
    PROVE  TableInv'
<1>0. TableTyped /\ Counted /\ Known
  BY DEF TableInv
<1>1. /\ bulk' \in Bulks /\ bulk'.todo = bulk.todo /\ bulk'.rows = bulk.rows /\ bulk'.action = bulk.action
      /\ UNCHANGED <<moves, tablePage, readOnly, data, live, fetches, tableFilters, rowSelection, bulks>>
  BY <1>0 DEF SendUpdate, TableTyped, Bulks
<1>2. CASE StatusUpdated(a, "interview_sent") /\ Notified(a, "UPDATE")
  <2> DEFINE n == db[a].ver + 1
             r == [db[a] EXCEPT !.status = "interview_sent", !.ver = n]
  <2>1. db[a] # NoRow /\ db[a] \in TableRow
    BY <1>0 DEF SendUpdate, Known, TableTyped, Rows, Bulks
  <2>2. n \in Nat
    BY <2>1, TableRows
  <2>3. db' = [db EXCEPT ![a].status = "interview_sent", ![a].ver = n]
    BY <1>0, <1>2, <2>1 DEF StatusUpdated, TableTyped, Rows
  <2> HIDE DEF n
  <2>4. db' = [db EXCEPT ![a] = r]
    BY <1>0, <2>3 DEF TableTyped, Rows
  <2>5. r \in TableRow /\ r.ver = n
    BY <2>1, <2>2 DEF TableRow, Statuses
  <2> HIDE DEF r
  <2>6. RowsWritten({a}) /\ Announced /\ (tablePage = "none" => UNCHANGED feed)
    BY <1>0, <1>2, <2>4, <2>5, NotifiedWrites DEF n
  <2> QED BY <1>0, <1>1, <2>6, WrittenKeeps DEF Counted
<1>3. CASE UNCHANGED <<db, feed, raced>>
  BY <1>1, <1>3, PassedOver DEF applicationsTable, realtime
<1> QED BY <1>2, <1>3 DEF SendUpdate

\* What BulkUpdate writes of one application.
LEMMA DecidedRow ==
    ASSUME NEW r \in TableRow, NEW s \in Statuses
    PROVE  LET q == [r EXCEPT !.ver = @ + 1, !.status = s] IN q \in TableRow /\ q.ver = r.ver + 1
<1> DEFINE n == r.ver + 1
<1>1. n \in Nat
  BY TableRows
<1>2. [r EXCEPT !.ver = @ + 1, !.status = s] = [r EXCEPT !.ver = n, !.status = s]
  BY DEF TableRow
<1> HIDE DEF n
<1>3. [r EXCEPT !.ver = n, !.status = s] \in TableRow /\ [r EXCEPT !.ver = n, !.status = s].ver = n
  BY <1>1 DEF TableRow
<1> QED BY <1>2, <1>3 DEF n

LEMMA NotifiedAllWrites ==
    ASSUME TableTyped, NEW as \in SUBSET Apps, NotifiedAll(as)
    PROVE  /\ feed' \in Seq(TableEvents) /\ raced' \in SUBSET Apps /\ raced \subseteq raced'
           /\ \A i \in DOMAIN feed : i \in DOMAIN feed' /\ feed'[i] = feed[i]
           /\ \A i \in DOMAIN feed' \ DOMAIN feed : feed'[i].app \in as /\ feed'[i].kind = "UPDATE"
           /\ \A a \in as : Followed(a) => a \in raced' \/ \E i \in DOMAIN feed' : feed'[i].app = a
<1> DEFINE seen == {a \in as : InScope(tablePage, a)}
           n == Cardinality(seen)
<1>0. seen \in SUBSET Apps /\ n \in Nat
  <2>1. seen \in SUBSET Apps
    OBVIOUS
  <2> QED BY <2>1, JobOfAssumption, FS_Subset, FS_CardinalityType
<1>1. CASE live
  <2>1. PICK order \in [1 .. n -> seen] :
            /\ \A a \in seen : \E i \in DOMAIN order : order[i] = a
            /\ feed' = feed \o [i \in DOMAIN order |-> [kind |-> "UPDATE", app |-> order[i]]]
    BY <1>1 DEF NotifiedAll
  <2>2. raced' = raced
    BY <1>1 DEF NotifiedAll
  <2> HIDE DEF seen, n
  <2> DEFINE news == [i \in 1 .. n |-> [kind |-> "UPDATE", app |-> order[i]]]
  <2>3. /\ feed' = feed \o news /\ news \in Seq(TableEvents) /\ Len(news) = n
        /\ \A i \in 1 .. n : news[i].app = order[i] /\ news[i].kind = "UPDATE" /\ order[i] \in seen
    <3>1. \A i \in 1 .. n : [kind |-> "UPDATE", app |-> order[i]] \in TableEvents /\ order[i] \in seen
      BY <1>0, <2>1 DEF TableEvents
    <3>2. news \in [1 .. n -> TableEvents]
      BY <3>1
    <3>3. news \in Seq(TableEvents) /\ Len(news) = n
      BY <1>0, <3>2
    <3>4. feed' = feed \o news
      BY <2>1
    <3> QED BY <3>1, <3>3, <3>4
  <2>4. \A i \in 1 .. n : news[i].app \in as
    BY <2>3 DEF seen
  <2> HIDE DEF news
  <2>5. feed \in Seq(TableEvents) /\ Len(feed) \in Nat /\ DOMAIN feed = 1 .. Len(feed)
    BY DEF TableTyped
  <2>6. feed' \in Seq(TableEvents) /\ DOMAIN feed' = 1 .. Len(feed) + n
    BY <1>0, <2>3, <2>5
  <2>7. \A i \in DOMAIN feed : i \in DOMAIN feed' /\ feed'[i] = feed[i]
    BY <1>0, <2>3, <2>5, <2>6
  <2>8. \A i \in 1 .. n : Len(feed) + i \in DOMAIN feed' /\ feed'[Len(feed) + i] = news[i]
    BY <1>0, <2>3, <2>5, <2>6
  <2>9. ASSUME NEW i \in DOMAIN feed' \ DOMAIN feed PROVE feed'[i].app \in as /\ feed'[i].kind = "UPDATE"
    <3>1. i - Len(feed) \in 1 .. n /\ i = Len(feed) + (i - Len(feed))
      BY <1>0, <2>5, <2>6
    <3>2. feed'[i] = news[i - Len(feed)]
      BY <2>8, <3>1
    <3> QED BY <2>3, <2>4, <3>1, <3>2
  <2>10. ASSUME NEW a \in as, Followed(a) PROVE \E i \in DOMAIN feed' : feed'[i].app = a
    <3>1. a \in seen
      BY <2>10 DEF Followed, seen
    <3>2. PICK i \in 1 .. n : order[i] = a
      BY <2>1, <3>1
    <3>3. Len(feed) + i \in DOMAIN feed' /\ feed'[Len(feed) + i].app = a
      BY <2>3, <2>8, <3>2
    <3> QED BY <3>3
  <2> QED BY <2>2, <2>6, <2>7, <2>9, <2>10 DEF TableTyped
<1>2. CASE ~live
  <2>1. raced' = raced \union seen /\ feed' = feed
    BY <1>2 DEF NotifiedAll
  <2> QED BY <1>0, <2>1 DEF TableTyped, Followed
<1> QED BY <1>1, <1>2

LEMMA BulkUpdateKeeps ==
    ASSUME TableInv, BulkUpdate
    PROVE  TableInv'
<1>0. TableTyped /\ Counted /\ Known
  BY DEF TableInv
<1>1. /\ bulk' \in Bulks /\ bulk'.todo \subseteq bulk.todo /\ bulk'.rows = bulk.rows /\ bulk'.action = bulk.action
      /\ bulk.action # "none"
      /\ UNCHANGED <<moves, tablePage, readOnly, data, live, fetches, tableFilters, rowSelection, bulks>>
  BY <1>0 DEF BulkUpdate, TableTyped, Bulks
<1>2. ASSUME NotifiedAll(bulk.todo),
             db' = [a \in Apps |-> IF a \in bulk.todo
                       THEN [db[a] EXCEPT !.ver = @ + 1,
                                          !.status = IF bulk.action = "reject" THEN "resume_rejected" ELSE "shortlisted"]
                       ELSE db[a]]
      PROVE  TableInv'
  <2> DEFINE s == IF bulk.action = "reject" THEN "resume_rejected" ELSE "shortlisted"
             new(a) == [db[a] EXCEPT !.ver = @ + 1, !.status = s]
  <2>1. bulk.todo \in SUBSET Apps /\ s \in Statuses
    BY <1>0 DEF TableTyped, Bulks, Statuses
  <2>2. \A a \in bulk.todo : db[a] # NoRow /\ db[a] \in TableRow
    BY <1>0, <2>1 DEF Known, TableTyped, Rows
  <2>3. \A a \in bulk.todo : new(a) \in TableRow /\ new(a).ver = db[a].ver + 1
    BY <2>1, <2>2, DecidedRow
  <2>4. db' = [a \in Apps |-> IF a \in bulk.todo THEN new(a) ELSE db[a]]
    BY <1>2
  <2> HIDE DEF new, s
  <2>5. db' \in Rows /\ \A a \in Apps : a \notin bulk.todo => db'[a] = db[a]
    BY <1>0, <2>1, <2>3, <2>4 DEF TableTyped, Rows
  <2>6. \A a \in bulk.todo : db'[a] # NoRow /\ db'[a].ver = db[a].ver + 1
    BY <2>1, <2>3, <2>4, TableRows
  <2>7. RowsWritten(bulk.todo) /\ Announced
    BY <1>0, <1>2, <2>1, <2>5, <2>6, NotifiedAllWrites DEF RowsWritten, Announced
  <2>8. tablePage # "none"
    BY <1>0, <1>1 DEF Known
  <2> QED BY <1>0, <1>1, <2>1, <2>7, <2>8, WrittenKeeps DEF Counted
<1>3. CASE UNCHANGED <<db, feed, raced>>
  BY <1>1, <1>3, PassedOver DEF applicationsTable, realtime
<1> QED BY <1>2, <1>3 DEF BulkUpdate

LEMMA BulkStepKeeps ==
    ASSUME TableInv, BulkStep
    PROVE  TableInv'
<1>0. bulk \in Bulks /\ rowSelection \in SUBSET Apps /\ bulks \in Nat /\ Filtered /\ TableTyped
      /\ (rowSelection # {} \/ bulk.action # "none" => tablePage # "none" /\ ~readOnly)
  BY DEF TableInv, TableTyped, Counted, Known
<1>1. ASSUME NEW a \in Apps, SendSkip(a) \/ SendRest(a) \/ RejectMail(a) PROVE TableInv'
  <2>1. /\ bulk' \in Bulks /\ bulk'.todo \subseteq bulk.todo /\ bulk'.rows = bulk.rows /\ bulk'.action = bulk.action
        /\ UNCHANGED <<applicationsTable, tablePage, readOnly, realtime, tableFilters, rowSelection, bulks>>
    BY <1>0, <1>1 DEF SendSkip, SendRest, RejectMail, Bulks, applicationsTable
  <2> QED BY <2>1, PassedOver
<1>2. ASSUME NEW a \in Apps, SendUpdate(a) PROVE TableInv'
  BY <1>2, SendUpdateKeeps
<1>3. CASE BulkUpdate
  BY <1>3, BulkUpdateKeeps
<1>4. CASE FinishBulk
  <2>1. tablePage \in JobIds \union {"all", "none"} /\ readOnly' \in BOOLEAN
    BY <1>0, <1>4 DEF FinishBulk, TableTyped
  <2> QED BY <1>4, <2>1, FreshKeeps DEF FinishBulk
<1>5. ASSUME NEW ok \in BOOLEAN, BulkRescored(ok) PROVE TableInv'
  <2>1. /\ bulk' = NoBulk /\ rowSelection' \in SUBSET Apps /\ rowSelection' \subseteq rowSelection
        /\ UNCHANGED <<applicationsTable, tablePage, readOnly, realtime, tableFilters, bulks>>
    BY <1>0, <1>5 DEF BulkRescored
  <2>2. Filtered'
    BY <1>0, <2>1 DEF Filtered, tableFilters
  <2> QED BY <1>0, <2>1, <2>2, NoBulkTyped, SelectionKeeps
<1> QED BY <1>1, <1>2, <1>3, <1>4, <1>5 DEF BulkStep

LEMMA TableStep == TableInv /\ [TableNext]_tableVars => TableInv'
<1> SUFFICES ASSUME TableInv, [TableNext]_tableVars PROVE TableInv'
  OBVIOUS
<1>1. CASE World
  BY <1>1, WorldKeeps DEF World
<1>2. ASSUME NEW action \in BulkActions, StartBulk(action) PROVE TableInv'
  BY <1>2, StartKeeps
<1>3. CASE UNCHANGED tableVars
  <2>1. /\ UNCHANGED <<applicationsTable, tablePage, readOnly, realtime, tableFilters, rowSelection, bulks, bulk>>
        /\ bulk \in Bulks
    BY <1>3 DEF tableVars, TableInv, TableTyped
  <2> QED BY <2>1, PassedOver
<1> QED BY <1>1, <1>2, <1>3, PagesKeep, FeedKeeps, FiltersKeep, BulkStepKeeps DEF TableNext

LEMMA TableInvariant == TableSpec => []TableInv
BY TableInitially, TableStep, PTL DEF TableSpec

(* When nothing of a row is on its way, the page shows the row as it is,    *)
(* unless its refresh was missed, failed or was overtaken: no order of       *)
(* events, refetches, answers, bulk actions and reloads leaves an old row    *)
(* behind that nobody will replace.                                         *)
THEOREM NoRowStaysOld == TableSpec => []ShownIsTrueUnlessRaced
<1>1. TableInv => ShownIsTrueUnlessRaced
  BY DEF TableInv, ShownOrComing, ShownIsTrueUnlessRaced, Followed, Outstanding
<1> QED BY <1>1, TableInvariant, PTL

(* A bulk action sends an application back to interview_sent only on the    *)
(* strength of an older row: every row the browser has is one the database   *)
(* had, so one with the present version is the present row.                 *)
THEOREM OnlyStaleRowsPushBack == TableSpec => PushedBackOnlyByStaleRow
<1> DEFINE Step == \A a \in Apps :
              db[a] # NoRow /\ db[a].status \in POST_INTERVIEW_STATUSES /\ db'[a].status = "interview_sent"
                  => bulk.rows[a].ver < db[a].ver
<1>1. TableInv /\ [TableNext]_tableVars => [Step]_tableVars
  <2> SUFFICES ASSUME TableInv, TableNext, NEW a \in Apps, db[a] # NoRow,
                      db[a].status \in POST_INTERVIEW_STATUSES, db'[a].status = "interview_sent"
               PROVE  bulk.rows[a].ver < db[a].ver
    BY DEF tableVars
  <2>0. db \in Rows /\ db[a] \in TableRow /\ bulk \in Bulks /\ RowsBehind /\ Known
    BY DEF TableInv, TableTyped, Rows
  <2>1. db'[a] # db[a]
    BY DEF POST_INTERVIEW_STATUSES
  <2>2. CASE Pages \/ Feed \/ Controls
    BY <2>1, <2>2 DEF Pages, OpenJob, OpenClient, OpenAll, CloseTab, Feed, Subscribe, Event, AnswerUpdate, AnswerInsert,
           AnswerError, Controls, SetJobFilter, SetStatusFilter, SetGlobalFilter, ToggleRow, ToggleAllRows, applicationsTable
  <2>3. ASSUME NEW action \in BulkActions, StartBulk(action) PROVE FALSE
    BY <2>1, <2>3 DEF StartBulk, applicationsTable
  <2>4. ASSUME NEW b \in Apps, Submitted(b) PROVE FALSE
    BY <2>0, <2>1, <2>4 DEF Submitted, Rows
  <2>5. ASSUME NEW b \in Apps, Moved(b) PROVE FALSE
    <3>1. PICK s \in NextStatuses(db[b].status) : db' = [db EXCEPT ![b] = [status |-> s, ver |-> @.ver + 1]]
      BY <2>5 DEF Moved
    <3>2. b = a /\ db'[a].status = s
      BY <2>0, <2>1, <3>1 DEF Rows
    <3> QED BY <3>1, <3>2 DEF NextStatuses, POST_INTERVIEW_STATUSES
  <2>6. ASSUME NEW b \in Apps, SendSkip(b) \/ SendRest(b) \/ RejectMail(b) PROVE FALSE
    BY <2>1, <2>6 DEF SendSkip, SendRest, RejectMail, applicationsTable
  <2>7. ASSUME NEW b \in Apps, SendUpdate(b) PROVE bulk.rows[a].ver < db[a].ver
    <3>1. Invitable(b) /\ db' = [db EXCEPT ![b].status = "interview_sent", ![b].ver = @ + 1]
      BY <2>1, <2>7 DEF SendUpdate, StatusUpdated
    <3>2. b = a
      BY <2>0, <2>1, <3>1 DEF Rows
    <3>3. bulk.rows[a] # NoRow /\ bulk.rows[a].status \notin POST_INTERVIEW_STATUSES /\ bulk.rows[a] \in TableRow
      BY <2>0, <3>1, <3>2 DEF Invitable, Bulks, Rows
    <3>4. bulk.rows[a].ver <= db[a].ver /\ bulk.rows[a].ver # db[a].ver
      BY <2>0, <3>3 DEF RowsBehind, Behind
    <3> QED BY <2>0, <3>3, <3>4, TableRows
  <2>8. ASSUME BulkUpdate PROVE FALSE
    <3>1. a \in bulk.todo /\ db' = [c \in Apps |-> IF c \in bulk.todo
                       THEN [db[c] EXCEPT !.ver = @ + 1,
                                          !.status = IF bulk.action = "reject" THEN "resume_rejected" ELSE "shortlisted"]
                       ELSE db[c]]
      BY <2>1, <2>8 DEF BulkUpdate
    <3>2. db'[a].status = IF bulk.action = "reject" THEN "resume_rejected" ELSE "shortlisted"
      BY <2>0, <3>1 DEF TableRow
    <3> QED BY <3>2
  <2>9. ASSUME FinishBulk \/ \E ok \in BOOLEAN : BulkRescored(ok) PROVE FALSE
    BY <2>1, <2>9 DEF FinishBulk, BulkRescored, applicationsTable
  <2> QED BY <2>2, <2>3, <2>4, <2>5, <2>6, <2>7, <2>8, <2>9, <2>1 DEF TableNext, World, BulkStep, Feed, Controls, Pages
<1> QED BY <1>1, TableInvariant, PTL DEF TableSpec, PushedBackOnlyByStaleRow, Step

-----------------------------------------------------------------------------
(* CandidateReport.  The rows of a transcript that the page has are of      *)
(* attempts it has, since it reads the attempts first; and the attempts     *)
(* stand in the order of their creation, from the newest.                   *)

Detail == [overrideRec : {"no_override", "advance"}, currentOverride : {"none", "advance"},
           overriding : SUBSET {"no_override", "advance"},
           summaryAsked : BOOLEAN, isSummaryLoading : BOOLEAN, summaryError : BOOLEAN,
           manualScreenOpen : BOOLEAN, manualDecision : {"pass", "reject"}, manualScreening : BOOLEAN,
           manualScreenDone : {"none"}, requests : Nat]

ReportTyped ==
    /\ status \in [Attempts -> Terminal \union {"none", "in_progress"}]
    /\ qa \in SUBSET QA
    /\ reported \in Seq(Attempts)
    /\ decision \in [override : {"none", "advance"}, first : {"applied", "interview_sent"}]
    /\ got \in [at : {"sessions", "qa", "reports", "page"}, sessions : Seq(Attempts),
                status : [Attempts -> Terminal \union {"none", "in_progress"}], qa : SUBSET QA, reports : Seq(Attempts)]
    /\ detail \in Detail

Descending(s) == \A i, j \in DOMAIN s : i < j => s[j] < s[i]

ReportRead ==
    /\ Descending(got.sessions)
    /\ got.at \in {"sessions", "qa"} => got.qa = {}
    /\ \A q \in got.qa : \E n \in DOMAIN got.sessions : got.sessions[n] = q.session

ReportInv ==
    /\ ReportTyped
    /\ IsFiniteSet(qa) /\ IsFiniteSet(got.qa)
    /\ ReportRead

LEMMA ReportInitially == ReportInit => ReportInv
<1> SUFFICES ASSUME ReportInit PROVE ReportInv
  OBVIOUS
<1>1. <<>> \in Seq(Attempts) /\ DOMAIN <<>> = {}
  OBVIOUS
<1>2. got.sessions = <<>> /\ got.qa = {} /\ qa = {} /\ IsFiniteSet({})
  BY FS_EmptySet DEF ReportInit
<1>3. Descending(got.sessions)
  BY <1>1, <1>2 DEF Descending
<1>4. /\ status \in [Attempts -> Terminal \union {"none", "in_progress"}]
      /\ [s \in Attempts |-> "none"] \in [Attempts -> Terminal \union {"none", "in_progress"}]
  BY DEF ReportInit
<1>5. got \in [at : {"sessions", "qa", "reports", "page"}, sessions : Seq(Attempts),
               status : [Attempts -> Terminal \union {"none", "in_progress"}], qa : SUBSET QA, reports : Seq(Attempts)]
  BY <1>1, <1>4 DEF ReportInit
<1>6. detail \in Detail
  BY DEF ReportInit, Detail
<1>7. /\ qa \in SUBSET QA /\ reported \in Seq(Attempts)
      /\ decision \in [override : {"none", "advance"}, first : {"applied", "interview_sent"}]
  BY <1>1 DEF ReportInit
<1> QED BY <1>2, <1>3, <1>4, <1>5, <1>6, <1>7 DEF ReportInv, ReportTyped, ReportRead

(* Interviews go on while the page is being read: it has what it has read.  *)
LEMMA InterviewsKeep == ReportInv /\ Interviews => ReportInv'
<1> SUFFICES ASSUME ReportInv, NEW s \in Attempts, NewAttempt(s) \/ Recorded(s) \/ Ended(s) \/ Evaluated(s)
             PROVE  ReportInv'
  BY DEF Interviews
<1> USE DEF ReportInv, ReportTyped
<1>1. UNCHANGED <<decision, got, detail>>
  BY DEF NewAttempt, Recorded, Ended, Evaluated
<1>2. status' \in [Attempts -> Terminal \union {"none", "in_progress"}]
  BY DEF NewAttempt, Recorded, Ended, Evaluated
<1>3. reported' \in Seq(Attempts)
  <2>1. reported' = reported \/ reported' = Append(reported, s)
    BY Zenon DEF NewAttempt, Recorded, Ended, Evaluated
  <2>2. Append(reported, s) \in Seq(Attempts)
    OBVIOUS
  <2> QED BY <2>1, <2>2
<1>4. qa' \in SUBSET QA /\ IsFiniteSet(qa')
  <2>1. CASE Recorded(s)
    <3> DEFINE n == Cardinality({q \in qa : q.session = s})
               row == [session |-> s, number |-> n + 1]
    <3>1. n < MaxQuestions /\ qa' = qa \union {row}
      BY <2>1 DEF Recorded
    <3>2. n \in Nat
      <4>1. {q \in qa : q.session = s} \in SUBSET qa
        OBVIOUS
      <4> QED BY <4>1, FS_Subset, FS_CardinalityType
    <3>3. n + 1 \in 1 .. MaxQuestions
      <4> HIDE DEF n
      <4> QED BY <3>1, <3>2, ReportAssumption
    <3>4. row \in QA
      <4> HIDE DEF n
      <4> QED BY <3>3 DEF QA
    <3> HIDE DEF n, row
    <3> QED BY <3>1, <3>4, FS_AddElement
  <2>2. CASE qa' = qa
    BY <2>2
  <2> QED BY <2>1, <2>2 DEF NewAttempt, Ended, Evaluated
<1>5. ReportRead'
  BY <1>1 DEF ReportRead, Descending
<1> QED BY <1>1, <1>2, <1>3, <1>4, <1>5

(* The rows of a table, from the newest.                                    *)
LEMMA NewestFirstOrders ==
    ASSUME NEW S, S \subseteq Attempts
    PROVE  NewestFirst(S) \in Seq(Attempts) /\ Descending(NewestFirst(S))
<1> DEFINE R == {p \in S \X S : p[1] > p[2]}
           s == SortedBy(S, R)
           c == Cardinality(S)
<1>1. IsFiniteSet(Attempts)
  BY OneTo, ReportAssumption DEF Attempts
<1>2. IsFiniteSet(S)
  BY <1>1, FS_Subset
<1>3. \A x, y \in S : <<x, y>> \in R <=> x > y
  OBVIOUS
<1>4. \A x \in S : x \in Nat
  BY DEF Attempts
<1> HIDE DEF R
<1>5. Orders(R, S)
  BY <1>3, <1>4 DEF Orders
<1>6. s \in [1 .. c -> S] /\ c \in Nat /\ \A m, n \in 1 .. c : m < n <=> <<s[m], s[n]>> \in R
  BY <1>2, <1>5, SortedByOrders
<1>7. NewestFirst(S) = s
  BY Zenon DEF NewestFirst, R
<1> HIDE DEF s, c
<1>8. s \in Seq(Attempts) /\ DOMAIN s = 1 .. c
  BY <1>6
<1>9. \A m, n \in 1 .. c : m < n => s[m] > s[n]
  BY <1>3, <1>6
<1>10. \A m, n \in 1 .. c : s[m] \in Nat /\ s[n] \in Nat
  BY <1>4, <1>6
<1>11. Descending(s)
  BY <1>8, <1>9, <1>10 DEF Descending
<1> QED BY <1>7, <1>8, <1>11

LEMMA ReadsKeep == ReportInv /\ (ReadSessions \/ ReadQa \/ ReadReports) => ReportInv'
<1> SUFFICES ASSUME ReportInv PROVE ReadSessions \/ ReadQa \/ ReadReports => ReportInv'
  OBVIOUS
<1> USE DEF ReportInv, ReportTyped
<1>1. ASSUME ReadSessions PROVE ReportInv'
  <2> DEFINE begun == {s \in Attempts : status[s] # "none"}
  <2>1. NewestFirst(begun) \in Seq(Attempts) /\ Descending(NewestFirst(begun))
    BY NewestFirstOrders
  <2> HIDE DEF begun
  <2>2. /\ got.at = "sessions"
        /\ got' = [got EXCEPT !.at = "qa", !.status = status, !.sessions = NewestFirst(begun)]
        /\ detail' = [detail EXCEPT !.currentOverride = decision.override]
        /\ UNCHANGED <<status, qa, reported, decision>>
    BY <1>1 DEF ReadSessions, candidate, begun
  <2>3. got'.at = "qa" /\ got'.qa = {} /\ got'.sessions = NewestFirst(begun)
    BY <2>2 DEF ReportRead
  <2>4. got' \in [at : {"sessions", "qa", "reports", "page"}, sessions : Seq(Attempts),
                  status : [Attempts -> Terminal \union {"none", "in_progress"}], qa : SUBSET QA, reports : Seq(Attempts)]
    BY <2>1, <2>2
  <2>5. detail' \in Detail
    BY <2>2 DEF Detail
  <2>6. ReportRead' /\ IsFiniteSet(got'.qa)
    BY <2>1, <2>3, FS_EmptySet DEF ReportRead, Descending
  <2> QED BY <2>2, <2>4, <2>5, <2>6
<1>2. ASSUME ReadQa PROVE ReportInv'
  <2> DEFINE rows == {q \in qa : q.session \in ToSet(got.sessions)}
  <2>1. got' = [got EXCEPT !.at = "reports", !.qa = rows] /\ UNCHANGED <<status, qa, reported, decision, detail>>
    BY <1>2 DEF ReadQa, candidate
  <2>2. rows \in SUBSET qa /\ \A q \in rows : \E n \in DOMAIN got.sessions : got.sessions[n] = q.session
    BY DEF ToSet
  <2> HIDE DEF rows
  <2>3. IsFiniteSet(rows)
    BY <2>2, FS_Subset
  <2>4. got'.at = "reports" /\ got'.qa = rows /\ got'.sessions = got.sessions
    BY <2>1
  <2>5. got' \in [at : {"sessions", "qa", "reports", "page"}, sessions : Seq(Attempts),
                  status : [Attempts -> Terminal \union {"none", "in_progress"}], qa : SUBSET QA, reports : Seq(Attempts)]
    BY <2>1, <2>2
  <2>6. ReportRead'
    BY <2>2, <2>4 DEF ReportRead, Descending
  <2> QED BY <2>1, <2>3, <2>4, <2>5, <2>6
<1>3. ASSUME ReadReports PROVE ReportInv'
  <2> DEFINE given == Filter(reported, ToSet(got.sessions))
  <2>1. got' = [got EXCEPT !.at = "page", !.reports = Reverse(given)] /\ UNCHANGED <<status, qa, reported, decision, detail>>
    BY <1>3 DEF ReadReports, candidate
  <2>2. given \in Seq(Attempts)
    BY FilterKeeps
  <2> HIDE DEF given
  <2>3. Reverse(given) \in Seq(Attempts)
    <3>1. \A i \in 1 .. Len(given) : (Len(given) - i) + 1 \in 1 .. Len(given) /\ given[(Len(given) - i) + 1] \in Attempts
      BY <2>2
    <3> QED BY <2>2, <3>1 DEF Reverse
  <2>4. got'.at = "page" /\ got'.qa = got.qa /\ got'.sessions = got.sessions
    BY <2>1
  <2>5. got' \in [at : {"sessions", "qa", "reports", "page"}, sessions : Seq(Attempts),
                  status : [Attempts -> Terminal \union {"none", "in_progress"}], qa : SUBSET QA, reports : Seq(Attempts)]
    BY <2>1, <2>3
  <2>6. ReportRead'
    BY <2>4 DEF ReportRead, Descending
  <2> QED BY <2>1, <2>4, <2>5, <2>6
<1> QED BY <1>1, <1>2, <1>3

(* The page's own state, and the decisions, are beside what was read.       *)
LEMMA DetailKeeps ==
    ASSUME ReportInv, detail' \in Detail, UNCHANGED <<status, qa, reported, got>>,
           decision' \in [override : {"none", "advance"}, first : {"applied", "interview_sent"}]
    PROVE  ReportInv'
BY DEF ReportInv, ReportTyped, ReportRead, Descending

LEMMA PageStepsKeep ==
    ASSUME ReportInv, PageSteps, ~(ReadSessions \/ ReadQa \/ ReadReports)
    PROVE  ReportInv'
<1> USE DEF candidate
<1>1. /\ decision' = decision /\ UNCHANGED <<status, qa, reported, got>>
  BY DEF PageSteps, fetchSummary, SummaryRefused, setOverrideRec, OverrideRefused, handleOverride,
         setManualScreenOpen, setManualDecision, handleManualScreen, ManualScreenRefused
<1>2. detail \in Detail /\ detail.requests + 1 \in Nat
  BY DEF ReportInv, ReportTyped, Detail
<1> DEFINE n == detail.requests + 1
<1>3. detail.requests \in Nat /\ n \in Nat
  BY <1>2 DEF Detail
<1>4. fetchSummary => detail' = [detail EXCEPT !.summaryAsked = TRUE, !.isSummaryLoading = TRUE, !.summaryError = FALSE,
                                               !.requests = n]
  BY DEF fetchSummary
<1>5. handleOverride => detail' = [detail EXCEPT !.overriding = @ \union {detail.overrideRec}, !.requests = n]
  BY DEF handleOverride
<1>6. handleManualScreen => detail' = [detail EXCEPT !.manualScreening = TRUE, !.requests = n]
  BY DEF handleManualScreen
<1> HIDE DEF n
<1>7. fetchSummary \/ handleOverride \/ handleManualScreen => detail' \in Detail
  <2>1. fetchSummary => detail' \in Detail
    BY <1>2, <1>3, <1>4 DEF Detail
  <2>2. handleOverride => detail' \in Detail
    <3>1. detail.overriding \union {detail.overrideRec} \in SUBSET {"no_override", "advance"}
      BY <1>2 DEF Detail
    <3> QED BY <1>2, <1>3, <1>5, <3>1 DEF Detail
  <2>3. handleManualScreen => detail' \in Detail
    BY <1>2, <1>3, <1>6 DEF Detail
  <2> QED BY <2>1, <2>2, <2>3
<1>8. ASSUME NEW v \in {"no_override", "advance"}, setOverrideRec(v) \/ OverrideRefused(v) PROVE detail' \in Detail
  BY <1>2, <1>8 DEF setOverrideRec, OverrideRefused, Detail
<1>9. ASSUME NEW open \in BOOLEAN, setManualScreenOpen(open) PROVE detail' \in Detail
  BY <1>2, <1>9 DEF setManualScreenOpen, Detail
<1>10. ASSUME NEW d \in {"pass", "reject"}, setManualDecision(d) PROVE detail' \in Detail
  BY <1>2, <1>10 DEF setManualDecision, Detail
<1>11. SummaryRefused \/ ManualScreenRefused => detail' \in Detail
  BY <1>2 DEF SummaryRefused, ManualScreenRefused, Detail
<1>12. detail' \in Detail
  BY <1>7, <1>8, <1>9, <1>10, <1>11 DEF PageSteps
<1> QED BY <1>1, <1>12, DetailKeeps DEF ReportInv, ReportTyped

LEMMA ReportStep == ReportInv /\ [ReportNext]_reportVars => ReportInv'
<1> SUFFICES ASSUME ReportInv, [ReportNext]_reportVars PROVE ReportInv'
  OBVIOUS
<1>1. CASE Interviews
  BY <1>1, InterviewsKeep
<1>2. CASE PageSteps
  BY <1>2, ReadsKeep, PageStepsKeep
<1>3. CASE OverriddenElsewhere("advance")
  BY <1>3, DetailKeeps DEF OverriddenElsewhere, ReportInv, ReportTyped
<1>4. CASE UNCHANGED reportVars
  BY <1>4, DetailKeeps DEF reportVars, candidate, ReportInv, ReportTyped
<1> QED BY <1>1, <1>2, <1>3, <1>4 DEF ReportNext

(* The rows of one attempt differ in their numbers: they can be sorted.     *)
LEMMA InOrderOrders ==
    ASSUME NEW rows, IsFiniteSet(rows), rows \subseteq QA, \A p, q \in rows : p.session = q.session
    PROVE  /\ ToSet(InOrder(rows)) = rows
           /\ \A i, j \in DOMAIN InOrder(rows) : i < j => InOrder(rows)[i].number < InOrder(rows)[j].number
<1> DEFINE key == [q \in rows |-> q.number]
           R == Ascending(rows, key)
           s == SortedBy(rows, R)
           c == Cardinality(rows)
<1>1. \A p, q \in rows : <<p, q>> \in R <=> p.number < q.number
  BY DEF Ascending
<1>2. \A p, q \in rows : p.number \in Nat /\ (p # q => p.number # q.number)
  BY DEF QA
<1>3. InOrder(rows) = s
  BY Zenon DEF InOrder
<1> HIDE DEF R
<1>4. Orders(R, rows)
  <2>1. \A x \in rows : <<x, x>> \notin R
    BY <1>1, <1>2
  <2>2. \A x, y, z \in rows : <<x, y>> \in R /\ <<y, z>> \in R => <<x, z>> \in R
    BY <1>1, <1>2
  <2>3. \A x, y \in rows : x # y => <<x, y>> \in R \/ <<y, x>> \in R
    BY <1>1, <1>2
  <2> QED BY <2>1, <2>2, <2>3 DEF Orders
<1>5. /\ s \in [1 .. c -> rows]
      /\ \A x \in rows : \E n \in 1 .. c : s[n] = x
      /\ \A m, n \in 1 .. c : m < n <=> <<s[m], s[n]>> \in R
  BY <1>4, SortedByOrders
<1> HIDE DEF s, c
<1>6. ToSet(s) = rows
  BY <1>5 DEF ToSet
<1>7. \A i, j \in DOMAIN s : i < j => s[i].number < s[j].number
  BY <1>1, <1>5
<1> QED BY <1>3, <1>6, <1>7

(* The attempts listed are in their order, and those with rows are there.   *)
LEMMA PopulatedOrders ==
    ASSUME ReportInv
    PROVE  /\ populatedSessions \in Seq(Attempts)
           /\ Descending(populatedSessions)
           /\ \A q \in got.qa : \E i \in DOMAIN populatedSessions : populatedSessions[i] = q.session
<1> DEFINE K == {s \in Attempts : qaBySession(s) # {} \/ got.status[s] \in Terminal \ {"completed"}}
           f == Filter(got.sessions, K)
<1>1. got.sessions \in Seq(Attempts) /\ got.qa \subseteq QA
  BY DEF ReportInv, ReportTyped
<1>2. \A q \in got.qa : q.session \in K
  BY <1>1 DEF qaBySession, QA
<1>3. populatedSessions = f
  BY Zenon DEF populatedSessions
<1> HIDE DEF K, f
<1>0. f = Filter(got.sessions, K)
  BY Zenon DEF f
<1>4. f \in Seq(Attempts) /\ \A i \in DOMAIN got.sessions : got.sessions[i] \in K => \E n \in DOMAIN f : f[n] = got.sessions[i]
  BY <1>1, <1>0, FilterKeeps
<1>5. PICK at \in [DOMAIN f -> DOMAIN got.sessions] :
         /\ \A n \in DOMAIN f : f[n] = got.sessions[at[n]]
         /\ \A m, n \in DOMAIN f : m < n => at[m] < at[n]
  BY <1>1, <1>0, FilterKeeps
<1>6. Descending(f)
  BY <1>5 DEF ReportInv, ReportRead, Descending
<1>7. \A q \in got.qa : \E i \in DOMAIN f : f[i] = q.session
  BY <1>2, <1>4 DEF ReportInv, ReportRead
<1> QED BY <1>3, <1>4, <1>6, <1>7

LEMMA BlocksAreComplete == ReportInv => TranscriptsAreComplete
<1> SUFFICES ASSUME ReportInv PROVE TranscriptsAreComplete
  OBVIOUS
<1> DEFINE listed == populatedSessions
<1>1. /\ listed \in Seq(Attempts)
      /\ Descending(listed)
      /\ \A q \in got.qa : \E i \in DOMAIN listed : listed[i] = q.session
  BY PopulatedOrders
<1>2. \A i \in DOMAIN listed : /\ SessionBlock(i).session = listed[i]
                               /\ SessionBlock(i).attemptNumber = Len(listed) + 1 - i
                               /\ SessionBlock(i).sortedQa = InOrder(qaBySession(listed[i]))
  BY DEF SessionBlock
<1>3. ASSUME NEW s PROVE /\ ToSet(InOrder(qaBySession(s))) = qaBySession(s)
                         /\ \A i, j \in DOMAIN InOrder(qaBySession(s)) :
                               i < j => InOrder(qaBySession(s))[i].number < InOrder(qaBySession(s))[j].number
  <2>1. qaBySession(s) \in SUBSET got.qa /\ \A p, q \in qaBySession(s) : p.session = q.session
    BY DEF qaBySession
  <2>2. IsFiniteSet(qaBySession(s)) /\ qaBySession(s) \subseteq QA
    BY <2>1, FS_Subset DEF ReportInv, ReportTyped
  <2> QED BY <2>1, <2>2, InOrderOrders
<1> HIDE DEF listed
<1>4. \A b \in Blocks : \E i \in DOMAIN listed : /\ b.session = listed[i]
                                                 /\ b.attemptNumber = Len(listed) + 1 - i
                                                 /\ b.sortedQa = InOrder(qaBySession(listed[i]))
  BY <1>2 DEF Blocks, listed
<1>5. \A i \in DOMAIN listed : \E b \in Blocks : b.sortedQa = InOrder(qaBySession(listed[i]))
  BY <1>2 DEF Blocks, listed
<1>6. \A b \in Blocks : ToSet(b.sortedQa) = qaBySession(b.session)
  BY <1>3, <1>4
<1>7. \A b \in Blocks, q \in got.qa : q \in ToSet(b.sortedQa) <=> q.session = b.session
  BY <1>6 DEF qaBySession
<1>8. UNION {ToSet(b.sortedQa) : b \in Blocks} = got.qa
  <2>1. \A b \in Blocks : ToSet(b.sortedQa) \subseteq got.qa
    BY <1>6 DEF qaBySession
  <2>2. \A q \in got.qa : \E b \in Blocks : q \in ToSet(b.sortedQa)
    <3> SUFFICES ASSUME NEW q \in got.qa PROVE \E b \in Blocks : q \in ToSet(b.sortedQa)
      OBVIOUS
    <3>1. PICK i \in DOMAIN listed : listed[i] = q.session
      BY <1>1
    <3>2. PICK b \in Blocks : b.sortedQa = InOrder(qaBySession(q.session))
      BY <1>5, <3>1
    <3>3. q \in qaBySession(q.session)
      BY DEF qaBySession
    <3> QED BY <1>3, <3>2, <3>3
  <2> QED BY <2>1, <2>2
<1>9. \A b \in Blocks : \A i, j \in DOMAIN b.sortedQa : i < j => b.sortedQa[i].number < b.sortedQa[j].number
  BY <1>3, <1>4
<1>10. ASSUME NEW b \in Blocks, NEW c \in Blocks, b.session < c.session PROVE b.attemptNumber < c.attemptNumber
  <2>1. PICK i \in DOMAIN listed : b.session = listed[i] /\ b.attemptNumber = Len(listed) + 1 - i
    BY <1>4
  <2>2. PICK j \in DOMAIN listed : c.session = listed[j] /\ c.attemptNumber = Len(listed) + 1 - j
    BY <1>4
  <2>3. listed[i] \in Int /\ listed[j] \in Int /\ i \in Nat /\ j \in Nat /\ Len(listed) \in Nat
    <3>1. \A n \in DOMAIN listed : n \in Nat /\ listed[n] \in Attempts
      BY <1>1
    <3>2. Attempts \subseteq Int
      BY DEF Attempts
    <3>3. i \in Nat /\ j \in Nat /\ listed[i] \in Int /\ listed[j] \in Int
      BY <3>1, <3>2
    <3>4. Len(listed) \in Nat
      BY <1>1
    <3> QED BY <3>3, <3>4
  <2>4. ~(i < j) /\ i # j
    BY <1>1, <1>10, <2>1, <2>2, <2>3 DEF Descending
  <2> QED BY <2>1, <2>2, <2>3, <2>4
<1> QED BY <1>7, <1>8, <1>9, <1>10 DEF TranscriptsAreComplete

(* Every row of a transcript that a recruiter's page was given is in the    *)
(* block of its attempt, once, in the order of the questions, for any       *)
(* number of attempts and questions, and whatever interviews did between    *)
(* the page's reads (candidates/[id]/page.tsx, interview-report.tsx).       *)
THEOREM TranscriptsAreWhole == ReportSpec => []TranscriptsAreComplete
<1>1. ReportSpec => []ReportInv
  BY ReportInitially, ReportStep, PTL DEF ReportSpec
<1> QED BY <1>1, BlocksAreComplete, PTL

=============================================================================
