--------------------------- MODULE Downloads_proofs ---------------------------
(***************************************************************************)
(* Proofs about Downloads, for any number of URLs, versions, sizes and      *)
(* headers: a URL is spent by one body, what is served is what was promised *)
(* but for the changes of the file, and Parse finds the bytes that a header *)
(* asks for.                                                                *)
(***************************************************************************)
EXTENDS Downloads, TLAPS

------------------------------------------------------------------------------
(* Ranges. *)

(* The last so many bytes. *)
Suffix(h) == h.first = Nothing /\ h.last # Nothing /\ h.last > 0

(* Of a file of any size, Parse answers Nothing only for a header that asks for no
   byte of it, and else the first and the last byte it asks for: so a header that
   asks for none is refused, but for the suffix of an empty file, which is taken
   for the range from 0 to -1 (download.py:307-308).                               *)
THEOREM ParseIsAsked ==
  ASSUME NEW h \in [first : Nat \cup {Nothing}, last : Int \cup {Nothing}],
         NEW size \in Nat
  PROVE  /\ Parse(h, size) = Nothing => Asked(h, size) = {}
         /\ Parse(h, size) # Nothing =>
              /\ Parse(h, size) \in [start : Nat, end : Int]
              /\ Parse(h, size).end < size
              /\ Asked(h, size) = Parse(h, size).start .. Parse(h, size).end
              /\ Asked(h, size) = {} <=> size = 0
         /\ size = 0 => Parse(h, size) = IF Suffix(h) THEN [start |-> 0, end |-> -1] ELSE Nothing
<1>1. CASE h.first = Nothing /\ (h.last = Nothing \/ h.last <= 0)
  <2>1. Parse(h, size) = Nothing BY <1>1 DEF Parse
  <2>2. Asked(h, size) = {} BY <1>1, NothingAssumption DEF Asked
  <2>3. ~Suffix(h) BY <1>1 DEF Suffix
  <2>4. QED BY <2>1, <2>2, <2>3
<1>2. CASE h.first = Nothing /\ h.last # Nothing /\ h.last > 0
  <2> DEFINE start == IF size > h.last THEN size - h.last ELSE 0
  <2>1. h.last \in Nat \ {0} BY <1>2
  <2>2. start \in Nat /\ size - 1 \in Int BY <2>1
  <2>3. ~(h.last <= 0) BY <2>1
  <2>4. Parse(h, size) = [start |-> start, end |-> size - 1] BY <1>2, <2>3 DEF Parse
  <2>5. Asked(h, size) = start .. size - 1
    <3>1. \A i \in 0 .. size - 1 : i >= size - h.last <=> i >= start BY <2>1
    <3>2. Asked(h, size) = {i \in 0 .. size - 1 : i >= size - h.last} BY <1>2 DEF Asked
    <3>3. QED BY <2>2, <3>1, <3>2
  <2>6. [start |-> start, end |-> size - 1] \in [start : Nat, end : Int] BY <2>2
  <2>7. start .. size - 1 = {} <=> size = 0
    <3>1. size = 0 => start = 0 BY <2>1
    <3>2. size # 0 => start <= size - 1 BY <2>1
    <3> HIDE DEF start
    <3>3. CASE size = 0 BY <3>1, <3>3
    <3>4. CASE size # 0
      <4>1. start \in start .. size - 1 BY <2>2, <3>2, <3>4
      <4>2. QED BY <3>4, <4>1
    <3>5. QED BY <3>3, <3>4
  <2>8. size = 0 => start = 0 /\ size - 1 = -1 BY <2>1
  <2>9. Suffix(h) BY <1>2 DEF Suffix
  <2> HIDE DEF start
  <2>10. QED BY <2>2, <2>4, <2>5, <2>6, <2>7, <2>8, <2>9, NothingAssumption
<1>3. CASE /\ h.first # Nothing
           /\ h.first >= size \/ (h.last # Nothing /\ h.last < h.first)
  <2>1. Parse(h, size) = Nothing BY <1>3 DEF Parse
  <2>2. h.first \in Nat BY <1>3
  <2>3. Asked(h, size) = {} BY <1>3, <2>2 DEF Asked
  <2>4. QED BY <1>3, <2>1, <2>3 DEF Suffix
<1>4. CASE /\ h.first # Nothing
           /\ ~(h.first >= size \/ (h.last # Nothing /\ h.last < h.first))
  <2> DEFINE upTo == IF h.last = Nothing \/ h.last >= size THEN size - 1 ELSE h.last
  <2>1. h.first \in Nat /\ h.first < size BY <1>4
  <2>2. h.last # Nothing => h.last \in Int /\ h.last >= h.first BY <1>4, <2>1
  <2>3. upTo \in Nat /\ h.first <= upTo /\ upTo < size
    <3>1. CASE h.last = Nothing BY <2>1, <3>1
    <3>2. CASE h.last # Nothing BY <2>1, <2>2, <3>2
    <3>3. QED BY <3>1, <3>2
  <2>4. Parse(h, size) = [start |-> h.first, end |-> upTo] BY <1>4 DEF Parse
  <2>5. Asked(h, size) = h.first .. upTo
    <3>1. Asked(h, size) = {i \in 0 .. size - 1 :
                              i >= h.first /\ (h.last = Nothing \/ i <= h.last)}
      BY <1>4 DEF Asked
    <3>2. CASE h.last = Nothing BY <2>1, <3>1, <3>2
    <3>3. CASE h.last # Nothing /\ h.last >= size BY <2>1, <2>2, <3>1, <3>3
    <3>4. CASE h.last # Nothing /\ ~(h.last >= size) BY <2>1, <2>2, <3>1, <3>4
    <3>5. QED BY <3>2, <3>3, <3>4
  <2>6. [start |-> h.first, end |-> upTo] \in [start : Nat, end : Int] BY <2>1, <2>3
  <2> HIDE DEF upTo
  <2>7. h.first \in h.first .. upTo /\ size # 0 BY <2>1, <2>3
  <2>8. QED BY <2>1, <2>3, <2>4, <2>5, <2>6, <2>7, NothingAssumption
<1>5. QED
  <2>1. h.last = Nothing \/ h.last \in Int
    OBVIOUS
  <2>2. h.last \in Int => h.last <= 0 \/ h.last > 0
    OBVIOUS
  <2>3. QED BY <1>1, <1>2, <1>3, <1>4, <2>1, <2>2

------------------------------------------------------------------------------
(* A URL is spent by one body. *)

(* The types the argument needs, and what a URL that was never issued, a body
   that is being read and a URL that was spent in vain have in common: no body. *)
SpentTypes ==
  /\ record \in [Urls -> {"none", "live", "expired", "swept"}]
  /\ consumed \subseteq Urls
  /\ at \in Urls \cup {Nothing}
  /\ bodies \in [Urls -> Nat]

SpentInv ==
  /\ SpentTypes
  /\ UrlIsSpentByOneBody
  /\ \A u \in Urls : u \notin consumed /\ record[u] # "swept" => bodies[u] = 0
  /\ at # Nothing =>
       /\ record[at] \in {"live", "expired"}
       /\ asked = Nothing => at \in consumed /\ bodies[at] = 0

LEMMA SpentInit == Init => SpentInv
BY NothingAssumption DEF Init, SpentInv, SpentTypes, UrlIsSpentByOneBody

LEMMA SpentStep == SpentInv /\ [Next]_vars => SpentInv'
<1> SUFFICES ASSUME SpentInv, [Next]_vars PROVE SpentInv'
  OBVIOUS
<1> USE DEF SpentInv, SpentTypes, UrlIsSpentByOneBody
<1>1. ASSUME NEW v \in Versions \cup {Nothing}, ChangeFile(v) PROVE SpentInv'
  BY <1>1 DEF ChangeFile
<1>2. ASSUME NEW u \in Urls, Expire(u) PROVE SpentInv'
  BY <1>2 DEF Expire
<1>3. CASE Crash
  BY <1>3 DEF Crash, Spoil
<1>4. ASSUME NEW u \in Urls, NEW old \in SUBSET Urls, RequestUrl(u, old) PROVE SpentInv'
  BY <1>4 DEF RequestUrl, Sweep
<1>5. ASSUME NEW old \in SUBSET Urls, RequestRefused(old) PROVE SpentInv'
  BY <1>5 DEF RequestRefused, Sweep
<1>6. ASSUME NEW u \in Urls, Refuse(u) PROVE SpentInv'
  BY <1>6 DEF Refuse
<1>7. ASSUME NEW u \in Urls, RecordFails(u) PROVE SpentInv'
  BY <1>7 DEF RecordFails
<1>8. ASSUME NEW u \in Urls, NEW m \in Methods, Accept(u, m) PROVE SpentInv'
  <2>1. /\ at = Nothing /\ record[u] = "live" /\ u \notin consumed
        /\ asked' = m.range /\ (at' = Nothing \/ (at' = u /\ m.verb = "GET"))
        /\ UNCHANGED <<record, bodies, lost>>
    BY <1>8 DEF Accept, Good
  <2>2. CASE Consumes(m)
    <3>1. m.verb = "GET" /\ m.range = Nothing BY <2>2 DEF Consumes
    <3>2. consumed' = consumed \cup {u} /\ at' = u BY <1>8, <2>2, <3>1 DEF Accept
    <3>3. QED BY <2>1, <3>1, <3>2, NothingAssumption
  <2>3. CASE ~Consumes(m)
    <3>1. consumed' = consumed BY <1>8, <2>3 DEF Accept
    <3>2. at' # Nothing => asked' # Nothing BY <2>1, <2>3 DEF Consumes
    <3>3. QED BY <2>1, <3>1, <3>2, NothingAssumption
  <2>4. QED BY <2>2, <2>3
<1>9. CASE ServeWhole
  BY <1>9, NothingAssumption DEF ServeWhole
<1>10. CASE ServeSlice
  BY <1>10 DEF ServeSlice
<1>11. CASE ReadFails
  BY <1>11 DEF ReadFails, Spoil
<1>12. CASE UNCHANGED vars
  BY <1>12 DEF vars
<1>13. QED
  BY <1>1, <1>2, <1>3, <1>4, <1>5, <1>6, <1>7, <1>8, <1>9, <1>10, <1>11, <1>12 DEF Next

(* Whatever the clients, the other writers and the crashes do, each URL serves
   one whole body at most, and nothing but a full GET spends it.              *)
THEOREM OneBody == Spec => []UrlIsSpentByOneBody
<1>1. SpentInv => UrlIsSpentByOneBody
  BY DEF SpentInv
<1>2. QED BY SpentInit, SpentStep, <1>1, PTL DEF Spec

------------------------------------------------------------------------------
(* What is served was promised. *)

(* An issued URL has a promise; a read that is about to happen was checked: the
   file was as long as promised, and its header asks for a byte.               *)
PromiseTypes ==
  /\ file \in Versions \cup {Nothing}
  /\ record \in [Urls -> {"none", "live", "expired", "swept"}]
  /\ promise \in [Urls -> Versions \cup {Nothing}]
  /\ at \in Urls \cup {Nothing}
  /\ asked \in Headers \cup {Nothing}
  /\ checked \in Versions \cup {Nothing}

Issued(u) == record[u] # "none" /\ promise[u] \in Versions

PromiseInv ==
  /\ PromiseTypes
  /\ ServedIsPromised
  /\ \A u \in Urls : record[u] # "none" => promise[u] \in Versions
  /\ at # Nothing =>
       /\ Issued(at) /\ checked \in Versions /\ Size[checked] = Size[promise[at]]
       /\ asked # Nothing => Parse(asked, Size[promise[at]]) # Nothing
  /\ answer.status \in {200, 206, 416} => answer.url \in Urls /\ record[answer.url] # "none"

LEMMA PromiseInit == Init => PromiseInv
BY NothingAssumption DEF Init, PromiseInv, PromiseTypes, ServedIsPromised, Silent

(* A step that leaves the answer and its check alone, or answers with an error. *)
LEMMA NothingServed ==
  ASSUME PromiseInv,
         \/ answer'.status \notin {200, 206, 416}
         \/ /\ UNCHANGED <<answer, asked, checked>>
            /\ \A u \in Urls : record[u] # "none" => record'[u] # "none" /\ promise'[u] = promise[u]
  PROVE  /\ ServedIsPromised'
         /\ (answer.status \in {200, 206, 416} =>
               answer.url \in Urls /\ record[answer.url] # "none")'
<1>1. CASE answer'.status \notin {200, 206, 416}
  BY <1>1 DEF ServedIsPromised
<1>2. CASE /\ UNCHANGED <<answer, asked, checked>>
           /\ \A u \in Urls : record[u] # "none" => record'[u] # "none" /\ promise'[u] = promise[u]
  <2>1. answer.status \in {200, 206, 416} =>
          promise'[answer.url] = promise[answer.url] /\ record'[answer.url] # "none"
    BY <1>2 DEF PromiseInv
  <2>2. CASE answer.status \in {200, 206, 416}
    BY <1>2, <2>1, <2>2 DEF PromiseInv, ServedIsPromised
  <2>3. CASE answer.status \notin {200, 206, 416}
    BY <1>2, <2>3 DEF ServedIsPromised
  <2>4. QED BY <2>2, <2>3
<1>3. QED BY <1>1, <1>2

LEMMA PromiseStep == PromiseInv /\ [Next]_vars => PromiseInv'
<1> SUFFICES ASSUME PromiseInv, [Next]_vars PROVE PromiseInv'
  OBVIOUS
<1> DEFINE Answered == answer.status \in {200, 206, 416} =>
                         answer.url \in Urls /\ record[answer.url] # "none"
<1> DEFINE Rest ==
      /\ PromiseTypes
      /\ \A u \in Urls : record[u] # "none" => promise[u] \in Versions
      /\ at # Nothing =>
           /\ Issued(at) /\ checked \in Versions /\ Size[checked] = Size[promise[at]]
           /\ asked # Nothing => Parse(asked, Size[promise[at]]) # Nothing
<1>a. (Rest /\ ServedIsPromised /\ Answered)' => PromiseInv'
  BY DEF PromiseInv
<1>b. PromiseTypes /\ Rest
  BY DEF PromiseInv
<1>1. ASSUME NEW v \in Versions \cup {Nothing}, ChangeFile(v) PROVE PromiseInv'
  <2>1. UNCHANGED <<record, promise, at, asked, answer, checked>> /\ file' = v
    BY <1>1 DEF ChangeFile
  <2>2. Rest' BY <1>b, <2>1 DEF PromiseTypes, Issued
  <2>3. QED BY <1>a, <2>1, <2>2, NothingServed
<1>2. ASSUME NEW u \in Urls, Expire(u) PROVE PromiseInv'
  <2>1. /\ record[u] = "live" /\ record' = [record EXCEPT ![u] = "expired"]
        /\ UNCHANGED <<file, promise, at, asked, answer, checked>>
    BY <1>2 DEF Expire
  <2>2. Rest' BY <1>b, <2>1 DEF PromiseTypes, Issued
  <2>3. \A w \in Urls : record[w] # "none" => record'[w] # "none"
    BY <1>b, <2>1 DEF PromiseTypes
  <2>4. QED BY <1>a, <2>1, <2>2, <2>3, NothingServed
<1>3. CASE Crash
  <2>1. UNCHANGED <<file, record, promise, asked, checked>> /\ at' = Nothing /\ answer' = Silent
    BY <1>3 DEF Crash
  <2>2. Rest' BY <1>b, <2>1 DEF PromiseTypes
  <2>3. answer'.status \notin {200, 206, 416} BY <2>1 DEF Silent
  <2>4. QED BY <1>a, <2>2, <2>3, NothingServed
<1>4. ASSUME NEW u \in Urls, NEW old \in SUBSET Urls, RequestUrl(u, old) PROVE PromiseInv'
  <2>1. /\ record[u] = "none" /\ file # Nothing /\ at = Nothing
        /\ \A w \in old : record[w] = "expired"
        /\ record' = [w \in Urls |-> IF w = u THEN "live" ELSE IF w \in old THEN "swept" ELSE record[w]]
        /\ promise' = [promise EXCEPT ![u] = file]
        /\ UNCHANGED <<file, at, asked, answer, checked>>
    BY <1>4 DEF RequestUrl, Sweep
  <2>2. Rest' BY <1>b, <2>1 DEF PromiseTypes
  <2>3. \A w \in Urls : record[w] # "none" => record'[w] # "none" /\ promise'[w] = promise[w]
    BY <1>b, <2>1 DEF PromiseTypes
  <2>4. QED BY <1>a, <2>1, <2>2, <2>3, NothingServed
<1>5. ASSUME NEW old \in SUBSET Urls, RequestRefused(old) PROVE PromiseInv'
  <2>1. /\ at = Nothing /\ \A w \in old : record[w] = "expired"
        /\ record' = [w \in Urls |-> IF w \in old THEN "swept" ELSE record[w]]
        /\ UNCHANGED <<file, promise, at, asked, answer, checked>>
    BY <1>5 DEF RequestRefused, Sweep
  <2>2. Rest' BY <1>b, <2>1 DEF PromiseTypes
  <2>3. \A w \in Urls : record[w] # "none" => record'[w] # "none"
    BY <1>b, <2>1 DEF PromiseTypes
  <2>4. QED BY <1>a, <2>1, <2>2, <2>3, NothingServed
<1>6. ASSUME NEW u \in Urls, Refuse(u) PROVE PromiseInv'
  <2>1. /\ at = Nothing /\ checked' = file /\ UNCHANGED <<file, record, promise, at, asked>>
        /\ answer'.status \in {403, 404, 409, 410}
    BY <1>6 DEF Refuse, Answer
  <2>2. Rest' BY <1>b, <2>1 DEF PromiseTypes
  <2>3. QED BY <1>a, <2>1, <2>2, NothingServed
<1>7. ASSUME NEW u \in Urls, RecordFails(u) PROVE PromiseInv'
  <2>1. /\ at = Nothing /\ checked' = file /\ UNCHANGED <<file, record, promise, at, asked>>
        /\ answer'.status = 500
    BY <1>7 DEF RecordFails, Answer
  <2>2. Rest' BY <1>b, <2>1 DEF PromiseTypes
  <2>3. QED BY <1>a, <2>1, <2>2, NothingServed
<1>8. ASSUME NEW u \in Urls, NEW m \in Methods, Accept(u, m) PROVE PromiseInv'
  <2>1. /\ at = Nothing /\ record[u] = "live" /\ file # Nothing /\ Size[file] = Size[promise[u]]
        /\ checked' = file /\ asked' = m.range /\ UNCHANGED <<file, record, promise>>
    BY <1>8 DEF Accept, Good
  <2>2. m.range \in Headers \cup {Nothing} BY DEF Methods
  <2>3. promise[u] \in Versions /\ file \in Versions BY <1>b, <2>1 DEF PromiseTypes
  <2>4. CASE at' = Nothing /\ answer' = [status |-> 200, url |-> u, of |-> promise[u], bytes |-> {}]
    <3>1. Rest' BY <1>b, <2>1, <2>2, <2>4 DEF PromiseTypes
    <3>2. ServedIsPromised' /\ Answered' BY <2>1, <2>4 DEF ServedIsPromised
    <3>3. QED BY <1>a, <3>1, <3>2
  <2>5. CASE /\ at' = Nothing /\ answer' = [status |-> 416, url |-> u, of |-> Nothing, bytes |-> {}]
             /\ m.range # Nothing /\ Parse(m.range, Size[promise[u]]) = Nothing
    <3>1. Rest' BY <1>b, <2>1, <2>2, <2>5 DEF PromiseTypes
    <3>2. Size[promise[u]] \in Nat BY <2>3, SizeAssumption
    <3>3. Asked(m.range, Size[promise[u]]) = {}
      BY <2>2, <2>5, <3>2, HeadersAssumption, ParseIsAsked
    <3>4. ServedIsPromised' /\ Answered' BY <2>1, <2>5, <3>3 DEF ServedIsPromised
    <3>5. QED BY <1>a, <3>1, <3>4
  <2>6. CASE /\ at' = u /\ answer' = Silent
             /\ m.range # Nothing => Parse(m.range, Size[promise[u]]) # Nothing
    <3>1. Rest' BY <1>b, <2>1, <2>2, <2>3, <2>6 DEF PromiseTypes, Issued
    <3>2. answer'.status \notin {200, 206, 416} BY <2>6 DEF Silent
    <3>3. QED BY <1>a, <3>1, <3>2, NothingServed
  <2>7. QED BY <1>8, <2>4, <2>5, <2>6 DEF Accept, Answer
<1>9. CASE ServeWhole
  <2>1. /\ at # Nothing /\ file # Nothing /\ at' = Nothing
        /\ answer' = [status |-> 200, url |-> at, of |-> file, bytes |-> 0 .. Size[file] - 1]
        /\ UNCHANGED <<file, record, promise, asked, checked>>
    BY <1>9 DEF ServeWhole, Answer
  <2>2. Rest' BY <1>b, <2>1 DEF PromiseTypes
  <2>3. Answered' BY <1>b, <2>1 DEF PromiseTypes, Issued
  <2>4. ServedIsPromised' BY <1>b, <2>1 DEF ServedIsPromised
  <2>5. QED BY <1>a, <2>2, <2>3, <2>4
<1>10. CASE ServeSlice
  <2> DEFINE size == Size[promise[at]]
             range == Parse(asked, size)
             bytes == {i \in range.start .. range.end : i < Size[file]}
  <2>1. /\ at # Nothing /\ file # Nothing /\ asked # Nothing /\ at' = Nothing
        /\ answer' = [status |-> 206, url |-> at, of |-> file, bytes |-> bytes]
        /\ UNCHANGED <<file, record, promise, asked, checked>>
    BY <1>10 DEF ServeSlice, Answer
  <2>2. Rest' BY <1>b, <2>1 DEF PromiseTypes
  <2>3. Answered' BY <1>b, <2>1 DEF PromiseTypes, Issued
  <2>4. file = checked => bytes = Asked(asked, size) /\ (bytes # {} \/ size = 0)
    <3> SUFFICES ASSUME file = checked
                 PROVE  bytes = Asked(asked, size) /\ (bytes # {} \/ size = 0)
      OBVIOUS
    <3>1. size \in Nat BY <1>b, <2>1, SizeAssumption DEF Issued
    <3>2. asked \in [first : Nat \cup {Nothing}, last : Int \cup {Nothing}] /\ range # Nothing
      BY <1>b, <2>1, HeadersAssumption DEF PromiseTypes
    <3>3. Size[file] = size BY <1>b, <2>1
    <3> HIDE DEF size
    <3>4. /\ range \in [start : Nat, end : Int] /\ range.end < size
          /\ Asked(asked, size) = range.start .. range.end
          /\ Asked(asked, size) = {} => size = 0
      BY <3>1, <3>2, ParseIsAsked
    <3> HIDE DEF range
    <3>5. range.start \in Nat /\ range.end \in Int BY <3>4
    <3>6. bytes = range.start .. range.end BY <3>1, <3>3, <3>4, <3>5
    <3>7. QED BY <3>4, <3>6
  <2>5. file = checked => Size[file] = size BY <1>b, <2>1
  <2> HIDE DEF bytes, range
  <2>6. ServedIsPromised' BY <2>1, <2>4, <2>5 DEF ServedIsPromised
  <2>7. QED BY <1>a, <2>2, <2>3, <2>6
<1>11. CASE ReadFails
  <2>1. /\ at' = Nothing /\ UNCHANGED <<file, record, promise, asked, checked>>
        /\ answer'.status = 500
    BY <1>11 DEF ReadFails, Answer
  <2>2. Rest' BY <1>b, <2>1 DEF PromiseTypes
  <2>3. QED BY <1>a, <2>1, <2>2, NothingServed
<1>12. CASE UNCHANGED vars
  <2>1. UNCHANGED <<file, record, promise, at, asked, answer, checked>> BY <1>12 DEF vars
  <2>2. Rest' BY <1>b, <2>1 DEF PromiseTypes, Issued
  <2>3. QED BY <1>a, <2>1, <2>2, NothingServed
<1>13. QED
  BY <1>1, <1>2, <1>3, <1>4, <1>5, <1>6, <1>7, <1>8, <1>9, <1>10, <1>11, <1>12 DEF Next

(* What a URL serves was promised, unless the file became another of the same
   size, or changed while it was being served; and a slice has exactly the bytes
   its header asks for.                                                          *)
THEOREM Promised == Spec => []ServedIsPromised
<1>1. PromiseInv => ServedIsPromised
  BY DEF PromiseInv
<1>2. QED BY PromiseInit, PromiseStep, <1>1, PTL DEF Spec
==============================================================================
