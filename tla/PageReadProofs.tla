---------------------------- MODULE PageReadProofs ----------------------------
(***************************************************************************)
(* A read of a window that reports no problem missed no row, for any rows  *)
(* and times, page size, cap and console of the three manners.             *)
(*                                                                         *)
(* NothingMissed is about the end of a call.  While it runs, a row that    *)
(* was listed all along and is not yet read is either still beyond the     *)
(* pages read, with nothing older before it (Ahead), or it has crossed a   *)
(* page boundary among rows of its own time; then one of those is read     *)
(* twice and the count stays short (Counted).                              *)
(***************************************************************************)
EXTENDS PageRead, FiniteSetTheorems, SequenceTheorems, TLAPS

Reading == pc = "reading"
Frontier == page * PageSize

\* The console's list, and the rows of the call's beginning.
ListInv ==
    /\ listing \in Seq(Rows) /\ NewestFirst(listing)
    /\ \A i, j \in DOMAIN listing : listing[i] = listing[j] => i = j
    /\ present \subseteq Listed \cup expired

\* Pages asked for, the budget and the first count.
BudgetInv ==
    /\ Reading /\ page > 0 => Frontier < QueryCap /\ Frontier < first
    /\ Reading /\ granted = WholeWindow => left = WholeWindow - page
    /\ Reading /\ capped = "yes" => acceptCap = "yes" /\ rows # {} /\ page > 0
    /\ Reading /\ capped = "no" /\ page > 0 => first < QueryCap

Waits(r) == r \in present /\ r \in Listed /\ r \notin rows
Counted(r) == Cardinality(rows) < Frontier \/ \A q \in rows : q \in Listed /\ TimeOf[q] >= TimeOf[r]
Ahead(r) ==
    /\ \A i \in DOMAIN listing : listing[i] = r => i > Frontier
    /\ \A q \in rows : TimeOf[q] >= TimeOf[r]
WaitInv ==
    Reading => \A r \in Rows : Waits(r) => Counted(r) /\ (manner # "swaps" => Ahead(r))

\* A list that holds still has been read up to the pages answered.
StillInv ==
    Reading /\ manner = "replays" => \A i \in DOMAIN listing : i <= Frontier => listing[i] \in rows

PageInv == TypeOK /\ ListInv /\ BudgetInv /\ WaitInv /\ StillInv /\ NothingMissed

-----------------------------------------------------------------------------
(* Constants and arithmetic. *)

LEMMA PageConstants ==
    /\ PageSize \in Nat /\ PageSize > 0 /\ QueryCap \in Nat /\ QueryCap > 0
    /\ IsFiniteSet(Rows) /\ \A r \in Rows : TimeOf[r] \in Int
    /\ \A c \in ReportCaps : c \in Nat /\ c >= QueryCap
BY PageAssumption

LEMMA Quotient ==
    ASSUME NEW a \in Nat, NEW b \in Nat, b > 0
    PROVE  a \div b \in Nat /\ b * (a \div b) <= a /\ a < b * (a \div b) + b
OBVIOUS

\* A page begins before the last row if and only if it is one of the pages.
LEMMA PagesOf ==
    ASSUME NEW a \in Nat, NEW b \in Nat, b > 0, NEW n \in Nat
    PROVE  n < CeilDiv(a, b) <=> n * b < a
<1> DEFINE c == (a + b - 1) \div b
<1>1. CeilDiv(a, b) = c /\ a + b - 1 \in Nat
    BY DEF CeilDiv
<1>2. c \in Nat /\ b * c <= a + b - 1 /\ a + b - 1 < b * c + b
    BY <1>1, Quotient
<1> HIDE DEF c
<1>3. ASSUME n < c PROVE n * b < a
  <2>1. n + 1 <= c
      BY <1>2, <1>3
  <2>2. b * (n + 1) <= b * c
      BY <1>2, <2>1
  <2>3. b * (n + 1) = n * b + b
      OBVIOUS
  <2> QED
      BY <1>2, <2>2, <2>3
<1>4. ASSUME n >= c PROVE n * b >= a
  <2>1. b * n >= b * c
      BY <1>2, <1>4
  <2>2. b * n = n * b
      OBVIOUS
  <2> QED
      BY <1>2, <2>1, <2>2
<1> QED
    BY <1>1, <1>2, <1>3, <1>4

LEMMA WithinBudget ==
    ASSUME NEW a \in Nat, NEW b \in Nat, b > 0, NEW n \in Nat, n * b < a
    PROVE  n <= a \div b
<1> DEFINE d == a \div b
<1>1. d \in Nat /\ b * d <= a /\ a < b * d + b
    BY Quotient
<1> HIDE DEF d
<1>2. ASSUME n >= d + 1 PROVE FALSE
  <2>1. b * n >= b * (d + 1)
      BY <1>1, <1>2
  <2>2. b * n = n * b /\ b * (d + 1) = b * d + b
      BY <1>1
  <2> QED
      BY <1>1, <2>1, <2>2
<1> QED
    BY <1>1, <1>2 DEF d

LEMMA FrontierMoves ==
    ASSUME NEW n \in Nat
    PROVE  n * PageSize \in Nat /\ (n + 1) * PageSize = n * PageSize + PageSize
BY PageConstants

-----------------------------------------------------------------------------
(* The console's list. *)

LEMMA Inserted ==
    ASSUME NEW s \in Seq(Rows), NEW e \in Rows, NEW i \in 1 .. Len(s) + 1, NEW u, u = InsertAt(s, i, e)
    PROVE  /\ u \in Seq(Rows) /\ Len(u) = Len(s) + 1 /\ u[i] = e
           /\ \A j \in 1 .. i - 1 : u[j] = s[j]
           /\ \A j \in i .. Len(s) : u[j + 1] = s[j]
<1> DEFINE head == SubSeq(s, 1, i - 1)
           tail == SubSeq(s, i, Len(s))
           front == head \o <<e>>
           t == front \o tail
<1>1. /\ head \in Seq(Rows) /\ Len(head) = i - 1 /\ \A j \in 1 .. i - 1 : head[j] = s[j]
  <2>1. \A j \in 1 .. i - 1 : s[j] \in Rows
      OBVIOUS
  <2> QED
      BY <2>1, SubSeqProperties
<1>2. /\ tail \in Seq(Rows) /\ Len(tail) = Len(s) - i + 1 /\ \A j \in 1 .. Len(s) - i + 1 : tail[j] = s[i + j - 1]
  <2>1. \A j \in i .. Len(s) : s[j] \in Rows
      OBVIOUS
  <2> QED
      BY <2>1, SubSeqProperties
<1>3. <<e>> \in Seq(Rows) /\ Len(<<e>>) = 1 /\ <<e>>[1] = e
    OBVIOUS
<1> HIDE DEF head, tail
<1>4. /\ front \in Seq(Rows) /\ Len(front) = i /\ \A j \in 1 .. i - 1 : front[j] = s[j]
      /\ front[i] = e
    BY <1>1, <1>3, ConcatProperties
<1> HIDE DEF front
<1>5. /\ t \in Seq(Rows) /\ Len(t) = Len(s) + 1
      /\ \A j \in 1 .. Len(s) + 1 : t[j] = IF j <= i THEN front[j] ELSE tail[j - i]
    BY <1>2, <1>4, ConcatProperties
<1>6. u = t
    BY DEF InsertAt, front, head, tail
<1> HIDE DEF t
<1>7. \A j \in i .. Len(s) : t[j + 1] = s[j]
  <2> SUFFICES ASSUME NEW j \in i .. Len(s) PROVE t[j + 1] = s[j]
      OBVIOUS
  <2>1. t[j + 1] = tail[j + 1 - i]
      BY <1>5
  <2>2. tail[j + 1 - i] = s[i + (j + 1 - i) - 1]
      BY <1>2
  <2> QED
      BY <2>1, <2>2
<1> QED
    BY <1>4, <1>5, <1>6, <1>7

LEMMA ListingInserted ==
    ASSUME listing \in Seq(Rows), NEW r \in Rows, NEW i \in 1 .. Len(listing) + 1,
           listing' = InsertAt(listing, i, r)
    PROVE  /\ listing' \in Seq(Rows) /\ Len(listing') = Len(listing) + 1 /\ listing'[i] = r
           /\ \A j \in 1 .. i - 1 : listing'[j] = listing[j]
           /\ \A j \in i .. Len(listing) : listing'[j + 1] = listing[j]
BY Inserted

\* What a step of the console must keep of its list for the call to go on as it does.
Kept ==
    /\ listing' \in Seq(Rows) /\ NewestFirst(listing') /\ Listed' \subseteq Rows \ expired' /\ expired' \subseteq Rows
    /\ \A i, j \in DOMAIN listing' : listing'[i] = listing'[j] => i = j
    /\ present \subseteq Listed' \cup expired'
    /\ \A r \in present : r \in Listed' => r \in Listed
    /\ \A r \in Rows, q \in Rows : r \in Listed' /\ q \in Listed /\ TimeOf[q] >= TimeOf[r] /\ r \in present => q \in Listed'
    /\ manner # "swaps" /\ Reading => \A r \in present, j \in DOMAIN listing' : listing'[j] = r =>
          \E i \in DOMAIN listing : i <= j /\ listing[i] = r
    /\ ~(Reading /\ manner = "replays")

LEMMA KeptKeeps ==
    ASSUME PageInv, Kept, UNCHANGED <<reportCap, manner, pc, left, call, locals>>
    PROVE  PageInv'
<1> USE DEF PageInv
<1>1. /\ UNCHANGED <<reportCap, manner, pc, left, granted, acceptCap, present, page, first, rows, problem, capped>>
    BY DEF call, locals
<1>2. Frontier' = Frontier /\ (Reading' <=> Reading)
    BY <1>1 DEF Frontier, Reading
<1>3. TypeOK'
    BY <1>1 DEF Kept, TypeOK
<1>4. ListInv'
    BY <1>1 DEF Kept, ListInv
<1>5. BudgetInv'
    BY <1>1, <1>2 DEF BudgetInv
<1>6. WaitInv'
  <2> SUFFICES ASSUME Reading, NEW r \in Rows, Waits(r)'
               PROVE  Counted(r)' /\ (manner # "swaps" => Ahead(r)')
      BY <1>1, <1>2 DEF WaitInv
  <2>1. Waits(r) /\ r \in present /\ r \in Listed'
      BY <1>1 DEF Waits, Kept
  <2>2. Counted(r) /\ (manner # "swaps" => Ahead(r))
      BY <2>1 DEF WaitInv
  <2>3. Counted(r)'
    <3>1. CASE Cardinality(rows) < Frontier
        BY <1>1, <1>2, <3>1 DEF Counted
    <3>2. CASE \A q \in rows : q \in Listed /\ TimeOf[q] >= TimeOf[r]
      <4>1. \A q \in rows : q \in Rows /\ q \in Listed'
          BY <2>1, <3>2 DEF TypeOK, Kept
      <4> QED
          BY <1>1, <3>2, <4>1 DEF Counted
    <3> QED
        BY <2>2, <3>1, <3>2 DEF Counted
  <2>4. ASSUME manner # "swaps" PROVE Ahead(r)'
    <3>1. ASSUME NEW j \in DOMAIN listing', listing'[j] = r PROVE j > Frontier
      <4>1. PICK i \in DOMAIN listing : i <= j /\ listing[i] = r
          BY <2>1, <2>4, <3>1 DEF Kept
      <4>2. i > Frontier
          BY <2>2, <2>4, <4>1 DEF Ahead
      <4>3. i \in Int /\ j \in Int /\ Frontier \in Int
          BY PageConstants DEF ListInv, Kept, Frontier, TypeOK, CeilDiv
      <4> QED
          BY <4>1, <4>2, <4>3
    <3> QED
        BY <1>1, <1>2, <2>2, <2>4, <3>1 DEF Ahead
  <2> QED
      BY <2>3, <2>4
<1>7. StillInv'
    BY <1>1, <1>2 DEF StillInv, Kept
<1>8. NothingMissed'
    BY <1>1 DEF NothingMissed, Kept
<1> QED
    BY <1>3, <1>4, <1>5, <1>6, <1>7, <1>8

LEMMA InsertKeeps == ASSUME PageInv, NEW r \in Rows, RowInserted(r)
                     PROVE  PageInv'
<1> USE DEF PageInv
<1>1. /\ MayChange /\ r \notin Listed /\ r \notin expired /\ expired' = expired
      /\ UNCHANGED <<reportCap, manner, pc, left, call, locals>>
    BY DEF RowInserted
<1>2. PICK i \in 1 .. Len(listing) + 1 : NewestFirst(InsertAt(listing, i, r)) /\ listing' = InsertAt(listing, i, r)
    BY DEF RowInserted
<1>3. listing \in Seq(Rows) /\ DOMAIN listing = 1 .. Len(listing) /\ Len(listing) \in Nat
    BY DEF ListInv
<1>4. /\ listing' \in Seq(Rows) /\ Len(listing') = Len(listing) + 1 /\ listing'[i] = r
      /\ \A j \in 1 .. i - 1 : listing'[j] = listing[j]
      /\ \A j \in i .. Len(listing) : listing'[j + 1] = listing[j]
    BY <1>2, <1>3, ListingInserted
<1>5. DOMAIN listing' = 1 .. Len(listing) + 1
    BY <1>4
<1>6. ASSUME NEW j \in DOMAIN listing'
      PROVE  \/ j = i /\ listing'[j] = r
             \/ j < i /\ j \in DOMAIN listing /\ listing'[j] = listing[j]
             \/ j > i /\ j - 1 \in DOMAIN listing /\ listing'[j] = listing[j - 1]
  <2>1. CASE j < i
      BY <1>3, <1>4, <1>5, <2>1
  <2>2. CASE j > i
    <3>1. j - 1 \in i .. Len(listing) /\ j - 1 + 1 = j
        BY <1>3, <1>5, <2>2
    <3> QED
        BY <1>3, <1>4, <2>2, <3>1
  <2>3. CASE j = i
      BY <1>4, <2>3
  <2> QED
      BY <1>5, <2>1, <2>2, <2>3
<1>7. ASSUME NEW j \in DOMAIN listing
      PROVE  \E k \in DOMAIN listing' : listing'[k] = listing[j]
  <2>1. CASE j < i
      BY <1>3, <1>4, <1>5, <2>1
  <2>2. CASE j >= i
      BY <1>3, <1>4, <1>5, <2>2
  <2> QED
      BY <1>3, <2>1, <2>2
<1>8. Listed' = Listed \cup {r}
  <2>1. \A q \in Listed' : q \in Listed \cup {r}
      BY <1>6 DEF Listed, ToSet
  <2>2. \A q \in Listed : q \in Listed'
      BY <1>7 DEF Listed, ToSet
  <2>3. r \in Listed'
      BY <1>4, <1>5, <1>2 DEF Listed, ToSet
  <2> QED
      BY <2>1, <2>2, <2>3
<1>9. ASSUME NEW j \in DOMAIN listing', NEW k \in DOMAIN listing', listing'[j] = listing'[k]
      PROVE  j = k
  <2>1. \A m \in DOMAIN listing : listing[m] # r
      BY <1>1 DEF Listed, ToSet
  <2>2. j \in Int /\ k \in Int /\ i \in Int
      BY <1>5
  <2>3. \A m, n \in DOMAIN listing : listing[m] = listing[n] => m = n
      BY DEF ListInv
  <2>4. \/ j = i /\ listing'[j] = r
        \/ j < i /\ j \in DOMAIN listing /\ listing'[j] = listing[j]
        \/ j > i /\ j - 1 \in DOMAIN listing /\ listing'[j] = listing[j - 1]
      BY <1>6
  <2>5. \/ k = i /\ listing'[k] = r
        \/ k < i /\ k \in DOMAIN listing /\ listing'[k] = listing[k]
        \/ k > i /\ k - 1 \in DOMAIN listing /\ listing'[k] = listing[k - 1]
      BY <1>6
  <2> QED
      BY <1>9, <2>1, <2>2, <2>3, <2>4, <2>5
<1>10. r \notin present
    BY <1>1 DEF ListInv
<1>11. ASSUME NEW q \in present, NEW j \in DOMAIN listing', listing'[j] = q
       PROVE  \E k \in DOMAIN listing : k <= j /\ listing[k] = q
  <2>1. \/ j = i /\ listing'[j] = r
        \/ j < i /\ j \in DOMAIN listing /\ listing'[j] = listing[j]
        \/ j > i /\ j - 1 \in DOMAIN listing /\ listing'[j] = listing[j - 1]
      BY <1>6
  <2>2. j \in Int
      BY <1>5
  <2> QED
      BY <1>10, <1>11, <2>1, <2>2
<1>12. Kept
  <2>1. ~(Reading /\ manner = "replays")
      BY <1>1 DEF MayChange, Reading
  <2>2. Listed' \subseteq Rows \ expired' /\ expired' \subseteq Rows
      BY <1>1, <1>8 DEF TypeOK
  <2>3. present \subseteq Listed' \cup expired'
      BY <1>1, <1>8 DEF ListInv
  <2>4. \A q \in present : q \in Listed' => q \in Listed
      BY <1>8, <1>10
  <2> QED
      BY <1>2, <1>4, <1>8, <1>9, <1>11, <2>1, <2>2, <2>3, <2>4 DEF Kept
<1> QED
    BY <1>1, <1>12, KeptKeeps

LEMMA ExpireKeeps == PageInv /\ OldestExpire => PageInv'
<1> SUFFICES ASSUME PageInv, OldestExpire
             PROVE  PageInv'
    OBVIOUS
<1> USE DEF PageInv
<1>1. MayChange /\ listing # <<>> /\ UNCHANGED <<reportCap, manner, pc, left, call, locals>>
    BY DEF OldestExpire
<1>2. PICK k \in 0 .. Len(listing) - 1 :
         /\ \A i \in DOMAIN listing : i <= k <=> TimeOf[listing[i]] > TimeOf[Last(listing)]
         /\ listing' = SubSeq(listing, 1, k)
         /\ expired' = expired \cup {listing[i] : i \in k + 1 .. Len(listing)}
    BY DEF OldestExpire
<1>3. listing \in Seq(Rows) /\ DOMAIN listing = 1 .. Len(listing) /\ Len(listing) \in Nat
    BY DEF ListInv
<1>4. listing' \in Seq(Rows) /\ Len(listing') = k /\ \A i \in 1 .. k : listing'[i] = listing[i]
  <2>1. \A i \in 1 .. k : listing[i] \in Rows
      BY <1>2, <1>3
  <2> QED
      BY <1>2, <2>1, SubSeqProperties
<1>5. DOMAIN listing' = 1 .. k /\ \A i \in DOMAIN listing' : i \in DOMAIN listing /\ listing'[i] = listing[i]
    BY <1>2, <1>3, <1>4
<1>6. NewestFirst(listing') /\ \A i, j \in DOMAIN listing' : listing'[i] = listing'[j] => i = j
  <2>1. NewestFirst(listing) /\ \A i, j \in DOMAIN listing : listing[i] = listing[j] => i = j
      BY DEF ListInv
  <2>2. NewestFirst(listing')
      BY <1>5, <2>1 DEF NewestFirst
  <2>3. \A i, j \in DOMAIN listing' : listing'[i] = listing'[j] => i = j
      BY <1>5, <2>1
  <2> QED
      BY <2>2, <2>3
<1>7. \A q \in Listed : q \in Listed' \/ q \in expired'
  <2> SUFFICES ASSUME NEW i \in DOMAIN listing PROVE listing[i] \in Listed' \/ listing[i] \in expired'
      BY DEF Listed, ToSet
  <2>1. CASE i <= k
    <3>1. i \in DOMAIN listing' /\ listing'[i] = listing[i]
        BY <1>2, <1>3, <1>4, <1>5, <2>1
    <3> QED
        BY <3>1 DEF Listed, ToSet
  <2>2. CASE i > k
    <3>1. i \in k + 1 .. Len(listing)
        BY <1>2, <1>3, <2>2
    <3> QED
        BY <1>2, <3>1
  <2> QED
      BY <1>2, <1>3, <2>1, <2>2
<1>8. \A q \in Listed' : q \in Listed /\ q \notin expired' /\ q \in Rows /\ TimeOf[q] > TimeOf[Last(listing)]
  <2> SUFFICES ASSUME NEW i \in DOMAIN listing'
               PROVE  /\ listing'[i] \in Listed /\ listing'[i] \notin expired' /\ listing'[i] \in Rows
                      /\ TimeOf[listing'[i]] > TimeOf[Last(listing)]
      BY DEF Listed, ToSet
  <2>1. i \in DOMAIN listing /\ i <= k /\ listing'[i] = listing[i]
      BY <1>5
  <2>2. listing[i] \notin expired /\ listing[i] \in Rows /\ listing[i] \in Listed
      BY <2>1 DEF TypeOK, Listed, ToSet
  <2>3. \A j \in k + 1 .. Len(listing) : listing[j] # listing[i]
    <3>1. \A j \in k + 1 .. Len(listing) : j \in DOMAIN listing /\ j # i
        BY <1>2, <1>3, <2>1
    <3> QED
        BY <2>1, <3>1 DEF ListInv
  <2> QED
      BY <1>2, <2>1, <2>2, <2>3
<1>9. Kept
  <2>1. ~(Reading /\ manner = "replays")
      BY <1>1 DEF MayChange, Reading
  <2>2. expired' \subseteq Rows
    <3>1. \A i \in k + 1 .. Len(listing) : listing[i] \in Rows
        BY <1>2, <1>3
    <3> QED
        BY <1>2, <3>1 DEF TypeOK
  <2>3. expired \subseteq expired'
      BY <1>2
  <2>4. present \subseteq Listed' \cup expired'
      BY <1>7, <2>3 DEF ListInv
  <2>5. ASSUME NEW r \in Rows, NEW q \in Rows, r \in Listed', q \in Listed, TimeOf[q] >= TimeOf[r]
        PROVE  q \in Listed'
    <3>1. PICK i \in DOMAIN listing : q = listing[i]
        BY <2>5 DEF Listed, ToSet
    <3>2. Last(listing) \in Rows
        BY <1>1, <1>3 DEF Last
    <3>3. TimeOf[q] > TimeOf[Last(listing)]
        BY <1>8, <2>5, <3>2, PageConstants
    <3>4. i <= k
        BY <1>2, <3>1, <3>3
    <3>5. i \in DOMAIN listing' /\ listing'[i] = q
        BY <1>2, <1>3, <1>4, <1>5, <3>1, <3>4
    <3> QED
        BY <3>5 DEF Listed, ToSet
  <2>6. \A r \in present, j \in DOMAIN listing' : listing'[j] = r => \E i \in DOMAIN listing : i <= j /\ listing[i] = r
    <3>1. \A j \in DOMAIN listing' : j <= j
        BY <1>5
    <3> QED
        BY <1>5, <3>1
  <2> QED
      BY <1>4, <1>6, <1>8, <2>1, <2>2, <2>4, <2>5, <2>6 DEF Kept
<1> QED
    BY <1>1, <1>9, KeptKeeps

LEMMA SwapKeeps == ASSUME PageInv, NEW i \in DOMAIN listing, TiesSwap(i)
                   PROVE  PageInv'
<1> USE DEF PageInv
<1>1. /\ manner = "swaps" /\ i + 1 \in DOMAIN listing /\ TimeOf[listing[i]] = TimeOf[listing[i + 1]] /\ expired' = expired
      /\ listing' = [listing EXCEPT ![i] = listing[i + 1], ![i + 1] = listing[i]]
      /\ UNCHANGED <<reportCap, manner, pc, left, call, locals>>
    BY DEF TiesSwap
<1>2. listing \in Seq(Rows) /\ DOMAIN listing = 1 .. Len(listing) /\ Len(listing) \in Nat
    BY DEF ListInv
<1>3. /\ listing' \in Seq(Rows) /\ DOMAIN listing' = DOMAIN listing
      /\ \A j \in DOMAIN listing : listing'[j] = IF j = i THEN listing[i + 1] ELSE IF j = i + 1 THEN listing[i] ELSE listing[j]
  <2>1. i # i + 1
      BY <1>2
  <2>2. listing[i] \in Rows /\ listing[i + 1] \in Rows
      BY <1>1, <1>2
  <2>3. [listing EXCEPT ![i] = listing[i + 1]] \in Seq(Rows) /\ DOMAIN [listing EXCEPT ![i] = listing[i + 1]] = DOMAIN listing
      BY <1>2, <2>2
  <2> QED
      BY <1>1, <1>2, <2>1, <2>2, <2>3
<1>4. Listed' = Listed
  <2>1. \A j \in DOMAIN listing : listing'[j] \in Listed
      BY <1>1, <1>3 DEF Listed, ToSet
  <2>2. \A j \in DOMAIN listing : \E n \in DOMAIN listing' : listing'[n] = listing[j]
    <3> SUFFICES ASSUME NEW j \in DOMAIN listing PROVE \E n \in DOMAIN listing' : listing'[n] = listing[j]
        OBVIOUS
    <3>1. CASE j = i
        BY <1>1, <1>2, <1>3, <3>1
    <3>2. CASE j = i + 1
        BY <1>1, <1>2, <1>3, <3>2
    <3>3. CASE j # i /\ j # i + 1
        BY <1>3, <3>3
    <3> QED
        BY <3>1, <3>2, <3>3
  <2> QED
      BY <1>3, <2>1, <2>2 DEF Listed, ToSet
<1>5. \A j \in DOMAIN listing : TimeOf[listing'[j]] = TimeOf[listing[j]]
    BY <1>1, <1>3
<1>6. NewestFirst(listing')
    BY <1>3, <1>5 DEF ListInv, NewestFirst
<1>7. \A j, n \in DOMAIN listing' : listing'[j] = listing'[n] => j = n
  <2> SUFFICES ASSUME NEW j \in DOMAIN listing, NEW n \in DOMAIN listing, listing'[j] = listing'[n]
               PROVE  j = n
      BY <1>3
  <2> DEFINE o(m) == IF m = i THEN i + 1 ELSE IF m = i + 1 THEN i ELSE m
  <2>1. /\ o(j) \in DOMAIN listing /\ listing'[j] = listing[o(j)]
        /\ o(n) \in DOMAIN listing /\ listing'[n] = listing[o(n)]
      BY <1>1, <1>3
  <2>2. o(j) = o(n)
      BY <2>1 DEF ListInv
  <2>3. j \in Int /\ n \in Int /\ i \in Int
      BY <1>2
  <2> QED
      BY <2>2, <2>3
<1>8. Kept
    BY <1>1, <1>3, <1>4, <1>6, <1>7 DEF Kept, TypeOK, ListInv
<1> QED
    BY <1>1, <1>8, KeptKeeps

-----------------------------------------------------------------------------
(* The calls. *)

LEMMA BeginKeeps == PageInv /\ Begin => PageInv'
<1> SUFFICES ASSUME PageInv, Begin
             PROVE  PageInv'
    OBVIOUS
<1> USE DEF PageInv
<1>1. /\ pc' = "reading" /\ granted' \in {1, WholeWindow} /\ left' = granted' /\ acceptCap' \in {"yes", "no"}
      /\ page' = 0 /\ first' = 0 /\ rows' = {} /\ problem' = "none" /\ capped' = "no" /\ present' = Listed
      /\ UNCHANGED <<listing, expired, reportCap, manner>>
    BY DEF Begin, Called, server
<1>2. Listed' = Listed /\ Listed \subseteq Rows \ expired
    BY <1>1 DEF Listed, TypeOK
<1>3. Frontier' = 0
    BY <1>1, PageConstants DEF Frontier
<1>4. TypeOK'
  <2>1. WholeWindow \in Nat /\ 1 <= WholeWindow
      BY PageConstants, Quotient DEF WholeWindow
  <2>2. CeilDiv(QueryCap, PageSize) \in Nat /\ 0 < CeilDiv(QueryCap, PageSize)
    <3>1. 0 < CeilDiv(QueryCap, PageSize) <=> 0 * PageSize < QueryCap
        BY PageConstants, PagesOf
    <3>2. QueryCap + PageSize - 1 \in Nat /\ (QueryCap + PageSize - 1) \div PageSize \in Nat
        BY PageConstants, Quotient
    <3> QED
        BY <3>1, <3>2, PageConstants DEF CeilDiv
  <2>3. granted' \in 0 .. WholeWindow /\ left' \in 0 .. granted'
      BY <1>1, <2>1
  <2>4. page' \in 0 .. CeilDiv(QueryCap, PageSize) /\ page' < CeilDiv(QueryCap, PageSize)
      BY <1>1, <2>2
  <2> QED
      BY <1>1, <1>2, <2>3, <2>4 DEF TypeOK
<1>5. ListInv'
    BY <1>1, <1>2 DEF ListInv
<1>6. BudgetInv'
  <2>1. ~(page' > 0) /\ WholeWindow \in Nat
      BY <1>1, PageConstants, Quotient DEF WholeWindow
  <2> QED
      BY <1>1, <2>1 DEF BudgetInv
<1>7. WaitInv'
  <2>1. \A i \in DOMAIN listing : i > 0
      BY DEF ListInv
  <2> QED
      BY <1>1, <1>3, <2>1 DEF WaitInv, Counted, Ahead
<1>8. StillInv'
  <2>1. \A i \in DOMAIN listing : ~(i <= 0)
      BY DEF ListInv
  <2> QED
      BY <1>1, <1>3, <2>1 DEF StillInv
<1>9. NothingMissed'
    BY <1>1 DEF NothingMissed
<1> QED
    BY <1>4, <1>5, <1>6, <1>7, <1>8, <1>9

\* A call that ends with a problem, or gives a capped window up, owes nothing.
LEMMA StopKeeps ==
    ASSUME PageInv, pc' = "done",
           problem' \in {"cycle_budget", "unexpected", "changing_total", "repeated_page"}
               \/ (problem' = "none" /\ capped' = "yes" /\ acceptCap = "no"),
           left' \in 0 .. granted, first' \in Nat, capped' \in {"yes", "no"}, UNCHANGED <<server, call, page, rows>>
    PROVE  PageInv'
<1> USE DEF PageInv
<1>1. UNCHANGED <<listing, expired, reportCap, manner, granted, acceptCap, present, page, rows>> /\ Listed' = Listed
    BY DEF server, call, Listed
<1>2. TypeOK'
    BY <1>1 DEF TypeOK
<1>3. ListInv'
    BY <1>1 DEF ListInv
<1>4. NothingMissed'
    BY <1>1 DEF NothingMissed
<1> QED
    BY <1>2, <1>3, <1>4 DEF BudgetInv, WaitInv, StillInv, Reading

-----------------------------------------------------------------------------
(* A page taken. *)

LEMMA Totals ==
    ASSUME PageInv
    PROVE  /\ Total \in Nat /\ Len(listing) \in Nat /\ Total <= Len(listing)
           /\ Total < QueryCap => Total = Len(listing)
<1>1. Len(listing) \in Nat
    BY DEF PageInv, ListInv
<1>2. reportCap \in Nat /\ reportCap >= QueryCap
    BY PageConstants DEF PageInv, TypeOK
<1> QED
    BY <1>1, <1>2, PageConstants DEF Total, Smaller

\* Rows in a stretch of a list are no more than its length.
Stretch(s, a, b) == {s[i] : i \in a + 1 .. b}

LEMMA StretchSize ==
    ASSUME NEW s, NEW a \in Nat, NEW b \in Nat, a <= b
    PROVE  IsFiniteSet(Stretch(s, a, b)) /\ Cardinality(Stretch(s, a, b)) <= b - a
<1> DEFINE I == a + 1 .. b
           f == [i \in I |-> s[i]]
<1>1. IsFiniteSet(I) /\ Cardinality(I) = b - a
  <2>1. Cardinality(I) = IF a + 1 > b THEN 0 ELSE b - (a + 1) + 1
      BY FS_Interval
  <2>2. IsFiniteSet(I)
      BY FS_Interval
  <2> QED
      BY <2>1, <2>2
<1>2. f \in Surjection(I, Stretch(s, a, b))
    BY DEF Surjection, Stretch
<1> HIDE DEF I, f
<1> QED
    BY <1>1, <1>2, FS_Surjection

\* Rows of the first n positions, one other row among them, are fewer than n.
LEMMA OneMissing ==
    ASSUME NEW s, NEW n \in Nat, NEW R, NEW r,
           R \subseteq Stretch(s, 0, n), r \in Stretch(s, 0, n), r \notin R
    PROVE  Cardinality(R) < n
<1> DEFINE S == Stretch(s, 0, n)
<1>1. IsFiniteSet(S) /\ Cardinality(S) <= n
    BY StretchSize
<1> HIDE DEF S
<1>2. IsFiniteSet(S \ {r}) /\ Cardinality(S \ {r}) = Cardinality(S) - 1 /\ Cardinality(S) \in Nat
    BY <1>1, FS_RemoveElement, FS_CardinalityType DEF S
<1>3. R \subseteq S \ {r}
    BY DEF S
<1>4. IsFiniteSet(R) /\ Cardinality(R) <= Cardinality(S \ {r})
    BY <1>2, <1>3, FS_Subset
<1>5. Cardinality(R) \in Nat
    BY <1>4, FS_CardinalityType
<1> QED
    BY <1>1, <1>2, <1>4, <1>5

LEMMA More ==
    ASSUME NEW R, NEW S, IsFiniteSet(R), IsFiniteSet(S)
    PROVE  /\ Cardinality(R \cup S) \in Nat /\ Cardinality(R) \in Nat /\ Cardinality(S) \in Nat
           /\ Cardinality(R \cup S) <= Cardinality(R) + Cardinality(S)
<1>1. IsFiniteSet(R \cap S) /\ IsFiniteSet(R \cup S)
  <2>1. R \cap S \in SUBSET R
      OBVIOUS
  <2> QED
      BY <2>1, FS_Subset, FS_Union
<1>2. Cardinality(R \cap S) \in Nat /\ Cardinality(R \cup S) \in Nat /\ Cardinality(R) \in Nat /\ Cardinality(S) \in Nat
    BY <1>1, FS_CardinalityType
<1>3. Cardinality(R \cup S) = Cardinality(R) + Cardinality(S) - Cardinality(R \cap S)
    BY FS_Union
<1> QED
    BY <1>2, <1>3

\* The end of a page: the last row of the count, or of the page.
Beyond == Smaller(Frontier + PageSize, Total)

\* What the answer for the page asked for holds.
LEMMA PageShape ==
    ASSUME PageInv, Reading, ~TotalMoved
    PROVE  /\ Frontier \in Nat /\ Beyond \in Nat /\ Frontier <= Beyond /\ Beyond <= Total
           /\ page \in Nat /\ (page > 0 => Frontier < Total)
           /\ RowsOf(page) = Stretch(listing, Frontier, Beyond)
           /\ IsFiniteSet(RowsOf(page)) /\ Cardinality(RowsOf(page)) \in Nat /\ Cardinality(RowsOf(page)) <= Beyond - Frontier
           /\ IsFiniteSet(rows) /\ Cardinality(rows) \in Nat
           /\ RowsOf(page) \subseteq Listed
<1> USE DEF PageInv, Reading
<1>1. page \in Nat
  <2>1. CeilDiv(QueryCap, PageSize) \in Int
      BY PageConstants DEF CeilDiv
  <2> QED
      BY <2>1 DEF TypeOK
<1>2. Frontier \in Nat /\ (page + 1) * PageSize = Frontier + PageSize
    BY <1>1, FrontierMoves DEF Frontier
<1>3. page > 0 => Frontier < Total
    BY DEF BudgetInv, TotalMoved
<1>4. page = 0 => Frontier = 0
    BY PageConstants DEF Frontier
<1>5. Beyond \in Nat /\ Frontier <= Beyond /\ Beyond <= Total
    BY <1>1, <1>2, <1>3, <1>4, Totals, PageConstants DEF Beyond, Smaller
<1>6. RowsOf(page) = Stretch(listing, Frontier, Beyond)
    BY <1>2 DEF RowsOf, Beyond, Frontier, Stretch
<1>7. IsFiniteSet(RowsOf(page)) /\ Cardinality(RowsOf(page)) <= Beyond - Frontier
    BY <1>2, <1>5, <1>6, StretchSize
<1>8. IsFiniteSet(rows)
    BY PageConstants, FS_Subset DEF TypeOK
<1>9. RowsOf(page) \subseteq Listed
  <2>1. \A i \in Frontier + 1 .. Beyond : i \in DOMAIN listing
      BY <1>2, <1>5, Totals DEF ListInv
  <2> QED
      BY <1>6, <2>1 DEF Listed, ToSet, Stretch
<1>10. Cardinality(RowsOf(page)) \in Nat /\ Cardinality(rows) \in Nat
    BY <1>7, <1>8, FS_CardinalityType
<1> QED
    BY <1>1, <1>2, <1>3, <1>5, <1>6, <1>7, <1>8, <1>9, <1>10

\* A row still unread after its page is no newer than any row read.
LEMMA UnreadIsOld ==
    ASSUME PageInv, Reading, ~TotalMoved, manner # "swaps", NEW r \in Rows, Waits(r), r \notin RowsOf(page)
    PROVE  \A q \in rows \cup RowsOf(page) : TimeOf[r] <= TimeOf[q]
<1> USE DEF PageInv
<1>1. Ahead(r)
    BY DEF WaitInv
<1>2. PICK k \in DOMAIN listing : listing[k] = r
    BY DEF Waits, Listed, ToSet
<1>3. k > Frontier /\ k \in Nat
    BY <1>1, <1>2 DEF Ahead, ListInv
<1>4. k > Beyond
    BY <1>2, <1>3, PageShape DEF Stretch
<1>5. ASSUME NEW q \in RowsOf(page) PROVE TimeOf[r] <= TimeOf[q]
  <2>1. PICK i \in Frontier + 1 .. Beyond : q = listing[i]
      BY PageShape DEF Stretch
  <2>2. i \in DOMAIN listing /\ i < k
      BY <1>4, <2>1, PageShape, Totals DEF ListInv
  <2>3. TimeOf[q] >= TimeOf[r]
      BY <1>2, <2>1, <2>2 DEF ListInv, NewestFirst
  <2>4. TimeOf[q] \in Int /\ TimeOf[r] \in Int
    <3>1. q \in Rows
        BY PageShape DEF TypeOK
    <3> QED
        BY <3>1, PageConstants
  <2> QED
      BY <2>3, <2>4
<1>6. ASSUME NEW q \in rows PROVE TimeOf[r] <= TimeOf[q]
  <2>1. TimeOf[q] \in Int /\ TimeOf[r] \in Int
      BY PageConstants DEF TypeOK
  <2> QED
      BY <1>1, <2>1 DEF Ahead
<1> QED
    BY <1>5, <1>6

\* The same in numbers, whatever order rows of one time have.
LEMMA CountGoesOn ==
    ASSUME PageInv, Reading, ~TotalMoved, Beyond = Frontier + PageSize,
           NEW r \in Rows, Waits(r), r \notin RowsOf(page)
    PROVE  \/ Cardinality(rows \cup RowsOf(page)) < Beyond
           \/ \A q \in rows \cup RowsOf(page) : q \in Listed /\ TimeOf[q] >= TimeOf[r]
<1> USE DEF PageInv
<1>1. Counted(r)
    BY DEF WaitInv
<1>2. CASE Cardinality(rows) < Frontier
  <2>1. Cardinality(rows \cup RowsOf(page)) <= Cardinality(rows) + Cardinality(RowsOf(page))
        /\ Cardinality(rows \cup RowsOf(page)) \in Nat
      BY PageShape, More
  <2> QED
      BY <1>2, <2>1, PageShape
<1>3. CASE \A q \in rows : q \in Listed /\ TimeOf[q] >= TimeOf[r]
  <2>1. CASE \A q \in RowsOf(page) : TimeOf[q] >= TimeOf[r]
      BY <1>3, <2>1, PageShape
  <2>2. CASE \E q \in RowsOf(page) : ~(TimeOf[q] >= TimeOf[r])
    <3>1. PICK i \in Frontier + 1 .. Beyond : ~(TimeOf[listing[i]] >= TimeOf[r])
        BY <2>2, PageShape DEF Stretch
    <3>2. i \in DOMAIN listing /\ i \in Nat /\ i <= Beyond
        BY PageShape, Totals DEF ListInv
    <3>3. ASSUME NEW q \in Listed, TimeOf[q] >= TimeOf[r] PROVE q \in Stretch(listing, 0, Beyond)
      <4>1. PICK j \in DOMAIN listing : q = listing[j]
          BY DEF Listed, ToSet
      <4>2. ~(i <= j)
        <5>1. CASE i < j
          <6>1. TimeOf[listing[i]] >= TimeOf[q]
              BY <3>2, <4>1, <5>1 DEF ListInv, NewestFirst
          <6>2. TimeOf[listing[i]] \in Int /\ TimeOf[q] \in Int /\ TimeOf[r] \in Int
              BY <3>2, <4>1, PageConstants DEF ListInv
          <6> QED
              BY <3>1, <3>3, <6>1, <6>2
        <5>2. CASE i = j
            BY <3>1, <3>3, <4>1, <5>2
        <5> QED
            BY <3>2, <4>1, <5>1, <5>2 DEF ListInv
      <4>3. j \in 0 + 1 .. Beyond
          BY <3>2, <4>1, <4>2, PageShape DEF ListInv
      <4> QED
          BY <4>1, <4>3 DEF Stretch
    <3>4. r \in Stretch(listing, 0, Beyond)
      <4>1. r \in Listed /\ TimeOf[r] >= TimeOf[r]
          BY PageConstants DEF Waits
      <4> QED
          BY <3>3, <4>1
    <3>5. rows \cup RowsOf(page) \subseteq Stretch(listing, 0, Beyond)
      <4>1. rows \subseteq Stretch(listing, 0, Beyond)
          BY <1>3, <3>3
      <4>2. \A n \in Frontier + 1 .. Beyond : n \in 0 + 1 .. Beyond
          BY PageShape
      <4>3. RowsOf(page) \subseteq Stretch(listing, 0, Beyond)
          BY <4>2, PageShape DEF Stretch
      <4> QED
          BY <4>1, <4>3
    <3>6. r \notin rows \cup RowsOf(page)
        BY DEF Waits
    <3> QED
        BY <3>4, <3>5, <3>6, OneMissing, PageShape
  <2> QED
      BY <2>1, <2>2
<1> QED
    BY <1>1, <1>2, <1>3 DEF Counted

\* On the last page of a list counted whole, a row missed leaves the count short.
LEMMA CountTells ==
    ASSUME PageInv, Reading, ~TotalMoved, Beyond = Total, Total = Len(listing),
           NEW r \in Rows, Waits(r), r \notin RowsOf(page)
    PROVE  Cardinality(rows \cup RowsOf(page)) < Total
<1> USE DEF PageInv
<1>1. Counted(r)
    BY DEF WaitInv
<1>2. CASE Cardinality(rows) < Frontier
  <2>1. Cardinality(rows \cup RowsOf(page)) <= Cardinality(rows) + Cardinality(RowsOf(page))
        /\ Cardinality(rows \cup RowsOf(page)) \in Nat
      BY PageShape, More
  <2> QED
      BY <1>2, <2>1, PageShape
<1>3. CASE \A q \in rows : q \in Listed
  <2>1. Listed = Stretch(listing, 0, Total)
    <3>1. DOMAIN listing = 0 + 1 .. Total
        BY Totals DEF ListInv
    <3> QED
        BY <3>1 DEF Listed, ToSet, Stretch
  <2>2. rows \cup RowsOf(page) \subseteq Listed /\ r \in Listed /\ r \notin rows \cup RowsOf(page)
      BY <1>3, PageShape DEF Waits
  <2> QED
      BY <2>1, <2>2, OneMissing, Totals
<1> QED
    BY <1>1, <1>2, <1>3 DEF Counted

\* The rows of an earlier page, answered again, have all been read.
LEMMA EarlierPage ==
    ASSUME PageInv, Reading, ~TotalMoved, manner = "replays", NEW p \in 0 .. page, p < page
    PROVE  Repeats(RowsOf(p))
<1> USE DEF PageInv
<1>1. p \in Nat /\ p + 1 <= page /\ page > 0 /\ page \in Nat /\ Frontier < Total
    BY PageShape
<1>2. p * PageSize \in Nat /\ (p + 1) * PageSize = p * PageSize + PageSize
    BY <1>1, FrontierMoves
<1>3. (p + 1) * PageSize <= Frontier
  <2>1. PageSize * (p + 1) <= PageSize * page
      BY <1>1, PageConstants
  <2>2. PageSize * (p + 1) = (p + 1) * PageSize /\ PageSize * page = Frontier
      BY <1>1, PageConstants DEF Frontier
  <2> QED
      BY <2>1, <2>2
<1> DEFINE a == p * PageSize
           b == (p + 1) * PageSize
<1>4. RowsOf(p) = {listing[i] : i \in a + 1 .. Smaller(b, Total)}
    BY DEF RowsOf
<1>5. a \in Nat /\ b = a + PageSize /\ b <= Frontier
    BY <1>2, <1>3
<1> HIDE DEF a, b
<1>9. Smaller(b, Total) = b
  <2>1. b \in Int /\ Total \in Int /\ Frontier \in Int /\ Frontier < Total
      BY <1>1, <1>5, PageConstants, PageShape, Totals
  <2>2. b <= Total
      BY <1>5, <2>1
  <2> QED
      BY <2>2 DEF Smaller
<1>6. \A i \in a + 1 .. b : i \in DOMAIN listing /\ listing[i] \in rows
  <2>1. \A i \in a + 1 .. b : i \in DOMAIN listing /\ i <= Frontier
      BY <1>1, <1>5, PageConstants, PageShape, Totals DEF ListInv
  <2> QED
      BY <2>1 DEF StillInv
<1>7. a + 1 \in a + 1 .. b
    BY <1>5, PageConstants
<1>8. listing[a + 1] \in RowsOf(p) /\ RowsOf(p) \subseteq rows
    BY <1>4, <1>6, <1>7, <1>9
<1> QED
    BY <1>1, <1>8 DEF Repeats

\* The answer for the page asked for, with rows in it the call has not read.
AnotherPage(p) == p = page /\ ~Repeats(RowsOf(p))
AtCap == OverCap \/ capped = "yes"

LEMMA CapMeaning ==
    ASSUME PageInv, Reading, ~TotalMoved
    PROVE  /\ OverCap <=> page = 0 /\ Total >= QueryCap
           /\ ~AtCap => Total < QueryCap /\ Total = Len(listing)
           /\ AtCap /\ (OverCap => acceptCap = "yes") => acceptCap = "yes" /\ rows \cup RowsOf(page) # {}
<1> USE DEF PageInv
<1>1. OverCap <=> page = 0 /\ Total >= QueryCap
    BY Totals, PageConstants DEF OverCap
<1>2. page \in Nat /\ (page > 0 => Total = first)
    BY PageShape DEF TotalMoved
<1>3. ~AtCap => Total < QueryCap
    BY <1>1, <1>2, Totals, PageConstants DEF AtCap, BudgetInv, TypeOK
<1>4. ASSUME AtCap, OverCap => acceptCap = "yes"
      PROVE  acceptCap = "yes" /\ rows \cup RowsOf(page) # {}
  <2>1. CASE OverCap
    <3>1. Frontier = 0
        BY <2>1, PageConstants DEF OverCap, Frontier
    <3>2. Beyond > 0
        BY <1>1, <2>1, <3>1, PageConstants, Totals DEF Beyond, Smaller
    <3>3. 1 \in Frontier + 1 .. Beyond
        BY <3>1, <3>2, PageShape
    <3> QED
        BY <1>4, <2>1, <3>3, PageShape DEF Stretch
  <2>2. CASE capped = "yes"
      BY <2>2 DEF BudgetInv
  <2> QED
      BY <1>4, <2>1, <2>2 DEF AtCap
<1> QED
    BY <1>1, <1>3, <1>4, Totals

\* The last page of the count, or of the cap, ends the call.
LEMMA LastPageKeeps ==
    ASSUME PageInv, TakePage(page), rows' = rows \cup RowsOf(page), first' = Total, pc' = "done",
           page' \in 0 .. CeilDiv(QueryCap, PageSize), capped' \in {"yes", "no"},
           problem' \in {"none", "short_count"},
           problem' = "none" /\ capped' = "no" =>
               /\ ~AtCap /\ Beyond = Total /\ Cardinality(rows') = Total,
           capped' = "yes" => AtCap \/ RowsOf(page) # {}
    PROVE  PageInv'
<1> USE DEF PageInv
<1>1. /\ Reading /\ ~TotalMoved /\ left > 0 /\ left' = left - 1 /\ (OverCap => acceptCap = "yes")
      /\ UNCHANGED <<listing, expired, reportCap, manner, granted, acceptCap, present>>
    BY DEF TakePage, Asked, server, call, Reading
<1>2. Listed' = Listed /\ ~Reading'
    BY <1>1 DEF Listed, Reading
<1>3. TypeOK'
  <2>1. left' \in 0 .. granted
      BY <1>1 DEF TypeOK
  <2>2. rows' \subseteq Rows
      BY <1>1, PageShape DEF TypeOK
  <2> QED
      BY <1>1, <1>2, <2>1, <2>2, Totals DEF TypeOK
<1>4. ListInv'
    BY <1>1, <1>2 DEF ListInv
<1>5. NothingMissed'
  <2> SUFFICES ASSUME problem' = "none", NEW r \in present, r \in Listed, r \notin rows'
               PROVE  /\ capped' = "yes"
                      /\ acceptCap = "yes" /\ manner # "swaps" =>
                             rows' # {} /\ \A q \in rows' : TimeOf[r] <= TimeOf[q]
      BY <1>1, <1>2 DEF NothingMissed
  <2>1. Waits(r) /\ r \notin RowsOf(page) /\ r \in Rows
      BY DEF Waits, TypeOK
  <2>2. capped' = "yes"
    <3>1. ASSUME capped' = "no" PROVE FALSE
      <4>1. Total = Len(listing) /\ Beyond = Total /\ Cardinality(rows \cup RowsOf(page)) = Total
          BY <1>1, <3>1, CapMeaning
      <4>2. Cardinality(rows \cup RowsOf(page)) < Total
          BY <1>1, <2>1, <4>1, CountTells
      <4> QED
          BY <4>1, <4>2, Totals
    <3> QED
        BY <3>1
  <2>3. ASSUME manner # "swaps" PROVE rows' # {} /\ \A q \in rows' : TimeOf[r] <= TimeOf[q]
    <3>1. \A q \in rows' : TimeOf[r] <= TimeOf[q]
        BY <1>1, <2>1, <2>3, UnreadIsOld
    <3>2. rows' # {}
        BY <1>1, <2>2, CapMeaning
    <3> QED
        BY <3>1, <3>2
  <2> QED
      BY <2>2, <2>3
<1> QED
    BY <1>2, <1>3, <1>4, <1>5 DEF BudgetInv, WaitInv, StillInv

\* A page before the last: the call goes on with the next one.
LEMMA NextPageKeeps ==
    ASSUME PageInv, TakePage(page), rows' = rows \cup RowsOf(page), first' = Total, UNCHANGED <<pc, problem>>,
           page' = page + 1, page + 1 < CeilDiv(Total, PageSize), ~CapReached(page + 1),
           capped' = IF AtCap THEN "yes" ELSE "no"
    PROVE  PageInv'
<1> USE DEF PageInv
<1>1. /\ Reading /\ ~TotalMoved /\ left > 0 /\ left' = left - 1 /\ (OverCap => acceptCap = "yes")
      /\ UNCHANGED <<listing, expired, reportCap, manner, granted, acceptCap, present>>
    BY DEF TakePage, Asked, server, call, Reading
<1>2. Listed' = Listed /\ Reading' /\ (capped' = "yes" <=> AtCap) /\ capped' \in {"yes", "no"}
    BY <1>1 DEF Listed, Reading
<1>3. page \in Nat /\ (page + 1) * PageSize \in Nat /\ (page + 1) * PageSize = Frontier + PageSize /\ Frontier \in Nat
    BY <1>1, PageShape, FrontierMoves DEF Frontier
<1>4. (page + 1) * PageSize < Total
    BY <1>3, PagesOf, Totals, PageConstants
<1>5. (page + 1) * PageSize < QueryCap
    BY <1>3, PageConstants DEF CapReached
<1>6. Frontier' = Frontier + PageSize /\ Beyond = Frontier'
  <2>1. Frontier' = Frontier + PageSize
      BY <1>3 DEF Frontier
  <2>2. Frontier + PageSize < Total
      BY <1>3, <1>4
  <2>3. Frontier + PageSize <= Total
      BY <1>3, <2>2, Totals, PageConstants
  <2>4. Beyond = Frontier + PageSize
      BY <2>3 DEF Beyond, Smaller
  <2> QED
      BY <2>1, <2>4
<1>7. RowsOf(page) = Stretch(listing, Frontier, Beyond)
    BY <1>1, PageShape
<1>8. TypeOK'
  <2>1. page + 1 < CeilDiv(QueryCap, PageSize)
      BY <1>3, <1>5, PagesOf, PageConstants
  <2>2. page' \in 0 .. CeilDiv(QueryCap, PageSize)
    <3>1. CeilDiv(QueryCap, PageSize) \in Int
        BY PageConstants DEF CeilDiv
    <3> QED
        BY <1>3, <2>1, <3>1
  <2>3. left' \in 0 .. granted
      BY <1>1 DEF TypeOK
  <2>4. rows' \subseteq Rows
      BY <1>1, PageShape DEF TypeOK
  <2> QED
      BY <1>1, <1>2, <2>1, <2>2, <2>3, <2>4, Totals DEF TypeOK
<1>9. ListInv'
    BY <1>1, <1>2 DEF ListInv
<1>10. BudgetInv'
  <2>1. Frontier' < QueryCap /\ Frontier' < first'
      BY <1>3, <1>4, <1>5, <1>6
  <2>2. granted = WholeWindow => left' = WholeWindow - page'
    <3>1. WholeWindow \in Nat
        BY PageConstants, Quotient DEF WholeWindow
    <3> QED
        BY <1>1, <1>3, <3>1 DEF BudgetInv
  <2>3. page' > 0
      BY <1>3
  <2>4. capped' = "yes" => acceptCap = "yes" /\ rows' # {}
      BY <1>1, <1>2, CapMeaning
  <2>5. capped' = "no" => first' < QueryCap
      BY <1>1, <1>2, CapMeaning
  <2> QED
      BY <1>1, <2>1, <2>2, <2>3, <2>4, <2>5 DEF BudgetInv
<1>11. WaitInv'
  <2> SUFFICES ASSUME NEW r \in Rows, Waits(r)'
               PROVE  Counted(r)' /\ (manner # "swaps" => Ahead(r)')
      BY <1>1 DEF WaitInv
  <2>1. Waits(r) /\ r \notin RowsOf(page)
      BY <1>1, <1>2 DEF Waits
  <2>2. Counted(r)'
    <3>1. \/ Cardinality(rows \cup RowsOf(page)) < Beyond
          \/ \A q \in rows \cup RowsOf(page) : q \in Listed /\ TimeOf[q] >= TimeOf[r]
        BY <1>1, <1>6, <2>1, CountGoesOn
    <3> QED
        BY <1>2, <1>6, <3>1 DEF Counted
  <2>3. ASSUME manner # "swaps" PROVE Ahead(r)'
    <3>1. \A q \in rows' : TimeOf[q] >= TimeOf[r]
      <4>1. \A q \in rows' : TimeOf[r] <= TimeOf[q]
          BY <1>1, <2>1, <2>3, UnreadIsOld
      <4>2. \A q \in rows' : TimeOf[q] \in Int /\ TimeOf[r] \in Int
          BY <1>8, PageConstants DEF TypeOK
      <4> QED
          BY <4>1, <4>2
    <3>2. Ahead(r)
        BY <1>1, <2>1, <2>3 DEF WaitInv
    <3>3. \A i \in DOMAIN listing : listing[i] = r => i > Frontier'
        BY <1>3, <1>6, <1>7, <2>1, <3>2, Totals DEF Ahead, ListInv, Stretch
    <3> QED
        BY <1>1, <3>1, <3>3 DEF Ahead
  <2> QED
      BY <2>2, <2>3
<1>12. StillInv'
  <2> SUFFICES ASSUME manner = "replays", NEW i \in DOMAIN listing, i <= Frontier'
               PROVE  listing[i] \in rows'
      BY <1>1 DEF StillInv
  <2>1. CASE i <= Frontier
      BY <1>1, <2>1 DEF StillInv
  <2>2. CASE i > Frontier
    <3>1. i \in Frontier + 1 .. Beyond
        BY <1>3, <1>6, <2>2, PageConstants DEF ListInv
    <3> QED
        BY <1>7, <3>1 DEF Stretch
  <2> QED
      BY <1>3, <2>1, <2>2 DEF ListInv
<1>13. NothingMissed'
    BY <1>2 DEF NothingMissed, Reading
<1> QED
    BY <1>8, <1>9, <1>10, <1>11, <1>12, <1>13

LEMMA TakeKeeps == ASSUME PageInv, NEW p \in 0 .. page, TakePage(p)
                   PROVE  PageInv'
<1> USE DEF PageInv
<1>1. /\ Reading /\ ~TotalMoved /\ left > 0 /\ left' = left - 1 /\ (OverCap => acceptCap = "yes")
      /\ p = page \/ (manner = "replays" /\ p < page)
      /\ UNCHANGED <<server, call>>
    BY DEF TakePage, Asked, Reading
<1>2. page \in Nat /\ left' \in 0 .. granted /\ first \in Nat /\ capped \in {"yes", "no"}
    BY <1>1, PageShape DEF TypeOK
<1>3. CASE Repeats(RowsOf(p))
  <2>1. pc' = "done" /\ problem' = "repeated_page" /\ UNCHANGED <<page, first, rows, capped>>
      BY <1>3 DEF TakePage, Return
  <2> QED
      BY <1>1, <1>2, <2>1, StopKeeps
<1>4. CASE ~Repeats(RowsOf(p))
  <2>1. p = page
      BY <1>1, <1>2, <1>4, EarlierPage
  <2>2. TakePage(page) /\ rows' = rows \cup RowsOf(page) /\ first' = Total
      BY <1>4, <2>1 DEF TakePage
  <2>3. Frontier \in Nat /\ (page + 1) * PageSize = Frontier + PageSize /\ Total \in Nat
      BY <1>2, FrontierMoves, Totals DEF Frontier
  <2>4. \/ /\ page + 1 >= CeilDiv(Total, PageSize)
           /\ capped' = (IF AtCap THEN "yes" ELSE "no")
           /\ pc' = "done" /\ problem' = IF AtCap THEN "none" ELSE CountProblem(rows', Total)
           /\ page' = page
        \/ /\ page + 1 < CeilDiv(Total, PageSize) /\ CapReached(page + 1)
           /\ capped' = "yes" /\ pc' = "done" /\ problem' = "none" /\ page' = page + 1
        \/ /\ page + 1 < CeilDiv(Total, PageSize) /\ ~CapReached(page + 1)
           /\ capped' = (IF AtCap THEN "yes" ELSE "no")
           /\ page' = page + 1 /\ UNCHANGED <<pc, problem>>
      BY <1>4, <2>1 DEF TakePage, AtCap, Return
  <2>5. page \in 0 .. CeilDiv(QueryCap, PageSize) /\ page + 1 \in 0 .. CeilDiv(QueryCap, PageSize)
    <3>1. CeilDiv(QueryCap, PageSize) \in Int /\ page < CeilDiv(QueryCap, PageSize)
        BY <1>1, PageConstants DEF TypeOK, Reading, CeilDiv
    <3> QED
        BY <1>2, <3>1
  <2>6. CASE /\ page + 1 >= CeilDiv(Total, PageSize)
             /\ capped' = (IF AtCap THEN "yes" ELSE "no")
             /\ pc' = "done" /\ problem' = IF AtCap THEN "none" ELSE CountProblem(rows', Total)
             /\ page' = page
    <3>1. ~((page + 1) * PageSize < Total)
      <4>1. CeilDiv(Total, PageSize) \in Int
          BY <2>3, PageConstants DEF CeilDiv
      <4>2. page + 1 < CeilDiv(Total, PageSize) <=> (page + 1) * PageSize < Total
          BY <1>2, <2>3, PagesOf, PageConstants
      <4> QED
          BY <1>2, <2>6, <4>1, <4>2
    <3>2. Beyond = Total
        BY <2>3, <3>1, PageConstants DEF Beyond, Smaller
    <3>3. problem' \in {"none", "short_count"}
        BY <2>6 DEF CountProblem
    <3>4. problem' = "none" /\ capped' = "no" => ~AtCap /\ Cardinality(rows') = Total
        BY <2>6 DEF CountProblem
    <3>5. capped' \in {"yes", "no"} /\ (capped' = "yes" => AtCap)
        BY <2>6
    <3> QED
        BY <2>2, <2>5, <2>6, <3>2, <3>3, <3>4, <3>5, LastPageKeeps
  <2>7. CASE /\ page + 1 < CeilDiv(Total, PageSize) /\ CapReached(page + 1)
             /\ capped' = "yes" /\ pc' = "done" /\ problem' = "none" /\ page' = page + 1
    <3>1. (page + 1) * PageSize < Total
        BY <1>2, <2>3, <2>7, PagesOf, PageConstants
    <3>2. Beyond = Frontier + PageSize
        BY <2>3, <3>1, PageConstants DEF Beyond, Smaller
    <3>3. Frontier + 1 \in Frontier + 1 .. Beyond
        BY <2>3, <3>2, PageConstants
    <3>4. RowsOf(page) # {}
        BY <1>1, <3>3, PageShape DEF Stretch
    <3> QED
        BY <2>2, <2>5, <2>7, <3>4, LastPageKeeps
  <2>8. CASE /\ page + 1 < CeilDiv(Total, PageSize) /\ ~CapReached(page + 1)
             /\ capped' = (IF AtCap THEN "yes" ELSE "no")
             /\ page' = page + 1 /\ UNCHANGED <<pc, problem>>
      BY <2>2, <2>8, NextPageKeeps
  <2> QED
      BY <2>4, <2>6, <2>7, <2>8
<1> QED
    BY <1>3, <1>4

-----------------------------------------------------------------------------
LEMMA PageInductive == Spec => []PageInv
<1>1. Init => PageInv
  <2> SUFFICES ASSUME Init PROVE PageInv
      OBVIOUS
  <2>1. Listed = {} /\ listing \in Seq(Rows) /\ DOMAIN listing = {}
      BY DEF Init, Listed, ToSet
  <2>2. WholeWindow \in Nat /\ CeilDiv(QueryCap, PageSize) \in Nat
    <3>1. QueryCap + PageSize - 1 \in Nat
        BY PageConstants
    <3> QED
        BY <3>1, PageConstants, Quotient DEF WholeWindow, CeilDiv
  <2>3. TypeOK
      BY <2>1, <2>2 DEF Init, TypeOK
  <2>4. ListInv
      BY <2>1 DEF Init, ListInv, NewestFirst
  <2> QED
      BY <2>1, <2>3, <2>4 DEF Init, PageInv, BudgetInv, WaitInv, StillInv, NothingMissed, Reading
<1>2. PageInv /\ [Next]_vars => PageInv'
  <2> SUFFICES ASSUME PageInv, [Next]_vars PROVE PageInv'
      OBVIOUS
  <2>1. CASE Begin
      BY <2>1, BeginKeeps
  <2>2. CASE Interrupted
    <3>1. pc' = "done" /\ problem' = "cycle_budget" /\ UNCHANGED <<server, left, call, page, first, rows, capped>>
        BY <2>2 DEF Interrupted, Return
    <3>2. left' \in 0 .. granted /\ first' \in Nat /\ capped' \in {"yes", "no"}
        BY <3>1 DEF PageInv, TypeOK
    <3> QED
        BY <3>1, <3>2, StopKeeps
  <2>3. CASE BadPage
    <3>1. pc' = "done" /\ problem' = "unexpected" /\ UNCHANGED <<server, call, page, first, rows, capped>>
        BY <2>3 DEF BadPage, Return
    <3>2. left' \in 0 .. granted /\ first' \in Nat /\ capped' \in {"yes", "no"}
        BY <2>3, <3>1 DEF PageInv, TypeOK, BadPage, Asked
    <3> QED
        BY <3>1, <3>2, StopKeeps
  <2>4. CASE ChangedTotal
    <3>1. pc' = "done" /\ problem' = "changing_total" /\ UNCHANGED <<server, call, page, first, rows, capped>>
        BY <2>4 DEF ChangedTotal, Return
    <3>2. left' \in 0 .. granted /\ first' \in Nat /\ capped' \in {"yes", "no"}
        BY <2>4, <3>1 DEF PageInv, TypeOK, ChangedTotal, Asked
    <3> QED
        BY <3>1, <3>2, StopKeeps
  <2>5. CASE GiveUp
    <3>1. pc' = "done" /\ problem' = "none" /\ capped' = "yes" /\ acceptCap = "no" /\ first' = Total
          /\ UNCHANGED <<server, call, page, rows>>
        BY <2>5 DEF GiveUp, Return
    <3>2. left' \in 0 .. granted /\ first' \in Nat /\ capped' \in {"yes", "no"}
        BY <2>5, <3>1, Totals DEF PageInv, TypeOK, GiveUp, Asked
    <3> QED
        BY <3>1, <3>2, StopKeeps
  <2>6. CASE \E p \in 0 .. page : TakePage(p)
      BY <2>6, TakeKeeps
  <2>7. CASE \E r \in Rows : RowInserted(r)
      BY <2>7, InsertKeeps
  <2>8. CASE OldestExpire
      BY <2>8, ExpireKeeps
  <2>9. CASE \E i \in DOMAIN listing : TiesSwap(i)
      BY <2>9, SwapKeeps
  <2>10. CASE UNCHANGED vars
      BY <2>10 DEF vars, server, call, locals, PageInv, TypeOK, ListInv, BudgetInv, WaitInv, StillInv, NothingMissed,
                   Reading, Frontier, Waits, Counted, Ahead, Listed
  <2> QED
      BY <2>1, <2>2, <2>3, <2>4, <2>5, <2>6, <2>7, <2>8, <2>9, <2>10 DEF Next, ReadWindow, Console
<1> QED
    BY <1>1, <1>2, PTL DEF Spec

\* A page asked for begins before the cap, so a whole window's budget outlasts it.
LEMMA PageInvReads == PageInv => ReadIsWhole
<1> SUFFICES ASSUME PageInv PROVE WindowFits
    BY DEF PageInv, ReadIsWhole
<1> SUFFICES ASSUME Reading, granted = WholeWindow PROVE left > 0
    BY DEF WindowFits, Reading
<1>1. left = WholeWindow - page
    BY DEF PageInv, BudgetInv
<1>2. QueryCap \div PageSize \in Nat
    BY PageConstants, Quotient
<1>3. page \in Int /\ page >= 0
    BY PageConstants DEF PageInv, TypeOK, CeilDiv
<1>4. page <= QueryCap \div PageSize
  <2>1. CASE page > 0
    <3>1. page * PageSize < QueryCap
        BY <2>1 DEF PageInv, BudgetInv, Frontier
    <3> QED
        BY <1>3, <3>1, WithinBudget, PageConstants
  <2>2. CASE page = 0
      BY <1>2, <2>2
  <2> QED
      BY <1>3, <2>1, <2>2
<1> QED
    BY <1>1, <1>2, <1>3, <1>4 DEF WholeWindow

\* A read_window that returns no problem missed no row listed throughout the
\* call, although rows are inserted, expire and change places between its pages,
\* and a cycle's budget always holds the pages of one whole window.
THEOREM ReadsAreWhole == Spec => []ReadIsWhole
BY PageInductive, PageInvReads, PTL
=============================================================================
