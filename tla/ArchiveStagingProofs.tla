----------------------- MODULE ArchiveStagingProofs -----------------------
(***************************************************************************)
(* HeaderValid, CoverageKept and CompletedIsStaged for every file, every   *)
(* size of windows and chunks, every number of workers and whatever they   *)
(* are sent.  What makes them inductive: a planned update still says what  *)
(* it changes of the header it expects, and expects one that lacks bytes,  *)
(* so nothing replaces a covered header; and a finalizer holds a prefix of *)
(* the bytes that header stands for.                                       *)
(***************************************************************************)
EXTENDS ArchiveStaging, FiniteSetTheorems, TLAPS

StagedType ==
    /\ job \in {"Staged", "Cancelled", "Complete"}
    /\ expected \in Bytes \cup {Nothing}
    /\ header \in Header \cup {Nothing}
    /\ frozen \in Header \cup {Nothing}
    /\ update \in [Workers -> Update \cup {Nothing}]

TypeOK ==
    /\ StagedType
    /\ owned \in Bytes \cup {Nothing}
    /\ session \in Session \cup {Nothing}

\* What a header says of a window it has a page of.
PageValid(h, w) ==
    LET page == h.root[w]
    IN  /\ page.cover # {} /\ page.cover \subseteq 1..WindowSize(w)
        /\ Len(page.image) = WindowSize(w)
        /\ page.checkpoint \in 1..h.checkpoint
        /\ \A o \in 1..WindowSize(w) : o \notin page.cover => page.image[o] = Zero

Counted(h) ==
    /\ h.pages = Cardinality(PagesOf(h))
    /\ h.coveredBytes = Cardinality(CoveredOf(h))
    /\ \A w \in PagesOf(h) : PageValid(h, w)

Stored(h, W) == \A w \in W : <<w, h.root[w].image>> \in pieces \cup lost

\* Bytes that were covered stay what they were.
Grows(h, next) ==
    \A w \in PagesOf(h) :
        /\ next.root[w] # Nothing
        /\ h.root[w].cover \subseteq next.root[w].cover
        /\ \A o \in h.root[w].cover : next.root[w].image[o] = h.root[w].image[o]

HeaderSound == header # Nothing => Counted(header) /\ Stored(header, PagesOf(header))

\* An update is planned for a header that lacks bytes, and adds some.
UpdateValid(u) ==
    /\ Counted(u.expected) /\ Stored(u.expected, PagesOf(u.expected))
    /\ u.expected.coveredBytes < Total
    /\ Counted(u.next)
    /\ Stored(u.next, PagesOf(u.next) \ {u.window})
    /\ u.image = u.next.root[u.window].image
    /\ u.step = "written" => <<u.window, u.image>> \in pieces \cup lost
    /\ Grows(u.expected, u.next)

UpdatesSound == \A k \in Workers : update[k] # Nothing => UpdateValid(update[k])

StagedInv == StagedType /\ HeaderSound /\ UpdatesSound

---------------------------------------------------------------------------
(* Numbers and sequences: windows and chunks of a file tile it without gap *)
(* or overlap.                                                             *)

\* The lesser of two numbers.
LEMMA MinOfTwo ==
  ASSUME NEW a \in Int, NEW b \in Int
  PROVE  /\ Min({a, b}) \in {a, b}
         /\ Min({a, b}) <= a /\ Min({a, b}) <= b
<1> DEFINE least(x) == x \in {a, b} /\ \A y \in {a, b} : x <= y
<1>1. \E x : least(x)
  <2>1. CASE a <= b
    BY <2>1
  <2>2. CASE b <= a
    BY <2>2
  <2> QED
    BY <2>1, <2>2
<1>2. Min({a, b}) = CHOOSE x : least(x)
  BY DEF Min
<1>3. least(CHOOSE x : least(x))
  <2> HIDE DEF least
  <2> QED
    BY <1>1
<1> QED
  BY <1>2, <1>3

\* Division by a positive number.
LEMMA DivBounds ==
  ASSUME NEW b \in Nat \ {0}, NEW n \in Nat
  PROVE  /\ n \div b \in Nat
         /\ (n \div b) * b <= n /\ n < (n \div b) * b + b
         /\ n % b = n - (n \div b) * b
OBVIOUS

\* Multiples grow with their factor.
LEMMA Multiples ==
  ASSUME NEW b \in Nat, NEW m \in Nat, NEW n \in Nat
  PROVE  /\ m * b \in Nat
         /\ (m + 1) * b = m * b + b
         /\ m <= n => m * b <= n * b
OBVIOUS

\* Quotient and remainder are unique: an offset belongs to one window.
LEMMA DivUnique ==
  ASSUME NEW b \in Nat \ {0}, NEW q \in Nat, NEW r \in 0..(b - 1)
  PROVE  (q * b + r) \div b = q /\ (q * b + r) % b = r
<1> DEFINE n == q * b + r
           p == n \div b
<1>1. n \in Nat /\ q * b \in Nat
  BY Multiples
<1>2. p \in Nat /\ p * b <= n /\ n < p * b + b /\ n % b = n - p * b
  <2> HIDE DEF n
  <2> QED
    BY <1>1, DivBounds
<1> HIDE DEF p
<1>3. p * b \in Nat /\ (p + 1) * b = p * b + b /\ (q + 1) * b = q * b + b
  BY <1>2, Multiples
<1>4. ~(p + 1 <= q)
  <2>1. p + 1 <= q => (p + 1) * b <= q * b
    BY <1>2, Multiples
  <2> QED
    BY <1>1, <1>2, <1>3, <2>1
<1>5. ~(q + 1 <= p)
  <2>1. q + 1 <= p => (q + 1) * b <= p * b
    BY <1>2, Multiples
  <2> QED
    BY <1>1, <1>2, <1>3, <2>1
<1>6. p = q
  BY <1>2, <1>4, <1>5
<1> QED
  BY <1>1, <1>2, <1>6 DEF p

\* A function on the first n numbers is a sequence.
LEMMA FunctionIsSeq ==
  ASSUME NEW S, NEW n \in Nat, NEW s \in [1..n -> S]
  PROVE  s \in Seq(S) /\ Len(s) = n
OBVIOUS

\* Pairing a finite set with one value keeps its size.
LEMMA PairedSize ==
  ASSUME NEW S, IsFiniteSet(S), NEW x
  PROVE  IsFiniteSet({x} \X S) /\ Cardinality({x} \X S) = Cardinality(S)
<1>1. IsFiniteSet({x}) /\ Cardinality({x}) = 1
  BY FS_Singleton
<1>2. Cardinality(S) \in Nat
  BY FS_CardinalityType
<1>3. IsFiniteSet({x} \X S) /\ Cardinality({x} \X S) = Cardinality({x}) * Cardinality(S)
  BY <1>1, FS_Product
<1> QED
  BY <1>1, <1>2, <1>3

\* A sequence that says what another says from some place on is a part of it.
LEMMA PartIsSubSeq ==
  ASSUME NEW S, NEW s \in Seq(S), NEW t \in Seq(S), NEW m \in Nat, m + Len(t) <= Len(s),
         \A n \in 1..Len(t) : t[n] = s[m + n]
  PROVE  SubSeq(s, m + 1, m + Len(t)) = t
<1>1. Len(t) \in Nat /\ Len(s) \in Nat
  OBVIOUS
<1> DEFINE part == SubSeq(s, m + 1, m + Len(t))
<1>2. part \in Seq(S) /\ Len(part) = Len(t)
  BY <1>1
<1>3. \A n \in 1..Len(t) : part[n] = s[m + n]
  BY <1>1
<1> HIDE DEF part
<1>4. \A n \in 1..Len(part) : part[n] = t[n]
  BY <1>2, <1>3
<1>5. part \in [1..Len(t) -> S] /\ t \in [1..Len(t) -> S]
  BY <1>1, <1>2
<1>6. part = t
  BY <1>2, <1>4, <1>5
<1> QED
  BY <1>6 DEF part

\* A concatenation says what its parts say, one after the other.
LEMMA Concatenation ==
  ASSUME NEW S, NEW s \in Seq(S), NEW t \in Seq(S)
  PROVE  /\ s \o t \in Seq(S) /\ Len(s \o t) = Len(s) + Len(t)
         /\ \A n \in 1..(Len(s) + Len(t)) :
              (s \o t)[n] = IF n <= Len(s) THEN s[n] ELSE t[n - Len(s)]
OBVIOUS

---------------------------------------------------------------------------
(* Windows tile the file.                                                  *)

\* Where the windows begin and end.
LEMMA WindowFacts ==
  ASSUME NEW w \in Windows
  PROVE  /\ Total \in Nat \ {0}
         /\ WindowStart(w) \in Nat
         /\ WindowSize(w) \in 1..WindowBytes
         /\ WindowStart(w) + WindowSize(w) <= Total
         /\ WindowStart(w) + WindowSize(w) < Total =>
              w + 1 \in Windows /\ WindowStart(w + 1) = WindowStart(w) + WindowSize(w)
<1> DEFINE B == WindowBytes
           q == (Total - 1) \div B
<1>1. Total \in Nat \ {0} /\ B \in Nat \ {0}
  BY StagingAssumption DEF Total, Bytes
<1>2. q \in Nat /\ q * B <= Total - 1 /\ Total - 1 < q * B + B
  <2>1. Total - 1 \in Nat
    BY <1>1
  <2> QED
    BY <1>1, <2>1, DivBounds
<1>3. w \in 1..(q + 1) /\ Windows = 1..(q + 1)
  BY DEF Windows, ArchiveStagingPageCount
<1>4. WindowStart(w) = (w - 1) * B /\ WindowStart(w + 1) = w * B
  <2>1. (w + 1) - 1 = w
    BY <1>2, <1>3
  <2>2. WindowStart(w) = (w - 1) * B /\ WindowStart(w + 1) = ((w + 1) - 1) * B
    BY Zenon DEF WindowStart
  <2> QED
    BY <2>1, <2>2
<1> HIDE DEF B, q
<1>5. (w - 1) * B \in Nat /\ (w - 1) * B <= q * B /\ w * B = (w - 1) * B + B
  <2>1. w - 1 \in Nat /\ w - 1 <= q /\ w - 1 + 1 = w
    BY <1>2, <1>3
  <2> QED
    BY <1>1, <1>2, <2>1, Multiples
<1>6. /\ WindowSize(w) \in {B, Total - (w - 1) * B}
      /\ WindowSize(w) <= B /\ WindowSize(w) <= Total - (w - 1) * B
  <2>1. WindowSize(w) = Min({B, Total - (w - 1) * B})
    BY <1>4 DEF WindowSize, B
  <2>2. B \in Int /\ Total - (w - 1) * B \in Int
    BY <1>1, <1>5
  <2> QED
    BY <2>1, <2>2, MinOfTwo
<1>7. WindowSize(w) \in 1..B
  BY <1>1, <1>2, <1>5, <1>6
<1>8. ASSUME WindowStart(w) + WindowSize(w) < Total
      PROVE  w + 1 \in Windows /\ WindowStart(w + 1) = WindowStart(w) + WindowSize(w)
  <2>1. WindowSize(w) = B
    BY <1>1, <1>4, <1>5, <1>6, <1>8
  <2>2. w # q + 1
    BY <1>1, <1>2, <1>4, <1>5, <1>8, <2>1
  <2> QED
    BY <1>2, <1>3, <1>4, <1>5, <2>1, <2>2
<1> QED
  BY <1>1, <1>4, <1>5, <1>6, <1>7, <1>8 DEF B

\* Every byte of the file is in a window.
LEMMA WindowOfByte ==
  ASSUME NEW n \in 1..Total
  PROVE  /\ ((n - 1) \div WindowBytes) + 1 \in Windows
         /\ ((n - 1) % WindowBytes) + 1 \in 1..WindowSize(((n - 1) \div WindowBytes) + 1)
<1> DEFINE B == WindowBytes
           q == (n - 1) \div B
           r == (n - 1) % B
           t == (Total - 1) \div B
<1>1. Total \in Nat \ {0} /\ B \in Nat \ {0}
  BY StagingAssumption DEF Total, Bytes
<1>2. n - 1 \in Nat /\ Total - 1 \in Nat /\ n - 1 <= Total - 1
  BY <1>1
<1>3. q \in Nat /\ q * B <= n - 1 /\ n - 1 < q * B + B /\ r = n - 1 - q * B
  BY <1>1, <1>2, DivBounds
<1>4. t \in Nat /\ t * B <= Total - 1 /\ Total - 1 < t * B + B
  BY <1>1, <1>2, DivBounds
<1> HIDE DEF q, r, t, B
<1>5. q <= t
  <2>1. SUFFICES ASSUME t + 1 <= q PROVE FALSE
    BY <1>3, <1>4
  <2>2. (t + 1) * B = t * B + B /\ (t + 1) * B <= q * B /\ t * B \in Nat /\ q * B \in Nat
    BY <1>1, <1>3, <1>4, <2>1, Multiples
  <2> QED
    BY <1>1, <1>2, <1>3, <1>4, <2>2
<1>6. q + 1 \in Windows
  BY <1>3, <1>4, <1>5 DEF Windows, ArchiveStagingPageCount, t, B
<1>7. q * B \in Nat /\ (q + 1) - 1 = q
  BY <1>1, <1>3, Multiples
<1>8. WindowSize(q + 1) \in {B, Total - q * B}
  <2>1. WindowSize(q + 1) = Min({B, Total - ((q + 1) - 1) * B})
    BY Zenon DEF WindowSize, WindowStart, B
  <2>2. WindowSize(q + 1) = Min({B, Total - q * B})
    BY Zenon, <1>7, <2>1
  <2>3. B \in Int /\ Total - q * B \in Int
    BY <1>1, <1>7
  <2> QED
    BY <2>2, <2>3, MinOfTwo
<1>9. r + 1 \in 1..WindowSize(q + 1)
  BY <1>1, <1>2, <1>3, <1>7, <1>8
<1> QED
  BY <1>6, <1>9 DEF q, r, B

\* The first window begins the file.
LEMMA FirstWindow ==
  /\ 1 \in Windows /\ WindowStart(1) = 0
  /\ <<>> \in Bytes /\ Len(<<>>) = 0 /\ Total \in Nat /\ 0 * ChunkBytes = 0
<1>1. Total - 1 \in Nat /\ Total \in Nat /\ WindowBytes \in Nat \ {0} /\ ChunkBytes \in Nat
  BY StagingAssumption DEF Total, Bytes
<1>2. (Total - 1) \div WindowBytes \in Nat
  BY <1>1, DivBounds
<1>3. 1 \in Windows
  BY <1>2 DEF Windows, ArchiveStagingPageCount
<1>4. (1 - 1) * WindowBytes = 0 /\ 0 * ChunkBytes = 0
  BY <1>1
<1> QED
  BY <1>1, <1>3, <1>4 DEF WindowStart, Bytes

\* An offset within a window is found again by division.
LEMMA OffsetInWindow ==
  ASSUME NEW w \in Windows, NEW o \in 1..WindowSize(w)
  PROVE  /\ WindowStart(w) + o \in 1..Total
         /\ ((WindowStart(w) + o - 1) \div WindowBytes) + 1 = w
         /\ ((WindowStart(w) + o - 1) % WindowBytes) + 1 = o
<1>1. /\ Total \in Nat /\ WindowStart(w) \in Nat /\ WindowSize(w) \in 1..WindowBytes
      /\ WindowStart(w) + WindowSize(w) <= Total /\ WindowBytes \in Nat \ {0}
  BY WindowFacts, StagingAssumption
<1>2. w \in Nat /\ w - 1 \in Nat /\ WindowStart(w) = (w - 1) * WindowBytes
  BY DEF Windows, WindowStart
<1>3. o - 1 \in 0..(WindowBytes - 1)
  BY <1>1
<1>4. ((w - 1) * WindowBytes + (o - 1)) \div WindowBytes = w - 1
      /\ ((w - 1) * WindowBytes + (o - 1)) % WindowBytes = o - 1
  BY <1>1, <1>2, <1>3, DivUnique
<1>5. (w - 1) + 1 = w /\ (o - 1) + 1 = o
  BY <1>1, <1>2
<1>6. /\ (WindowStart(w) + (o - 1)) \div WindowBytes = w - 1
      /\ (WindowStart(w) + (o - 1)) % WindowBytes = o - 1
  BY Zenon, <1>2, <1>4
<1>7. WindowStart(w) + o \in 1..Total
  BY <1>1
<1> QED
  BY <1>5, <1>6, <1>7

---------------------------------------------------------------------------
(* What a planned update says of the header it is planned for.             *)

\* What the page of a plan is, and what it keeps of the page before.
NextFits(f, page, next) ==
    /\ next \in Page
    /\ Len(next.image) = WindowSize(f.window)
    /\ next.checkpoint = header.checkpoint + 1
    /\ next.cover = CoverOf(page) \cup Fetched(f)
    /\ next.cover \subseteq 1..WindowSize(f.window)
    /\ next.cover # {} /\ CoverOf(page) \subseteq 1..WindowSize(f.window)
    /\ \A o \in CoverOf(page) : next.image[o] = page.image[o]
    /\ \A o \in 1..WindowSize(f.window) : o \notin next.cover => next.image[o] = Zero

\* The next page: its image and its cover.
LEMMA NextPageFacts ==
  ASSUME StagedType, header # Nothing, Counted(header), NEW k \in Workers, NEW f \in Facts[k],
         Agrees(f, header.root[f.window])
  PROVE  NextFits(f, header.root[f.window], NextPage(f, header.root[f.window]))
<1>a. PICK page : page = header.root[f.window]
  OBVIOUS
<1>b. PICK next : next = NextPage(f, page)
  OBVIOUS
<1> DEFINE size == WindowSize(f.window)
<1>1. /\ f.window \in Windows /\ f.to \in 1..size /\ f.from \in 1..f.to
      /\ f.source \in Bytes /\ Len(f.source) = Total /\ Zero \in STRING
  BY StagingAssumption
<1>2. size \in Nat
  BY <1>1, WindowFacts
<1>3. header \in Header /\ page \in Page \cup {Nothing} /\ header.checkpoint \in Nat
  BY <1>a, <1>1 DEF StagedType, Header
<1>4. page # Nothing => /\ page \in Page /\ page.image \in Bytes /\ Len(page.image) = size
                        /\ page.cover \subseteq 1..size
                        /\ \A o \in 1..size : o \notin page.cover => page.image[o] = Zero
  BY <1>a, <1>1, <1>3 DEF Counted, PagesOf, PageValid, Page
<1>5. Fetched(f) \subseteq 1..size /\ Fetched(f) # {}
  BY <1>1, <1>2 DEF Fetched
<1>6. \A o \in 1..size : /\ Byte(f, o) \in STRING
                          /\ ImageOf(f.window, page)[o] \in STRING
  <2>1. SUFFICES ASSUME NEW o \in 1..size
                 PROVE  Byte(f, o) \in STRING /\ ImageOf(f.window, page)[o] \in STRING
    OBVIOUS
  <2>2. Byte(f, o) \in STRING
    <3>1. WindowStart(f.window) + o \in 1..Total
      BY <1>1, OffsetInWindow
    <3> QED
      BY <1>1, <3>1 DEF Byte, Bytes
  <2>3. ImageOf(f.window, page)[o] \in STRING
    BY <1>1, <1>4 DEF ImageOf, Bytes
  <2> QED
    BY <2>2, <2>3
<1>7. /\ next.image = [o \in 1..size |-> IF o \in Fetched(f) THEN Byte(f, o)
                                          ELSE ImageOf(f.window, page)[o]]
      /\ next.cover = CoverOf(page) \cup Fetched(f)
      /\ next.checkpoint = header.checkpoint + 1
      /\ next = [checkpoint |-> next.checkpoint, image |-> next.image, cover |-> next.cover]
  BY <1>b DEF NextPage
<1> HIDE DEF size
<1>8. next.image \in Bytes /\ Len(next.image) = size
  <2>1. next.image \in [1..size -> STRING]
    BY <1>6, <1>7
  <2> QED
    BY <1>2, <2>1, FunctionIsSeq DEF Bytes
<1>9. CoverOf(page) \subseteq 1..size
  BY <1>4 DEF CoverOf
<1>10. next \in Page
  BY <1>2, <1>3, <1>5, <1>7, <1>8, <1>9 DEF Page
<1>11. \A o \in CoverOf(page) : next.image[o] = page.image[o]
  BY <1>a, <1>7, <1>9 DEF Agrees, CoverOf, ImageOf
<1>12. \A o \in 1..size : o \notin next.cover => next.image[o] = Zero
  BY <1>4, <1>7 DEF CoverOf, ImageOf, size
<1> QED
  BY <1>a, <1>b, <1>5, <1>7, <1>8, <1>9, <1>10, <1>11, <1>12 DEF size, NextFits

\* The windows with a page, and the bytes they cover, are finitely many.
LEMMA CoverFinite ==
  ASSUME NEW h, \A w \in PagesOf(h) : PageValid(h, w)
  PROVE  IsFiniteSet(PagesOf(h)) /\ IsFiniteSet(CoveredOf(h))
<1>1. Total \in Nat \ {0} /\ WindowBytes \in Nat \ {0}
  BY StagingAssumption DEF Total, Bytes
<1>2. IsFiniteSet(Windows)
  <2>1. (Total - 1) \div WindowBytes \in Nat
    BY <1>1, DivBounds
  <2> QED
    BY <2>1, FS_Interval DEF Windows, ArchiveStagingPageCount
<1>3. IsFiniteSet(1..WindowBytes)
  BY <1>1, FS_Interval
<1>4. IsFiniteSet(Windows \X (1..WindowBytes))
  BY <1>2, <1>3, FS_Product
<1>5. \A w \in Windows : 1..WindowSize(w) \subseteq 1..WindowBytes
  BY <1>1, WindowFacts
<1>6. CoveredOf(h) \subseteq Windows \X (1..WindowBytes)
  BY <1>5 DEF CoveredOf, PagesOf, PageValid
<1>7. PagesOf(h) \subseteq Windows
  BY DEF PagesOf
<1> QED
  BY <1>2, <1>4, <1>6, <1>7, FS_Subset

\* The header of a plan puts a page in the place of one that covers less.
Adds(h, next, w, page, new) ==
    /\ h \in Header /\ Counted(h) /\ next \in Header /\ page \in Page
    /\ new # {} /\ new \cap CoverOf(h.root[w]) = {}
    /\ page.cover = CoverOf(h.root[w]) \cup new /\ page.cover \subseteq 1..WindowSize(w)
    /\ next.root = [h.root EXCEPT ![w] = page]
    /\ next.pages = h.pages + (IF h.root[w] = Nothing THEN 1 ELSE 0)
    /\ next.coveredBytes = h.coveredBytes + Cardinality(new)

AddsUp(h, next, w, page) ==
    /\ next.pages = Cardinality(PagesOf(next))
    /\ next.coveredBytes = Cardinality(CoveredOf(next))
    /\ PagesOf(next) = PagesOf(h) \cup {w}
    /\ \A v \in Windows \ {w} : next.root[v] = h.root[v]
    /\ next.root[w] = page

\* The header of a plan counts the pages and the bytes it will have.
LEMMA PlanCounts ==
  ASSUME NEW h, NEW next, NEW w \in Windows, NEW page, NEW new, Adds(h, next, w, page, new)
  PROVE  AddsUp(h, next, w, page)
<1> USE DEF Adds
<1>1. /\ next.root[w] = page
      /\ \A v \in Windows \ {w} : next.root[v] = h.root[v]
  BY DEF Header
<1>2. PagesOf(next) = PagesOf(h) \cup {w}
  BY <1>1, StagingAssumption DEF PagesOf
<1>3. /\ IsFiniteSet(PagesOf(h)) /\ IsFiniteSet(CoveredOf(h))
      /\ h.pages = Cardinality(PagesOf(h)) /\ h.coveredBytes = Cardinality(CoveredOf(h))
  BY CoverFinite DEF Counted
<1>4. next.pages = Cardinality(PagesOf(next))
  <2>1. w \in PagesOf(h) <=> h.root[w] # Nothing
    BY DEF PagesOf
  <2>2. Cardinality(PagesOf(h) \cup {w}) =
          IF w \in PagesOf(h) THEN Cardinality(PagesOf(h)) ELSE Cardinality(PagesOf(h)) + 1
    BY <1>3, FS_AddElement
  <2>3. Cardinality(PagesOf(h)) \in Nat
    BY <1>3, FS_CardinalityType
  <2> QED
    BY <1>2, <1>3, <2>1, <2>2, <2>3
<1>5. IsFiniteSet(new)
  <2>1. 1 \in Int /\ WindowSize(w) \in Int
    BY WindowFacts, StagingAssumption
  <2>2. IsFiniteSet(1..WindowSize(w))
    BY <2>1, FS_Interval
  <2> QED
    BY <2>2, FS_Subset
<1>6. CoveredOf(next) = CoveredOf(h) \cup ({w} \X new)
  <2>1. ASSUME NEW x PROVE x \in CoveredOf(next) <=> x \in CoveredOf(h) \cup ({w} \X new)
    <3>1. x \in CoveredOf(next) <=> \E v \in PagesOf(next) : x \in {v} \X next.root[v].cover
      BY DEF CoveredOf
    <3>2. x \in CoveredOf(h) <=> \E v \in PagesOf(h) : x \in {v} \X h.root[v].cover
      BY DEF CoveredOf
    <3>3. \A v \in PagesOf(h) \ {w} : h.root[v].cover = next.root[v].cover
      BY <1>1 DEF PagesOf
    <3>4. x \in {w} \X page.cover <=> x \in {w} \X CoverOf(h.root[w]) \/ x \in {w} \X new
      OBVIOUS
    <3>5. w \in PagesOf(h) => CoverOf(h.root[w]) = h.root[w].cover
      BY DEF PagesOf, CoverOf
    <3>6. w \notin PagesOf(h) => CoverOf(h.root[w]) = {}
      BY DEF PagesOf, CoverOf
    <3> QED
      BY <1>1, <1>2, <3>1, <3>2, <3>3, <3>4, <3>5, <3>6
  <2> QED
    BY <2>1
<1>7. CoveredOf(h) \cap ({w} \X new) = {}
  <2>1. \A o : <<w, o>> \in CoveredOf(h) => o \in CoverOf(h.root[w])
    BY DEF CoveredOf, CoverOf, PagesOf
  <2> QED
    BY <2>1
<1>8. next.coveredBytes = Cardinality(CoveredOf(next))
  <2>1. IsFiniteSet({w} \X new) /\ Cardinality({w} \X new) = Cardinality(new)
    BY <1>5, PairedSize
  <2>2. Cardinality(CoveredOf(next)) =
          Cardinality(CoveredOf(h)) + Cardinality({w} \X new)
            - Cardinality(CoveredOf(h) \cap ({w} \X new))
    BY <1>3, <1>6, <2>1, FS_Union
  <2>3. Cardinality(CoveredOf(h) \cap ({w} \X new)) = 0
    BY <1>7, FS_EmptySet
  <2>4. Cardinality(CoveredOf(h)) \in Nat /\ Cardinality(new) \in Nat
    BY <1>3, <1>5, FS_CardinalityType
  <2> QED
    BY <1>3, <2>1, <2>2, <2>3, <2>4
<1> QED
  BY <1>1, <1>2, <1>4, <1>8 DEF AddsUp

---------------------------------------------------------------------------
(* Header and updates, one lemma per kind of step.                         *)

\* What is neither nothing nor of the wrong kind.
LEMMA NothingFacts ==
  /\ Nothing \notin Bytes /\ Nothing \notin Page /\ Nothing \notin Header
  /\ Nothing \notin Update /\ Nothing \notin Session
BY StagingAssumption

\* A plan adds bytes to the header it expects and changes none.
LEMMA PlanStep ==
  ASSUME StagedInv, NEW k \in Workers, NEW f \in Facts[k], Plan(k, f)
  PROVE  StagedInv'
<1>a. PICK page : page = header.root[f.window]
  OBVIOUS
<1>b. PICK np : np = NextPage(f, page)
  OBVIOUS
<1>c. PICK next : next = [checkpoint |-> header.checkpoint + 1,
                         root |-> [header.root EXCEPT ![f.window] = np],
                         coveredBytes |-> header.coveredBytes + Added(f, page),
                         pages |-> header.pages + (IF page = Nothing THEN 1 ELSE 0)]
  OBVIOUS
<1>d. PICK u : u = [step |-> "planned", expected |-> header, window |-> f.window,
                    image |-> np.image, next |-> next]
  OBVIOUS
<1>e. PICK new : new = Fetched(f) \ CoverOf(page)
  OBVIOUS
<1>1. /\ header # Nothing /\ Agrees(f, page) /\ ~(Fetched(f) \subseteq CoverOf(page))
      /\ Added(f, page) <= Total - header.coveredBytes
      /\ update' = [update EXCEPT ![k] = u]
      /\ UNCHANGED <<job, owned, expected, header, frozen, pieces, lost, chunks, session>>
  BY <1>a, <1>b, <1>c, <1>d DEF Plan, durable
<1>2. header \in Header /\ Counted(header) /\ Stored(header, PagesOf(header)) /\ f.window \in Windows
  BY <1>1, StagingAssumption DEF StagedInv, StagedType, HeaderSound
<1>3. /\ np \in Page
      /\ Len(np.image) = WindowSize(f.window)
      /\ np.checkpoint = header.checkpoint + 1
      /\ np.cover = CoverOf(page) \cup Fetched(f)
      /\ np.cover \subseteq 1..WindowSize(f.window)
      /\ np.cover # {} /\ CoverOf(page) \subseteq 1..WindowSize(f.window)
      /\ \A o \in CoverOf(page) : np.image[o] = page.image[o]
      /\ \A o \in 1..WindowSize(f.window) : o \notin np.cover => np.image[o] = Zero
  <2>1. StagedType
    BY DEF StagedInv
  <2>2. NextFits(f, header.root[f.window], NextPage(f, header.root[f.window]))
    BY <1>1, <1>2, <1>a, <2>1, NextPageFacts
  <2> QED
    BY <1>a, <1>b, <2>2 DEF NextFits
<1>4. /\ next.checkpoint = header.checkpoint + 1
      /\ next.root = [header.root EXCEPT ![f.window] = np]
      /\ next.coveredBytes = header.coveredBytes + Added(f, page)
      /\ next.pages = header.pages + (IF page = Nothing THEN 1 ELSE 0)
      /\ next = [checkpoint |-> next.checkpoint, root |-> next.root,
                 coveredBytes |-> next.coveredBytes, pages |-> next.pages]
      /\ u.step = "planned" /\ u.expected = header /\ u.window = f.window
      /\ u.image = np.image /\ u.next = next
      /\ u = [step |-> u.step, expected |-> u.expected, window |-> u.window,
              image |-> u.image, next |-> u.next]
  BY <1>c, <1>d
<1>5. /\ new # {} /\ new \cap CoverOf(page) = {} /\ np.cover = CoverOf(page) \cup new
      /\ Added(f, page) = Cardinality(new)
  BY <1>1, <1>3, <1>e DEF Added
<1>6. IsFiniteSet(new) /\ Added(f, page) \in Nat /\ Added(f, page) > 0
  <2>1. 1 \in Int /\ WindowSize(f.window) \in Int
    BY <1>2, WindowFacts, StagingAssumption
  <2>2. IsFiniteSet(1..WindowSize(f.window))
    BY <2>1, FS_Interval
  <2>3. IsFiniteSet(new)
    BY <1>3, <1>5, <2>2, FS_Subset
  <2> QED
    BY <1>5, <2>3, FS_CardinalityType, FS_EmptySet
<1>7. next \in Header
  <2>1. next.root \in [Windows -> Page \cup {Nothing}]
    BY <1>2, <1>3, <1>4 DEF Header
  <2>2. next.checkpoint \in Nat /\ next.coveredBytes \in Nat /\ next.pages \in Nat
    BY <1>2, <1>4, <1>6 DEF Header
  <2> QED
    BY <1>4, <2>1, <2>2 DEF Header
<1>8. /\ next.pages = Cardinality(PagesOf(next))
      /\ next.coveredBytes = Cardinality(CoveredOf(next))
      /\ PagesOf(next) = PagesOf(header) \cup {f.window}
      /\ \A v \in Windows \ {f.window} : next.root[v] = header.root[v]
      /\ next.root[f.window] = np
  <2>1. Adds(header, next, f.window, np, new)
    BY <1>a, <1>2, <1>3, <1>4, <1>5, <1>7 DEF Adds
  <2>2. AddsUp(header, next, f.window, np)
    BY <1>2, <2>1, PlanCounts
  <2> QED
    BY <2>2 DEF AddsUp
<1>9. Counted(next)
  <2>1. SUFFICES ASSUME NEW w \in PagesOf(next) PROVE PageValid(next, w)
    BY <1>8 DEF Counted
  <2>2. header.checkpoint \in Nat
    BY <1>2 DEF Header
  <2>3. CASE w = f.window
    BY <1>3, <1>4, <1>8, <2>2, <2>3 DEF PageValid
  <2>4. CASE w # f.window
    <3>1. w \in PagesOf(header) /\ next.root[w] = header.root[w]
      BY <1>8, <2>4 DEF PagesOf
    <3>2. PageValid(header, w)
      BY <1>2, <3>1 DEF Counted
    <3> QED
      BY <1>4, <2>2, <3>1, <3>2 DEF PageValid
  <2> QED
    BY <2>3, <2>4
<1>10. Grows(header, next)
  <2>1. SUFFICES ASSUME NEW w \in PagesOf(header)
                 PROVE  /\ next.root[w] # Nothing
                        /\ header.root[w].cover \subseteq next.root[w].cover
                        /\ \A o \in header.root[w].cover : next.root[w].image[o] = header.root[w].image[o]
    BY DEF Grows
  <2>2. CASE w = f.window
    <3>1. CoverOf(page) = header.root[w].cover
      BY <1>a, <2>2 DEF CoverOf, PagesOf
    <3> QED
      BY <1>a, <1>3, <1>8, <2>2, <3>1, NothingFacts
  <2>3. CASE w # f.window
    BY <1>8, <2>3 DEF PagesOf
  <2> QED
    BY <2>2, <2>3
<1>11. UpdateValid(u)'
  <2>1. Stored(next, PagesOf(next) \ {f.window})'
    BY <1>1, <1>2, <1>8 DEF Stored, PagesOf
  <2>2. header.coveredBytes < Total
    <3>1. header.coveredBytes \in Nat /\ Total \in Nat
      BY <1>2, WindowFacts DEF Header
    <3> QED
      BY <1>1, <1>6, <3>1
  <2>3. Stored(header, PagesOf(header))'
    BY <1>1, <1>2 DEF Stored
  <2> QED
    BY <1>1, <1>2, <1>4, <1>8, <1>9, <1>10, <2>1, <2>2, <2>3 DEF UpdateValid
<1>12. u \in Update
  <2>1. np.image \in Bytes
    BY <1>3 DEF Page
  <2> QED
    BY <1>2, <1>4, <1>7, <2>1 DEF Update
<1>13. StagedType' /\ HeaderSound'
  BY <1>1, <1>12 DEF StagedInv, StagedType, HeaderSound, Stored
<1>14. UpdatesSound'
  <2>1. \A j \in Workers : update'[j] = IF j = k THEN u ELSE update[j]
    BY <1>1 DEF StagedInv, StagedType
  <2>2. ASSUME NEW j \in Workers \ {k}, update[j] # Nothing
        PROVE  UpdateValid(update[j])'
    BY <1>1, <2>1, <2>2 DEF StagedInv, UpdatesSound, UpdateValid, Stored
  <2> QED
    BY <1>11, <2>1, <2>2 DEF UpdatesSound
<1> QED
  BY <1>13, <1>14 DEF StagedInv

\* A piece that is written is there, for its own update and for every other.
LEMMA WriteStep ==
  ASSUME StagedInv, NEW k \in Workers, WritePiece(k)
  PROVE  StagedInv'
<1>1. /\ update[k] # Nothing /\ update[k] \in Update
      /\ update' = [update EXCEPT ![k].step = "written"]
      /\ pieces \cup lost \subseteq (pieces \cup lost)'
      /\ <<update[k].window, update[k].image>> \in pieces'
      /\ UNCHANGED <<job, expected, header, frozen>>
  BY DEF WritePiece, StagedInv, StagedType
<1>2. \A h : \A W : Stored(h, W) => Stored(h, W)'
  BY <1>1 DEF Stored
<1>3. HeaderSound'
  BY <1>1, <1>2 DEF StagedInv, HeaderSound
<1>4. \A j \in Workers \ {k} : update'[j] = update[j]
  BY <1>1 DEF StagedInv, StagedType
<1>5. /\ update'[k] \in Update /\ update'[k].step = "written"
      /\ update'[k].expected = update[k].expected /\ update'[k].window = update[k].window
      /\ update'[k].image = update[k].image /\ update'[k].next = update[k].next
  BY <1>1 DEF StagedInv, StagedType, Update
<1>6. StagedType'
  BY <1>1, <1>4, <1>5 DEF StagedInv, StagedType
<1>7. UpdatesSound'
  <2>1. ASSUME NEW j \in Workers \ {k}, update[j] # Nothing
        PROVE  UpdateValid(update[j])'
    <3>1. UpdateValid(update[j])
      BY <2>1 DEF StagedInv, UpdatesSound
    <3>2. <<update[j].window, update[j].image>> \in pieces \cup lost =>
            <<update[j].window, update[j].image>> \in (pieces \cup lost)'
      BY <1>1
    <3> QED
      BY <1>2, <1>4, <3>1, <3>2 DEF UpdateValid
  <2>2. UpdateValid(update[k])'
    <3>1. UpdateValid(update[k])
      BY <1>1 DEF StagedInv, UpdatesSound
    <3> QED
      BY <1>1, <1>2, <1>5, <3>1 DEF UpdateValid
  <2> QED
    BY <1>4, <2>1, <2>2 DEF UpdatesSound
<1> QED
  BY <1>3, <1>6, <1>7 DEF StagedInv

\* A swap leaves the header or puts the next one of an update in its place,
\* whose piece is written.
LEMMA SwapStep ==
  ASSUME StagedInv, NEW k \in Workers, Swap(k)
  PROVE  StagedInv'
<1>1. /\ update[k] # Nothing /\ update[k] \in Update /\ update[k].step = "written"
      /\ header' \in {header, update[k].next}
      /\ update' = [update EXCEPT ![k] = Nothing]
      /\ UNCHANGED <<job, expected, frozen, pieces, lost>>
  BY DEF Swap, StagedInv, StagedType
<1>2. UpdateValid(update[k]) /\ update[k].next \in Header
  BY <1>1 DEF StagedInv, UpdatesSound, Update
<1>3. HeaderSound'
  <2>1. Counted(update[k].next) /\ Stored(update[k].next, PagesOf(update[k].next))
    BY <1>1, <1>2 DEF UpdateValid, Stored
  <2> QED
    BY <1>1, <2>1 DEF StagedInv, HeaderSound, Stored
<1>4. StagedType'
  BY <1>1, <1>2 DEF StagedInv, StagedType
<1>5. UpdatesSound'
  <2>1. \A j \in Workers : update'[j] \in {update[j], Nothing}
    BY <1>1 DEF StagedInv, StagedType
  <2>2. ASSUME NEW j \in Workers, update'[j] # Nothing
        PROVE  UpdateValid(update[j])'
    BY <1>1, <2>1, <2>2 DEF StagedInv, UpdatesSound, UpdateValid, Stored
  <2> QED
    BY <2>1, <2>2 DEF UpdatesSound
<1> QED
  BY <1>3, <1>4, <1>5 DEF StagedInv

\* Every other step at most begins or ends the staging, forgets the updates
\* or loses a piece.
Quiet ==
    /\ header' \in {header, Nothing, EmptyHeader}
    /\ frozen' \in {frozen, header}
    /\ update' \in {update, Idle}
    /\ job' \in {job, "Complete", "Cancelled"}
    /\ expected' = expected
    /\ (pieces \cup lost)' = pieces \cup lost

\* The header a staging begins with counts its pages and bytes: none.
LEMMA EmptyHeaderSound ==
  EmptyHeader \in Header /\ Counted(EmptyHeader) /\ PagesOf(EmptyHeader) = {}
<1>1. EmptyHeader \in Header
  BY DEF EmptyHeader, Header
<1>2. PagesOf(EmptyHeader) = {}
  BY DEF EmptyHeader, PagesOf
<1>3. CoveredOf(EmptyHeader) = {}
  BY <1>2 DEF CoveredOf
<1>4. EmptyHeader.pages = 0 /\ EmptyHeader.coveredBytes = 0
  BY DEF EmptyHeader
<1> QED
  BY <1>1, <1>2, <1>3, <1>4, FS_EmptySet DEF Counted

\* A quiet step keeps what is said of header and updates.
LEMMA QuietStep ==
  ASSUME StagedInv, Quiet
  PROVE  StagedInv'
<1>1. \A h : \A W : Stored(h, W) <=> Stored(h, W)'
  BY DEF Quiet, Stored
<1>2. HeaderSound'
  BY <1>1, EmptyHeaderSound DEF Quiet, StagedInv, HeaderSound, Stored
<1>3. StagedType'
  BY EmptyHeaderSound DEF Quiet, StagedInv, StagedType, Idle
<1>4. UpdatesSound'
  <2>1. CASE update' = Idle
    BY <2>1 DEF UpdatesSound, Idle
  <2>2. CASE update' = update
    <3>1. ASSUME NEW j \in Workers, update[j] # Nothing
          PROVE  UpdateValid(update[j])'
      BY <1>1, <3>1, <2>2 DEF StagedInv, UpdatesSound, UpdateValid, Quiet
    <3> QED
      BY <2>2, <3>1 DEF UpdatesSound
  <2> QED
    BY <2>1, <2>2 DEF Quiet
<1> QED
  BY <1>2, <1>3, <1>4 DEF StagedInv

\* A step is one of those of a worker, or quiet.
LEMMA NextKinds ==
  ASSUME Next
  PROVE  \/ \E k \in Workers : \E f \in Facts[k] : Plan(k, f)
         \/ \E k \in Workers : WritePiece(k)
         \/ \E k \in Workers : Swap(k)
         \/ Quiet
<1>1. CASE Begin
  BY <1>1 DEF Begin, Quiet
<1>2. CASE \E k \in Workers : Download(k) \/ \E f \in Facts[k] : Plan(k, f)
  BY <1>2 DEF Download
<1>3. CASE Finalize
  <2>1. CASE Freeze
    BY <2>1 DEF Freeze, Quiet
  <2>2. CASE BeginFinalize
    BY <2>2 DEF BeginFinalize, Quiet, durable
  <2>3. CASE AdvancePage
    BY <2>3 DEF AdvancePage, Quiet, durable
  <2>4. CASE AdvancePiece
    BY <2>4 DEF AdvancePiece, Quiet, durable
  <2>5. CASE WriteChunk
    BY <2>5 DEF WriteChunk, Quiet
  <2>6. CASE AdvancePublished
    BY <2>6 DEF AdvancePublished, Quiet, durable
  <2>7. CASE AdvanceComplete
    BY <2>7 DEF AdvanceComplete, Quiet, durable
  <2>8. CASE CommitCompletion
    BY <2>8 DEF CommitCompletion, Quiet
  <2> QED
    BY <1>3, <2>1, <2>2, <2>3, <2>4, <2>5, <2>6, <2>7, <2>8 DEF Finalize
<1>4. CASE Cancel
  BY <1>4 DEF Cancel, Quiet
<1>5. CASE Crash
  BY <1>5 DEF Crash, Quiet, durable
<1>6. CASE LosePiece
  BY <1>6 DEF LosePiece, Quiet
<1>7. CASE Abandon
  BY <1>7 DEF Abandon, Quiet
<1> QED
  BY <1>1, <1>2, <1>3, <1>4, <1>5, <1>6, <1>7 DEF Next

\* The invariant of header and updates.
LEMMA StagedInvariance == Spec => []StagedInv
<1>1. ASSUME Init PROVE StagedInv
  BY <1>1, StagingAssumption DEF Init, StagedInv, StagedType, HeaderSound, UpdatesSound, Idle
<1>2. ASSUME StagedInv, [Next]_vars PROVE StagedInv'
  <2>1. CASE Next
    BY <1>2, <2>1, NextKinds, PlanStep, WriteStep, SwapStep, QuietStep
  <2>2. CASE UNCHANGED vars
    <3>1. Quiet
      BY <2>2 DEF Quiet, vars, durable
    <3> QED
      BY <1>2, <3>1, QuietStep
  <2> QED
    BY <1>2, <2>1, <2>2
<1> QED
  BY <1>1, <1>2, PTL DEF Spec

\* The header says what the disk holds, whatever races and crashes there were
\* between a piece and the swap of the header.
THEOREM HeaderAlwaysValid == Spec => []HeaderValid
<1>1. ASSUME StagedInv PROVE HeaderValid
  BY <1>1 DEF StagedInv, HeaderSound, Counted, PageValid, Stored, HeaderValid
<1> QED
  BY <1>1, StagedInvariance, PTL

\* A byte that was covered stays covered and stays the byte it was, until the
\* staging is given up.
THEOREM CoverageAlwaysKept == Spec => CoverageKept
<1> DEFINE Kept == header # Nothing /\ header' # Nothing => Grows(header, header')
<1>1. ASSUME StagedInv, Next PROVE Kept
  <2>1. ASSUME header' = header PROVE Kept
    BY <2>1 DEF Grows, PagesOf
  <2>2. ASSUME NEW k \in Workers, Swap(k) PROVE Kept
    <3>1. CASE header' = header
      BY <3>1, <2>1
    <3>2. CASE header' # header
      <4>1. /\ header = update[k].expected /\ header' = update[k].next
            /\ update[k] # Nothing
        BY <2>2, <3>2 DEF Swap
      <4>2. Grows(update[k].expected, update[k].next)
        BY <1>1, <4>1 DEF StagedInv, UpdatesSound, UpdateValid
      <4> QED
        BY <4>1, <4>2
    <3> QED
      BY <3>1, <3>2
  <2>3. ASSUME NEW k \in Workers, NEW f \in Facts[k], Plan(k, f) PROVE Kept
    BY <2>1, <2>3 DEF Plan, durable
  <2>4. ASSUME NEW k \in Workers, WritePiece(k) PROVE Kept
    BY <2>1, <2>4 DEF WritePiece
  <2>5. header' = header \/ header = Nothing \/ header' = Nothing \/ \E k \in Workers : Swap(k)
    BY <1>1 DEF Next, Begin, Download, Plan, WritePiece, Finalize, Freeze, BeginFinalize,
         AdvancePage, AdvancePiece, WriteChunk, AdvancePublished, AdvanceComplete,
         CommitCompletion, Cancel, Crash, LosePiece, Abandon, durable
  <2> QED
    BY <2>1, <2>2, <2>5
<1>2. ASSUME StagedInv, [Next]_vars
      PROVE  [\A w \in Windows :
                header # Nothing /\ header' # Nothing /\ header.root[w] # Nothing =>
                  /\ header'.root[w] # Nothing
                  /\ header.root[w].cover \subseteq header'.root[w].cover
                  /\ \A o \in header.root[w].cover :
                       header'.root[w].image[o] = header.root[w].image[o]]_vars
  BY <1>1, <1>2 DEF Grows, PagesOf
<1> QED
  BY <1>2, StagedInvariance, PTL DEF Spec, CoverageKept

---------------------------------------------------------------------------
(* What a finalizer has read is the beginning of what the covered header   *)
(* stands for, and what it has published are chunks of that.               *)

ChunkOf(bytes, k) ==
    SubSeq(bytes, (k - 1) * ChunkBytes + 1, (k - 1) * ChunkBytes + ChunkSize(k))

Begins(s, whole) == Len(s) <= Total /\ \A n \in 1..Len(s) : s[n] = whole[n]

AtWindow(s) == s.window \in Windows /\ Len(s.hash) = WindowStart(s.window)

Reading(s) == s.request \in {"Page", "Piece"} /\ AtWindow(s) /\ ~s.durable

\* The buffer is what was read since the last chunk.
Buffered(s, whole) ==
    /\ Len(s.hash) = s.publishedChunks * ChunkBytes + Len(s.buffer)
    /\ \A n \in 1..Len(s.buffer) : s.buffer[n] = whole[s.publishedChunks * ChunkBytes + n]

Verifying(s) ==
    Reading(s) /\ s.verifiedHash = Nothing /\ s.buffer = <<>> /\ s.publishedChunks = 0

Publishing(s, whole) ==
    /\ s.request = "Publish"
    /\ Len(s.buffer) = ChunkSize(s.publishedChunks + 1)
    /\ s.durable => <<whole, s.publishedChunks + 1, s.buffer>> \in chunks
    /\ Len(s.hash) < Total => AtWindow(s)

Resealing(s, whole) ==
    /\ s.verifiedHash = whole
    /\ expected # Nothing => expected = whole
    /\ \A k \in 1..s.publishedChunks : <<whole, k, ChunkOf(whole, k)>> \in chunks
    /\ s.phase \in {"Reseal", "AwaitPublication"} => Buffered(s, whole)
    /\ s.phase = "Reseal" => Reading(s)
    /\ s.phase = "AwaitPublication" => Publishing(s, whole)
    /\ s.phase = "AwaitCompletion" => s.request = "Complete"
    /\ s.phase = "Finished" => s.request = "Finished" /\ s.publishedChunks = ChunkCount

SessionFits(s, h) ==
    /\ s.checkpoint = h /\ h \in Header /\ Covered(h) /\ Counted(h)
    /\ Begins(s.hash, Content(h))
    /\ s.phase = "Verify" => Verifying(s)
    /\ s.phase # "Verify" => Resealing(s, Content(h))

SessionSound == session # Nothing => SessionFits(session, header)

DoneSound ==
    job = "Complete" =>
      /\ header # Nothing => Covered(header) /\ owned = Content(header)
      /\ expected # Nothing => owned = expected
      /\ \A k \in 1..ChunkCount : <<owned, k, ChunkOf(owned, k)>> \in chunks

FinishInv ==
    /\ owned \in Bytes \cup {Nothing}
    /\ session \in Session \cup {Nothing}
    /\ SessionSound
    /\ DoneSound

\* Every window of a covered header has a page, with an image of its size.
LEMMA CoveredWindow ==
  ASSUME NEW h \in Header, Covered(h), Counted(h), NEW w \in Windows
  PROVE  /\ h.root[w].image \in Bytes
         /\ Len(h.root[w].image) = WindowSize(w)
<1>1. ArchiveStagingPageCount \in Nat
  <2>1. Total - 1 \in Nat /\ WindowBytes \in Nat \ {0}
    BY StagingAssumption DEF Total, Bytes
  <2>2. (Total - 1) \div WindowBytes \in Nat
    BY <2>1, DivBounds
  <2> QED
    BY <2>2 DEF ArchiveStagingPageCount
<1>2. IsFiniteSet(Windows) /\ Cardinality(Windows) = ArchiveStagingPageCount
  BY <1>1, FS_Interval DEF Windows
<1>3. PagesOf(h) \in SUBSET Windows
  BY DEF PagesOf
<1>4. Cardinality(PagesOf(h)) = ArchiveStagingPageCount
  BY DEF Covered, Counted
<1>5. PagesOf(h) = Windows
  BY <1>2, <1>3, <1>4, FS_Subset
<1>6. PageValid(h, w)
  BY <1>5 DEF Counted
<1>7. h.root[w] \in Page
  BY <1>5 DEF PagesOf, Header
<1> QED
  BY <1>6, <1>7 DEF PageValid, Page

\* What an image adds to what was read.
Continues(h, s, w, image) ==
    /\ image \in Bytes /\ Len(image) = WindowSize(w)
    /\ s \o image \in Bytes
    /\ Len(s \o image) = Len(s) + Len(image)
    /\ Begins(s \o image, Content(h))
    /\ \A o \in 1..Len(image) : image[o] = Content(h)[Len(s) + o]
    /\ Len(s \o image) < Total =>
         w + 1 \in Windows /\ Len(s \o image) = WindowStart(w + 1)

\* The image of the next window continues what was read.
LEMMA ReadOn ==
  ASSUME NEW h \in Header, Covered(h), Counted(h), NEW w \in Windows,
         NEW s \in Bytes, Begins(s, Content(h)), Len(s) = WindowStart(w)
  PROVE  Continues(h, s, w, h.root[w].image)
<1> DEFINE image == h.root[w].image
<1>1. image \in Bytes /\ Len(image) = WindowSize(w)
  BY CoveredWindow
<1> HIDE DEF image
<1>2. /\ Total \in Nat /\ WindowStart(w) \in Nat /\ WindowSize(w) \in 1..WindowBytes
      /\ WindowStart(w) + WindowSize(w) <= Total
      /\ WindowStart(w) + WindowSize(w) < Total =>
           w + 1 \in Windows /\ WindowStart(w + 1) = WindowStart(w) + WindowSize(w)
  BY WindowFacts
<1>3. ASSUME NEW o \in 1..Len(image) PROVE image[o] = Content(h)[Len(s) + o]
  <2>1. /\ WindowStart(w) + o \in 1..Total
        /\ ((WindowStart(w) + o - 1) \div WindowBytes) + 1 = w
        /\ ((WindowStart(w) + o - 1) % WindowBytes) + 1 = o
    BY <1>1, <1>3, OffsetInWindow
  <2>2. Content(h)[WindowStart(w) + o] =
          h.root[((WindowStart(w) + o - 1) \div WindowBytes) + 1]
            .image[((WindowStart(w) + o - 1) % WindowBytes) + 1]
    BY <2>1 DEF Content
  <2>3. Content(h)[WindowStart(w) + o] = h.root[w].image[o]
    BY Zenon, <2>1, <2>2
  <2> QED
    BY <2>3 DEF image
<1>4. /\ s \o image \in Bytes /\ Len(s \o image) = Len(s) + Len(image)
      /\ \A n \in 1..(Len(s) + Len(image)) :
           (s \o image)[n] = IF n <= Len(s) THEN s[n] ELSE image[n - Len(s)]
  <2>1. s \in Seq(STRING) /\ image \in Seq(STRING)
    BY <1>1 DEF Bytes
  <2> QED
    BY <2>1, Concatenation DEF Bytes
<1>5. Begins(s \o image, Content(h))
  <2>1. Len(s) \in Nat /\ Len(image) \in Nat
    BY <1>1 DEF Bytes
  <2>2. Len(s) + Len(image) <= Total
    BY <1>1, <1>2
  <2>3. ASSUME NEW n \in 1..(Len(s) + Len(image))
        PROVE  (s \o image)[n] = Content(h)[n]
    <3>1. CASE n <= Len(s)
      <4>1. n \in 1..Len(s)
        BY <2>1, <3>1
      <4> QED
        BY <1>4, <3>1, <4>1 DEF Begins
    <3>2. CASE ~(n <= Len(s))
      <4>1. n - Len(s) \in 1..Len(image) /\ Len(s) + (n - Len(s)) = n
        BY <2>1, <3>2
      <4>2. image[n - Len(s)] = Content(h)[Len(s) + (n - Len(s))]
        BY <1>3, <4>1
      <4> QED
        BY <1>4, <3>2, <4>1, <4>2
    <3> QED
      BY <3>1, <3>2
  <2> QED
    BY <1>4, <2>2, <2>3 DEF Begins
<1> QED
  BY <1>1, <1>2, <1>3, <1>4, <1>5 DEF image, Continues

\* What a covered header stands for is bytes.
LEMMA ContentIsBytes ==
  ASSUME NEW h \in Header, Covered(h), Counted(h)
  PROVE  Content(h) \in Bytes /\ Len(Content(h)) = Total
<1>1. Total \in Nat \ {0} /\ WindowBytes \in Nat \ {0}
  BY StagingAssumption DEF Bytes, Total
<1>2. ASSUME NEW n \in 1..Total
      PROVE  h.root[((n - 1) \div WindowBytes) + 1].image[((n - 1) % WindowBytes) + 1] \in STRING
  <2> DEFINE w == ((n - 1) \div WindowBytes) + 1
             o == ((n - 1) % WindowBytes) + 1
  <2>1. w \in Windows /\ o \in 1..WindowSize(w)
    BY <1>2, WindowOfByte
  <2> QED
    BY <2>1, CoveredWindow DEF Bytes
<1>3. Content(h) \in [1..Total -> STRING]
  BY <1>2 DEF Content
<1> QED
  BY <1>1, <1>3, FunctionIsSeq DEF Bytes

\* What begins as the file does and is as long is the file.
LEMMA AllRead ==
  ASSUME NEW h, NEW s \in Bytes, Begins(s, Content(h)), Len(s) >= Total
  PROVE  s = Content(h) /\ Len(s) = Total
<1>1. Len(s) = Total /\ DOMAIN s = 1..Total /\ s = [n \in 1..Total |-> s[n]]
  <2>1. Total \in Nat
    BY StagingAssumption DEF Bytes, Total
  <2>2. Len(s) \in Nat /\ Len(s) <= Total
    BY DEF Begins, Bytes
  <2>3. Len(s) = Total
    BY <2>1, <2>2
  <2> QED
    BY <2>3 DEF Bytes
<1>2. \A n \in 1..Total : s[n] = Content(h)[n]
  BY <1>1 DEF Begins
<1>3. Content(h) = [n \in 1..Total |-> Content(h)[n]]
  BY DEF Content
<1> QED
  BY <1>1, <1>2, <1>3

---------------------------------------------------------------------------
(* The steps of the finalizer, and every other step.                       *)

\* What fits a header keeps fitting it while chunks are only added.
LEMMA FitsOn ==
  ASSUME NEW s, NEW h, SessionFits(s, h), chunks \subseteq chunks', expected' = expected
  PROVE  SessionFits(s, h)'
<1>1. \A c : c \in chunks => c \in chunks'
  OBVIOUS
<1>2. (s.phase = "Verify" => Verifying(s))'
  BY DEF SessionFits
<1>3. ASSUME s.phase # "Verify" PROVE Resealing(s, Content(h))'
  <2>1. Resealing(s, Content(h))
    BY <1>3 DEF SessionFits
  <2> QED
    BY <1>1, <2>1 DEF Resealing, Publishing
<1> QED
  BY <1>2, <1>3 DEF SessionFits

\* A step away from the finalizer leaves the header, or ends the session and
\* at most takes the header away.
Elsewhere ==
    /\ session' \in {session, Nothing}
    /\ owned' = owned /\ expected' = expected
    /\ job' \in {job, "Cancelled"}
    /\ chunks \subseteq chunks'
    /\ \/ header' = header
       \/ session' = Nothing /\ (job = "Complete" => header' = Nothing)

\* A step away from the finalizer keeps what is said of session and job.
LEMMA ElsewhereStep ==
  ASSUME FinishInv, Elsewhere
  PROVE  FinishInv'
<1>1. SessionSound'
  <2>1. SUFFICES ASSUME session' # Nothing PROVE SessionFits(session, header)'
    BY DEF SessionSound
  <2>2. session' = session /\ header' = header /\ SessionFits(session, header)
    BY <2>1 DEF Elsewhere, FinishInv, SessionSound
  <2> QED
    BY <2>2, FitsOn DEF Elsewhere
<1>2. DoneSound'
  BY DEF FinishInv, Elsewhere, DoneSound
<1> QED
  BY <1>1, <1>2 DEF FinishInv, Elsewhere

\* Only the finalizer works on a session or completes a job: a covered header
\* is not replaced, as every update expects one that lacks bytes.
LEMMA WorkElsewhere ==
  ASSUME StagedInv, FinishInv, Next, ~Finalize
  PROVE  Elsewhere
<1>1. CASE Begin
  <2>1. session = Nothing
    BY <1>1, NothingFacts DEF Begin, FinishInv, SessionSound, SessionFits
  <2> QED
    BY <1>1, <2>1 DEF Begin, BindingReady, Elsewhere
<1>2. ASSUME NEW k \in Workers, NEW f \in Facts[k], Plan(k, f) PROVE Elsewhere
  BY <1>2 DEF Plan, Elsewhere, durable
<1>3. ASSUME NEW k \in Workers, WritePiece(k) PROVE Elsewhere
  BY <1>3 DEF WritePiece, Elsewhere
<1>4. ASSUME NEW k \in Workers, Swap(k) PROVE Elsewhere
  <2>1. /\ session' = session /\ owned' = owned /\ expected' = expected
        /\ job' = job /\ chunks' = chunks
    BY <1>4 DEF Swap
  <2>2. CASE header' = header
    BY <2>1, <2>2 DEF Elsewhere
  <2>3. CASE header' # header
    <3>1. header = update[k].expected /\ update[k] # Nothing /\ update[k] \in Update
      BY <1>4, <2>3 DEF Swap, StagedInv, StagedType
    <3>2. header.coveredBytes < Total /\ header \in Header
      BY <3>1 DEF StagedInv, UpdatesSound, UpdateValid, Update
    <3>3. header.coveredBytes # Total
      BY <3>2, WindowFacts, StagingAssumption DEF Header, Total, Bytes
    <3>4. ~Covered(header) /\ header # Nothing
      BY <3>2, <3>3, NothingFacts DEF Covered
    <3>5. session = Nothing /\ job # "Complete"
      BY <3>4 DEF FinishInv, SessionSound, SessionFits, DoneSound
    <3> QED
      BY <2>1, <3>5 DEF Elsewhere
  <2> QED
    BY <2>2, <2>3
<1>5. CASE Cancel
  BY <1>5 DEF Cancel, Elsewhere
<1>6. CASE Crash
  BY <1>6 DEF Crash, Elsewhere, durable
<1>7. CASE LosePiece
  BY <1>7 DEF LosePiece, Elsewhere
<1>8. CASE Abandon
  BY <1>8 DEF Abandon, Elsewhere
<1> QED
  BY <1>1, <1>2, <1>3, <1>4, <1>5, <1>6, <1>7, <1>8 DEF Next, Download

\* A step of the finalizer proper ends with a session that fits, or is refused.
LEMMA SessionStep ==
  ASSUME FinishInv, chunks \subseteq chunks',
         UNCHANGED <<job, owned, expected, header>>,
         session' \in Session, SessionFits(session, header)'
  PROVE  FinishInv'
<1>1. SessionSound'
  BY DEF SessionSound
<1>2. DoneSound'
  BY DEF FinishInv, DoneSound
<1> QED
  BY <1>1, <1>2 DEF FinishInv

\* A session that is refused leaves nothing behind.
LEMMA RefusedStep ==
  ASSUME FinishInv, session' = Nothing, UNCHANGED <<job, owned, expected, header, chunks>>
  PROVE  FinishInv'
BY DEF FinishInv, SessionSound, DoneSound

\* A session begins with nothing read, at the first window.
LEMMA BeginFinalizeStep ==
  ASSUME StagedInv, FinishInv, BeginFinalize
  PROVE  FinishInv'
<1>1. /\ header # Nothing /\ Covered(header) /\ header \in Header /\ Counted(header)
      /\ frozen = header
      /\ UNCHANGED <<job, owned, expected, header, chunks>>
  BY DEF BeginFinalize, SameHeader, durable, StagedInv, StagedType, HeaderSound
<1>2. PICK s : s = [phase |-> "Verify", request |-> "Page", checkpoint |-> frozen,
                    window |-> 1, hash |-> <<>>, verifiedHash |-> Nothing,
                    buffer |-> <<>>, publishedChunks |-> 0, durable |-> FALSE]
  OBVIOUS
<1>3. session' = s
  BY <1>2 DEF BeginFinalize
<1>4. 1 \in Windows /\ WindowStart(1) = 0
  BY FirstWindow
<1>5. s \in Session
  <2>1. <<>> \in Bytes
    BY DEF Bytes
  <2> QED
    BY <1>1, <1>2, <1>4, <2>1 DEF Session
<1>6. Begins(<<>>, Content(header))
  BY StagingAssumption DEF Begins, Total, Bytes
<1>7. SessionFits(s, header)
  BY <1>1, <1>2, <1>4, <1>6 DEF SessionFits, Verifying, Reading, AtWindow
<1>8. SessionFits(s, header)'
  BY <1>1, <1>7, FitsOn
<1> QED
  BY <1>1, <1>3, <1>5, <1>8, SessionStep

\* A page that is read changes only what is asked for next.
LEMMA AdvancePageStep ==
  ASSUME FinishInv, AdvancePage
  PROVE  FinishInv'
<1>1. /\ session # Nothing /\ session \in Session /\ SessionFits(session, header)
      /\ session.request = "Page"
      /\ UNCHANGED <<job, owned, expected, header, chunks>>
      /\ session' \in {Nothing, [session EXCEPT !.request = "Piece"]}
  BY DEF AdvancePage, Advancing, Refuse, durable, FinishInv, SessionSound
<1>2. PICK s : s = [session EXCEPT !.request = "Piece"]
  OBVIOUS
<1>3. /\ s \in Session /\ s.request = "Piece"
      /\ s.phase = session.phase /\ s.checkpoint = session.checkpoint
      /\ s.window = session.window /\ s.hash = session.hash
      /\ s.verifiedHash = session.verifiedHash /\ s.buffer = session.buffer
      /\ s.publishedChunks = session.publishedChunks /\ s.durable = session.durable
  BY <1>1, <1>2 DEF Session
<1>4. SessionFits(s, header)
  <2>1. s.phase = "Verify" => Verifying(s)
    BY <1>1, <1>3 DEF SessionFits, Verifying, Reading, AtWindow
  <2>2. ASSUME s.phase # "Verify" PROVE Resealing(s, Content(header))
    <3>1. Resealing(session, Content(header)) /\ s.phase = "Reseal"
      BY <1>1, <1>3, <2>2 DEF SessionFits, Resealing, Publishing, Session
    <3> QED
      BY <1>1, <1>3, <3>1 DEF Resealing, Buffered, Reading, AtWindow
  <2> QED
    BY <1>1, <1>3, <2>1, <2>2 DEF SessionFits
<1>5. SessionFits(s, header)'
  BY <1>1, <1>4, FitsOn
<1>6. CASE session' = Nothing
  BY <1>1, <1>6, RefusedStep
<1>7. CASE session' = s
  BY <1>1, <1>3, <1>5, <1>7, SessionStep
<1> QED
  BY <1>1, <1>2, <1>6, <1>7

\* A piece continues the hash; the last one of the first pass ends it with the
\* hash of the file.
LEMMA VerifyPieceStep ==
  ASSUME FinishInv, AdvancePiece, session.phase = "Verify"
  PROVE  FinishInv'
<1> DEFINE w == session.window
<1>1. /\ session # Nothing /\ session \in Session /\ SessionFits(session, header)
      /\ UNCHANGED <<job, owned, expected, header, chunks>>
  BY DEF AdvancePiece, Advancing, durable, FinishInv, SessionSound
<1>2. PICK image : image = session.checkpoint.root[w].image
  OBVIOUS
<1>3. PICK read : read = [session EXCEPT !.hash = @ \o image, !.window = @ + 1, !.request = "Page"]
  OBVIOUS
<1>4. PICK over : over = [read EXCEPT !.phase = "Reseal", !.window = 1, !.hash = <<>>,
                                      !.verifiedHash = read.hash]
  OBVIOUS
<1>5. \/ session' = Nothing
      \/ Len(read.hash) < Total /\ session' = read
      \/ ~(Len(read.hash) < Total) /\ Verified(read) /\ session' = over
  BY <1>2, <1>3, <1>4 DEF AdvancePiece, Refuse
<1>6. /\ header \in Header /\ Covered(header) /\ Counted(header) /\ session.checkpoint = header
      /\ Begins(session.hash, Content(header)) /\ Verifying(session) /\ ~session.durable
      /\ w \in Windows /\ session.hash \in Bytes /\ Len(session.hash) = WindowStart(w)
  BY <1>1 DEF SessionFits, Verifying, Reading, AtWindow, Session
<1>7. /\ image \in Bytes
      /\ session.hash \o image \in Bytes
      /\ Begins(session.hash \o image, Content(header))
      /\ Len(session.hash \o image) < Total =>
           w + 1 \in Windows /\ Len(session.hash \o image) = WindowStart(w + 1)
  <2>1. Continues(header, session.hash, w, header.root[w].image)
    BY <1>6, ReadOn
  <2> QED
    BY <1>2, <1>6, <2>1 DEF Continues
<1>8. /\ read.hash = session.hash \o image /\ read.window = w + 1 /\ read.request = "Page"
      /\ read.phase = "Verify" /\ read.checkpoint = header
      /\ read.verifiedHash = Nothing /\ read.buffer = <<>> /\ read.publishedChunks = 0
      /\ read.durable = session.durable
      /\ read \in Session
  <2>1. w + 1 \in Nat
    BY <1>6 DEF Windows
  <2> QED
    BY <1>1, <1>3, <1>6, <1>7, <2>1 DEF Session, Verifying
<1>9. CASE Len(read.hash) < Total /\ session' = read
  <2>1. SessionFits(read, header)
    BY <1>6, <1>7, <1>8, <1>9 DEF SessionFits, Verifying, Reading, AtWindow
  <2>2. SessionFits(read, header)'
    BY <1>1, <2>1, FitsOn
  <2> QED
    BY <1>1, <1>8, <1>9, <2>2, SessionStep
<1>10. CASE ~(Len(read.hash) < Total) /\ Verified(read) /\ session' = over
  <2>1. read.hash = Content(header) /\ Content(header) \in Bytes
    <3>1. read.hash \in Bytes /\ Begins(read.hash, Content(header))
      BY <1>7, <1>8
    <3>2. Len(read.hash) >= Total
      BY <1>10, <3>1, StagingAssumption DEF Bytes, Total
    <3> QED
      BY <3>1, <3>2, AllRead
  <2>2. expected # Nothing => expected = Content(header)
    BY <1>10, <2>1 DEF Verified
  <2>3. 1 \in Windows /\ WindowStart(1) = 0 /\ <<>> \in Bytes /\ 0 * ChunkBytes = 0
    BY FirstWindow
  <2>4. /\ over.phase = "Reseal" /\ over.window = 1 /\ over.hash = <<>>
        /\ over.verifiedHash = Content(header) /\ over.request = "Page"
        /\ over.checkpoint = header /\ over.buffer = <<>> /\ over.publishedChunks = 0
        /\ over.durable = session.durable /\ over \in Session
    BY <1>4, <1>8, <2>1, <2>3 DEF Session
  <2>5. Begins(<<>>, Content(header))
    BY FirstWindow DEF Begins
  <2>6. Resealing(over, Content(header))
    <3>1. Reading(over)
      BY <1>6, <2>3, <2>4, FirstWindow DEF Reading, AtWindow
    <3>2. Buffered(over, Content(header))
      BY <2>3, <2>4 DEF Buffered
    <3> QED
      BY <2>2, <2>4, <3>1, <3>2 DEF Resealing
  <2>7. SessionFits(over, header)
    BY <1>6, <2>4, <2>5, <2>6 DEF SessionFits
  <2>8. SessionFits(over, header)'
    BY <1>1, <2>7, FitsOn
  <2> QED
    BY <1>1, <1>10, <2>4, <2>8, SessionStep
<1>11. CASE session' = Nothing
  BY <1>1, <1>11, RefusedStep
<1> QED
  BY <1>5, <1>9, <1>10, <1>11

\* A piece of the second pass also fills the buffer.
LEMMA ResealPieceStep ==
  ASSUME FinishInv, AdvancePiece, session.phase # "Verify"
  PROVE  FinishInv'
<1> DEFINE w == session.window
           p == session.publishedChunks
<1>1. /\ session # Nothing /\ session \in Session /\ SessionFits(session, header)
      /\ session.request = "Piece"
      /\ UNCHANGED <<job, owned, expected, header, chunks>>
  BY DEF AdvancePiece, Advancing, durable, FinishInv, SessionSound
<1>2. PICK image : image = session.checkpoint.root[w].image
  OBVIOUS
<1>3. PICK filled : filled = [[session EXCEPT !.hash = @ \o image, !.window = @ + 1,
                                              !.request = "Page"]
                              EXCEPT !.buffer = @ \o image]
  OBVIOUS
<1>4. PICK ready : ready = [filled EXCEPT !.phase = "AwaitPublication", !.request = "Publish"]
  OBVIOUS
<1>5. \/ session' = Nothing
      \/ Len(filled.hash) < Total /\ session' = filled
      \/ PublishReady(filled) /\ session' = ready
  BY <1>2, <1>3, <1>4 DEF AdvancePiece, Refuse
<1>6. /\ header \in Header /\ Covered(header) /\ Counted(header) /\ session.checkpoint = header
      /\ Begins(session.hash, Content(header)) /\ Resealing(session, Content(header))
      /\ session.phase = "Reseal" /\ Buffered(session, Content(header))
      /\ w \in Windows /\ Len(session.hash) = WindowStart(w)
      /\ session.hash \in Bytes /\ session.buffer \in Bytes /\ p \in Nat
      /\ session.durable = FALSE
  BY <1>1 DEF SessionFits, Resealing, Publishing, Reading, AtWindow, Session
<1>7. /\ image \in Bytes
      /\ session.hash \o image \in Bytes
      /\ Len(session.hash \o image) = Len(session.hash) + Len(image)
      /\ Begins(session.hash \o image, Content(header))
      /\ \A o \in 1..Len(image) : image[o] = Content(header)[Len(session.hash) + o]
      /\ Len(session.hash \o image) < Total =>
           w + 1 \in Windows /\ Len(session.hash \o image) = WindowStart(w + 1)
  <2>1. Continues(header, session.hash, w, header.root[w].image)
    BY <1>6, ReadOn
  <2> QED
    BY <1>2, <1>6, <2>1 DEF Continues
<1>8. /\ session.buffer \o image \in Bytes
      /\ Len(session.buffer \o image) = Len(session.buffer) + Len(image)
      /\ \A n \in 1..(Len(session.buffer) + Len(image)) :
           (session.buffer \o image)[n] =
             IF n <= Len(session.buffer) THEN session.buffer[n]
             ELSE image[n - Len(session.buffer)]
  BY <1>6, <1>7, Concatenation DEF Bytes
<1>9. /\ filled.hash = session.hash \o image /\ filled.window = w + 1
      /\ filled.request = "Page" /\ filled.phase = "Reseal" /\ filled.checkpoint = header
      /\ filled.verifiedHash = session.verifiedHash /\ filled.buffer = session.buffer \o image
      /\ filled.publishedChunks = p /\ filled.durable = session.durable
      /\ filled \in Session
  <2>1. w + 1 \in Nat
    BY <1>6 DEF Windows
  <2> QED
    BY <1>1, <1>3, <1>6, <1>7, <1>8, <2>1 DEF Session
<1>10. Buffered(filled, Content(header))
  <2>1. /\ Len(session.hash) \in Nat /\ Len(image) \in Nat /\ Len(session.buffer) \in Nat
        /\ p * ChunkBytes \in Nat
    <3>1. ChunkBytes \in Nat
      BY StagingAssumption
    <3>2. p * ChunkBytes \in Nat
      BY <1>6, <3>1, Multiples
    <3> QED
      BY <1>6, <1>7, <3>2 DEF Bytes
  <2>2. Len(session.hash) = p * ChunkBytes + Len(session.buffer)
    BY <1>6 DEF Buffered
  <2>3. ASSUME NEW n \in 1..(Len(session.buffer) + Len(image))
        PROVE  (session.buffer \o image)[n] = Content(header)[p * ChunkBytes + n]
    <3>1. CASE n <= Len(session.buffer)
      <4>1. n \in 1..Len(session.buffer)
        BY <2>1, <3>1
      <4> QED
        BY <1>6, <1>8, <3>1, <4>1 DEF Buffered
    <3>2. CASE ~(n <= Len(session.buffer))
      <4>1. /\ n - Len(session.buffer) \in 1..Len(image)
            /\ Len(session.hash) + (n - Len(session.buffer)) = p * ChunkBytes + n
        BY <2>1, <2>2, <3>2
      <4>2. image[n - Len(session.buffer)]
              = Content(header)[Len(session.hash) + (n - Len(session.buffer))]
        BY <1>7, <4>1
      <4> QED
        BY <1>8, <3>2, <4>1, <4>2
    <3> QED
      BY <3>1, <3>2
  <2>4. Len(session.hash \o image) = p * ChunkBytes + Len(session.buffer \o image)
    BY <1>7, <1>8, <2>1, <2>2
  <2> QED
    BY <1>8, <1>9, <2>3, <2>4 DEF Buffered
<1>11. CASE Len(filled.hash) < Total /\ session' = filled
  <2>1. Resealing(filled, Content(header))
    BY <1>6, <1>7, <1>9, <1>10, <1>11 DEF Resealing, Reading, AtWindow
  <2>2. SessionFits(filled, header)
    BY <1>6, <1>7, <1>9, <2>1 DEF SessionFits
  <2>3. SessionFits(filled, header)'
    BY <1>1, <2>2, FitsOn
  <2> QED
    BY <1>1, <1>9, <1>11, <2>3, SessionStep
<1>12. CASE PublishReady(filled) /\ session' = ready
  <2>1. /\ ready.hash = filled.hash /\ ready.window = filled.window
        /\ ready.request = "Publish" /\ ready.phase = "AwaitPublication"
        /\ ready.checkpoint = header /\ ready.verifiedHash = session.verifiedHash
        /\ ready.buffer = filled.buffer /\ ready.publishedChunks = p
        /\ ready.durable = session.durable /\ ready \in Session
    BY <1>4, <1>9 DEF Session
  <2>2. Buffered(ready, Content(header))
    BY <1>9, <1>10, <2>1 DEF Buffered
  <2>3. Publishing(ready, Content(header))
    BY <1>6, <1>7, <1>9, <1>12, <2>1 DEF Publishing, PublishReady, AtWindow
  <2>4. Resealing(ready, Content(header))
    BY <1>6, <2>1, <2>2, <2>3 DEF Resealing
  <2>5. SessionFits(ready, header)
    BY <1>6, <1>7, <1>9, <2>1, <2>4 DEF SessionFits
  <2>6. SessionFits(ready, header)'
    BY <1>1, <2>5, FitsOn
  <2> QED
    BY <1>1, <1>12, <2>1, <2>6, SessionStep
<1>13. CASE session' = Nothing
  BY <1>1, <1>13, RefusedStep
<1> QED
  BY <1>5, <1>11, <1>12, <1>13

\* A buffer that is full is the next chunk of the file.
LEMMA BufferIsChunk ==
  ASSUME NEW s \in Session, NEW whole \in Bytes, Len(whole) = Total, Len(s.hash) <= Total,
         Buffered(s, whole), Len(s.buffer) = ChunkSize(s.publishedChunks + 1)
  PROVE  /\ s.buffer = ChunkOf(whole, s.publishedChunks + 1)
         /\ Len(s.hash) < Total => Len(s.hash) = (s.publishedChunks + 1) * ChunkBytes
<1> DEFINE p == s.publishedChunks
           m == p * ChunkBytes
<1>1. /\ p \in Nat /\ s.buffer \in Seq(STRING) /\ whole \in Seq(STRING) /\ Len(s.hash) \in Nat
      /\ ChunkBytes \in Nat \ {0} /\ Total \in Nat
  BY StagingAssumption DEF Session, Bytes, Total
<1>2. m \in Nat /\ (p + 1) * ChunkBytes = m + ChunkBytes /\ (p + 1) - 1 = p
  <2>1. p \in Nat /\ ChunkBytes \in Nat /\ (p + 1) - 1 = p
    BY <1>1
  <2> QED
    BY <2>1, Multiples
<1>3. Len(s.hash) = m + Len(s.buffer)
  BY DEF Buffered
<1>4. \A n \in 1..Len(s.buffer) : s.buffer[n] = whole[m + n]
  BY DEF Buffered
<1> HIDE DEF m
<1>5. SubSeq(whole, m + 1, m + Len(s.buffer)) = s.buffer
  BY <1>1, <1>2, <1>3, <1>4, PartIsSubSeq
<1>6. /\ ChunkOf(whole, p + 1) = SubSeq(whole, m + 1, m + ChunkSize(p + 1))
      /\ ChunkSize(p + 1) = Min({ChunkBytes, Total - m})
  <2>1. /\ ChunkOf(whole, p + 1) =
             SubSeq(whole, ((p + 1) - 1) * ChunkBytes + 1,
                    ((p + 1) - 1) * ChunkBytes + ChunkSize(p + 1))
        /\ ChunkSize(p + 1) = Min({ChunkBytes, Total - ((p + 1) - 1) * ChunkBytes})
    BY Zenon DEF ChunkOf, ChunkSize
  <2> QED
    BY Zenon, <1>2, <2>1 DEF m
<1>7. Min({ChunkBytes, Total - m}) \in {ChunkBytes, Total - m}
  <2>1. ChunkBytes \in Int /\ Total - m \in Int
    BY <1>1, <1>2
  <2> QED
    BY <2>1, MinOfTwo
<1>8. s.buffer = ChunkOf(whole, p + 1)
  BY <1>5, <1>6
<1>9. ASSUME Len(s.hash) < Total PROVE Len(s.hash) = m + ChunkBytes
  BY <1>1, <1>2, <1>3, <1>6, <1>7, <1>9
<1> QED
  BY <1>2, <1>8, <1>9

\* The chunk that is made durable is the one the session waits for.
LEMMA WriteChunkStep ==
  ASSUME FinishInv, WriteChunk
  PROVE  FinishInv'
<1>1. /\ session # Nothing /\ session \in Session /\ SessionFits(session, header)
      /\ session.request = "Publish"
      /\ chunks \subseteq chunks'
      /\ <<session.verifiedHash, session.publishedChunks + 1, session.buffer>> \in chunks'
      /\ session' = [session EXCEPT !.durable = TRUE]
      /\ UNCHANGED <<job, owned, expected, header>>
  BY DEF WriteChunk, Advancing, FinishInv, SessionSound
<1>2. PICK s : s = session'
  OBVIOUS
<1>3. /\ s \in Session /\ s.request = "Publish" /\ s.durable = TRUE
      /\ s.phase = session.phase /\ s.checkpoint = session.checkpoint
      /\ s.window = session.window /\ s.hash = session.hash
      /\ s.verifiedHash = session.verifiedHash /\ s.buffer = session.buffer
      /\ s.publishedChunks = session.publishedChunks
  BY <1>1, <1>2 DEF Session
<1>4. SessionFits(session, header)'
  <2>1. SessionFits(s, header)'
    <3>1. /\ Resealing(session, Content(header)) /\ session.phase = "AwaitPublication"
          /\ Buffered(session, Content(header)) /\ Publishing(session, Content(header))
      BY <1>1 DEF SessionFits, Verifying, Reading, Resealing, Session
    <3>2. \A c : c \in chunks => c \in chunks'
      BY <1>1
    <3>3. Publishing(s, Content(header))'
      BY <1>1, <1>3, <3>1 DEF Publishing, AtWindow, Resealing
    <3>4. Buffered(s, Content(header))
      BY <1>3, <3>1 DEF Buffered
    <3>5. Resealing(s, Content(header))'
      BY <1>1, <1>3, <3>1, <3>2, <3>3, <3>4 DEF Resealing
    <3> QED
      BY <1>1, <1>3, <3>1, <3>5 DEF SessionFits
  <2> QED
    BY <1>2, <2>1
<1> QED
  BY <1>1, <1>2, <1>3, <1>4, SessionStep

\* An acknowledged chunk is one more of those published; the next one begins
\* where it ends.
LEMMA AdvancePublishedStep ==
  ASSUME FinishInv, AdvancePublished
  PROVE  FinishInv'
<1> DEFINE p == session.publishedChunks
           whole == Content(header)
<1>1. /\ session # Nothing /\ session \in Session /\ SessionFits(session, header)
      /\ session.request = "Publish"
      /\ UNCHANGED <<job, owned, expected, header, chunks>>
  BY DEF AdvancePublished, Advancing, durable, FinishInv, SessionSound
<1>2. PICK phase : phase = IF Len(session.hash) = Total THEN "AwaitCompletion" ELSE "Reseal"
  OBVIOUS
<1>3. PICK request : request = IF Len(session.hash) = Total THEN "Complete" ELSE "Page"
  OBVIOUS
<1>4. PICK s : s = [session EXCEPT !.publishedChunks = @ + 1, !.buffer = <<>>,
                                   !.durable = FALSE, !.phase = phase, !.request = request]
  OBVIOUS
<1>5. session' = Nothing \/ (session' = s /\ session.durable)
  <2>1. CASE SessionCurrent
    BY <1>2, <1>3, <1>4, <2>1 DEF AdvancePublished, Acknowledged
  <2>2. ASSUME ~SessionCurrent PROVE session' = Nothing
    BY Zenon, <2>2 DEF AdvancePublished, Refuse
  <2> QED
    BY <2>1, <2>2
<1>6. /\ Resealing(session, whole) /\ session.phase = "AwaitPublication"
      /\ Buffered(session, whole) /\ Publishing(session, whole)
      /\ session.checkpoint = header /\ header \in Header /\ Covered(header) /\ Counted(header)
      /\ Begins(session.hash, whole)
      /\ p \in Nat /\ session.hash \in Bytes /\ session.verifiedHash = whole
  BY <1>1 DEF SessionFits, Verifying, Reading, Resealing, Session
<1>7. /\ s.publishedChunks = p + 1 /\ s.buffer = <<>> /\ s.durable = FALSE
      /\ s.phase = phase /\ s.request = request /\ s.checkpoint = header
      /\ s.window = session.window /\ s.hash = session.hash /\ s.verifiedHash = whole
      /\ s \in Session
  <2>1. /\ phase \in {"AwaitCompletion", "Reseal"} /\ request \in {"Complete", "Page"}
        /\ <<>> \in Bytes /\ p + 1 \in Nat
    BY <1>2, <1>3, <1>6, FirstWindow
  <2>2. s \in Session
    BY <1>1, <1>4, <2>1 DEF Session
  <2> QED
    BY <1>1, <1>4, <1>6, <2>2 DEF Session
<1>8. CASE session' = s /\ session.durable
  <2>1. whole \in Bytes /\ Len(whole) = Total
    <3>1. whole \in Bytes
      BY <1>1, <1>6, NothingFacts, ContentIsBytes
    <3> QED
      BY <3>1, ContentIsBytes, <1>6
  <2>2. /\ session.buffer = ChunkOf(whole, p + 1)
        /\ Len(session.hash) < Total => Len(session.hash) = (p + 1) * ChunkBytes
    BY <1>1, <1>6, <2>1, BufferIsChunk DEF Begins, Publishing
  <2>3. \A k \in 1..(p + 1) : <<whole, k, ChunkOf(whole, k)>> \in chunks
    <3>1. \A k \in 1..(p + 1) : k \in 1..p \/ k = p + 1
      BY <1>6
    <3> QED
      BY <1>6, <1>8, <2>2, <3>1 DEF Resealing, Publishing
  <2>4. Len(session.hash) \in Nat /\ Len(session.hash) <= Total /\ Total \in Nat
    BY <1>6, FirstWindow DEF Bytes, Begins
  <2>5. ASSUME Len(session.hash) = Total PROVE Resealing(s, whole)
    BY <1>2, <1>3, <1>6, <1>7, <2>3, <2>5 DEF Resealing
  <2>6. ASSUME Len(session.hash) < Total PROVE Resealing(s, whole)
    <3>1. phase = "Reseal" /\ request = "Page"
      BY <1>2, <1>3, <2>4, <2>6
    <3>2. Buffered(s, whole)
      <4>1. (p + 1) * ChunkBytes \in Nat
        BY <2>2, <2>4, <2>6
      <4> QED
        BY <1>7, <2>2, <2>6, <4>1 DEF Buffered
    <3>3. Reading(s)
      BY <1>6, <1>7, <2>6, <3>1 DEF Reading, Publishing, AtWindow
    <3> QED
      BY <1>6, <1>7, <2>3, <3>1, <3>2, <3>3 DEF Resealing
  <2>7. Resealing(s, whole)
    BY <2>4, <2>5, <2>6
  <2>8. SessionFits(s, header)
    BY <1>2, <1>6, <1>7, <2>7 DEF SessionFits
  <2>9. SessionFits(s, header)'
    BY <1>1, <2>8, FitsOn
  <2> QED
    BY <1>1, <1>7, <1>8, <2>9, SessionStep
<1>9. CASE session' = Nothing
  BY <1>1, <1>9, RefusedStep
<1> QED
  BY <1>5, <1>8, <1>9

\* A session that finishes has published every chunk.
LEMMA AdvanceCompleteStep ==
  ASSUME FinishInv, AdvanceComplete
  PROVE  FinishInv'
<1>1. /\ session # Nothing /\ session \in Session /\ SessionFits(session, header)
      /\ session.request = "Complete"
      /\ UNCHANGED <<job, owned, expected, header, chunks>>
  BY DEF AdvanceComplete, Advancing, durable, FinishInv, SessionSound
<1>2. PICK s : s = [session EXCEPT !.phase = "Finished", !.request = "Finished"]
  OBVIOUS
<1>3. \/ session' = Nothing
      \/ session' = s /\ session.publishedChunks = ChunkCount
  BY <1>2 DEF AdvanceComplete, Refuse
<1>4. /\ s \in Session /\ s.request = "Finished" /\ s.phase = "Finished"
      /\ s.checkpoint = session.checkpoint /\ s.hash = session.hash
      /\ s.verifiedHash = session.verifiedHash
      /\ s.publishedChunks = session.publishedChunks
  BY <1>1, <1>2 DEF Session
<1>5. CASE session' = s /\ session.publishedChunks = ChunkCount
  <2>1. Resealing(session, Content(header))
    BY <1>1 DEF SessionFits, Verifying, Reading
  <2>2. Resealing(s, Content(header))
    BY <1>4, <1>5, <2>1 DEF Resealing
  <2>3. SessionFits(s, header)
    BY <1>1, <1>4, <2>2 DEF SessionFits
  <2>4. SessionFits(s, header)'
    BY <1>1, <2>3, FitsOn
  <2> QED
    BY <1>1, <1>4, <1>5, <2>4, SessionStep
<1>6. CASE session' = Nothing
  BY <1>1, <1>6, RefusedStep
<1> QED
  BY <1>3, <1>5, <1>6

\* The completed job owns what was verified, all of whose chunks are published.
LEMMA CommitCompletionStep ==
  ASSUME FinishInv, CommitCompletion
  PROVE  FinishInv'
<1>1. /\ session # Nothing /\ session \in Session /\ SessionFits(session, header)
      /\ session.request = "Finished" /\ session' = Nothing
      /\ UNCHANGED <<expected, header, chunks>>
  BY DEF CommitCompletion, Advancing, FinishInv, SessionSound
<1>2. SessionSound'
  BY <1>1 DEF SessionSound
<1>3. CASE job = "Staged"
  <2>1. job' = "Complete" /\ owned' = session.verifiedHash
    BY <1>3 DEF CommitCompletion
  <2>2. /\ Resealing(session, Content(header)) /\ session.phase = "Finished"
        /\ Covered(header)
    BY <1>1 DEF SessionFits, Verifying, Reading, Resealing, Publishing, Session
  <2>3. DoneSound'
    BY <1>1, <2>1, <2>2 DEF DoneSound, Resealing
  <2>4. owned' \in Bytes \cup {Nothing}
    BY <1>1, <2>1 DEF Session
  <2> QED
    BY <1>1, <1>2, <2>3, <2>4 DEF FinishInv
<1>4. CASE job # "Staged"
  <2>1. UNCHANGED <<job, owned>>
    BY <1>4 DEF CommitCompletion
  <2> QED
    BY <1>1, <2>1, RefusedStep
<1> QED
  BY <1>3, <1>4

\* The invariant of the session and the completed job.
LEMMA FinishInvariance == Spec => []FinishInv
<1>1. ASSUME Init PROVE FinishInv
  BY <1>1 DEF Init, FinishInv, SessionSound, DoneSound
<1>2. ASSUME StagedInv, FinishInv, [Next]_vars PROVE FinishInv'
  <2>1. CASE Next /\ Finalize
    <3>1. CASE Freeze
      BY <1>2, <3>1, ElsewhereStep DEF Freeze, Elsewhere
    <3>2. CASE AdvancePiece
      BY <1>2, <3>2, VerifyPieceStep, ResealPieceStep
    <3> QED
      BY <1>2, <2>1, <3>1, <3>2, BeginFinalizeStep, AdvancePageStep, WriteChunkStep,
         AdvancePublishedStep, AdvanceCompleteStep, CommitCompletionStep DEF Finalize
  <2>2. CASE Next /\ ~Finalize
    BY <1>2, <2>2, WorkElsewhere, ElsewhereStep
  <2>3. CASE UNCHANGED vars
    <3>1. Elsewhere
      BY <2>3 DEF Elsewhere, vars, durable
    <3> QED
      BY <1>2, <3>1, ElsewhereStep
  <2> QED
    BY <1>2, <2>1, <2>2, <2>3
<1> QED
  BY <1>1, <1>2, StagedInvariance, PTL DEF Spec

\* Every variable has its type: no header, update or session is half of one.
THEOREM StagingAlwaysTyped == Spec => []TypeOK
<1>1. ASSUME StagedInv, FinishInv PROVE TypeOK
  BY <1>1 DEF StagedInv, FinishInv, TypeOK
<1> QED
  BY <1>1, StagedInvariance, FinishInvariance, PTL

\* A completed job owns the file that is staged, the bytes the message was
\* captured with when their hash is known, and every chunk of it is on disk.
THEOREM CompletedAlwaysStaged == Spec => []CompletedIsStaged
<1>1. ASSUME FinishInv PROVE CompletedIsStaged
  BY <1>1 DEF FinishInv, DoneSound, CompletedIsStaged, ChunkOf
<1> QED
  BY <1>1, FinishInvariance, PTL
=============================================================================
