---------------------------- MODULE ApiCacheProofs ----------------------------
(***************************************************************************)
(* Theorems about ApiCache for all chains, any number of requests and any  *)
(* number of roll backs.                                                   *)
(*                                                                         *)
(* An answer is explained by two pasts of the tables: what they held when  *)
(* its tag was read and what they held when its data was. A hash names all *)
(* blocks before it, so two pasts with the same tip have the same ledger;  *)
(* and while nothing is rolled back, each past is a beginning of the next. *)
(***************************************************************************)
EXTENDS ApiCache, FiniteSetTheorems, SequenceTheorems, WellFoundedInduction, TLAPS

-----------------------------------------------------------------------------
(* Least and greatest naturals *)

\* A set of naturals has a least element.
LEMMA LeastNatural ==
    ASSUME NEW T, T \subseteq Nat, T # {}
    PROVE  \E n \in T : \A m \in T : n <= m
<1> DEFINE R == {ss \in Nat \X Nat : ss[1] < ss[2]}
<1>1. IsWellFoundedOn(R, Nat)
  <2>1. R = OpToRel(<, Nat)
    BY Zenon DEF OpToRel
  <2> QED
    BY <2>1, NatLessThanWellFounded, Zenon
<1>2. \E n \in T : \A m \in T : ~(<<m, n>> \in R)
  <2> HIDE DEF R
  <2> QED
    BY <1>1, WFMin, Zenon
<1>3. PICK n \in T : \A m \in T : ~(<<m, n>> \in R)
  BY <1>2
<1>4. ASSUME NEW m \in T
      PROVE  n <= m
  <2>1. m \in Nat /\ n \in Nat /\ ~(<<m, n>> \in R)
    BY <1>3
  <2>2. ~(m < n)
    BY <2>1
  <2> QED
    BY <2>1, <2>2
<1> QED
  BY <1>4

\* A bounded set of naturals has a greatest element.
LEMMA GreatestNatural ==
    ASSUME NEW T, T \subseteq Nat, T # {}, NEW b \in Int, \A n \in T : n <= b
    PROVE  \E n \in T : \A m \in T : m <= n
<1> DEFINE below == {b - n : n \in T}
<1>1. below \subseteq Nat /\ below # {}
  <2>1. \A n \in T : b - n \in Nat
    OBVIOUS
  <2>2. below \subseteq Nat
    BY <2>1
  <2>3. below # {}
    BY Zenon
  <2> QED
    BY <2>2, <2>3
<1> HIDE DEF below
<1>2. PICK d \in below : \A e \in below : d <= e
  BY <1>1, LeastNatural
<1> USE DEF below
<1>3. PICK n \in T : d = b - n
  BY <1>2
<1>4. \A m \in T : b - n <= b - m
  BY <1>2, <1>3
<1>5. \A m \in T : m <= n
  BY <1>4
<1> QED
  BY <1>5

\* Max of such a set is what its name says.
LEMMA MaxNatural ==
    ASSUME NEW T, T \subseteq Nat, T # {}, NEW b \in Int, \A n \in T : n <= b
    PROVE  Max(T) \in T /\ \A m \in T : m <= Max(T)
<1>1. \E n \in T : \A m \in T : n >= m
  <2>1. PICK n \in T : \A m \in T : m <= n
    BY GreatestNatural
  <2> QED
    BY <2>1
<1>2. Max(T) \in T /\ \A m \in T : Max(T) >= m
  BY <1>1 DEF Max
<1> QED
  BY <1>2

-----------------------------------------------------------------------------
(* The ledger of any blocks *)

Block == UNION {{c[i] : i \in DOMAIN c} : c \in Chains}

Rows(blocks) == {h \in DOMAIN blocks : blocks[h] \in WithRows}
Table(blocks) == [h \in Rows(blocks) |-> blocks[h]]
Tip(blocks) == IF Rows(blocks) = {} THEN None ELSE blocks[Max(Rows(blocks))]

\* What the tables may hold: the beginning of a chain.
Begins(blocks, chain) ==
    Len(blocks) <= Len(chain) /\ \A h \in 1..Len(blocks) : blocks[h] = chain[h]

Past(blocks) ==
    /\ blocks \in Seq(Block)
    /\ blocks # <<>> => \E chain \in Chains : Begins(blocks, chain)

LEMMA TablesNow ==
    /\ Ledger = Table(indexed)
    /\ getChainTipEtag = Tip(indexed)
BY Zenon DEF Ledger, getChainTipEtag, RowHeights, Table, Tip, Rows

LEMMA HighestRow ==
    ASSUME NEW blocks \in Seq(Block), Rows(blocks) # {}
    PROVE  /\ Max(Rows(blocks)) \in Rows(blocks)
           /\ \A h \in Rows(blocks) : h <= Max(Rows(blocks))
<1>1. /\ Len(blocks) \in Int /\ Rows(blocks) \subseteq Nat
      /\ \A h \in Rows(blocks) : h <= Len(blocks)
  BY DEF Rows
<1> QED
  BY <1>1, MaxNatural

\* Two pasts with the same tip hold the same rows.
LEMMA SameTip ==
    ASSUME NEW c, Past(c), NEW d, Past(d), Tip(c) = Tip(d), Tip(c) # None
    PROVE  Rows(c) = Rows(d) /\ Table(c) = Table(d)
<1> DEFINE i == Max(Rows(c))
           j == Max(Rows(d))
<1>1. c \in Seq(Block) /\ d \in Seq(Block)
  BY DEF Past
<1>2. /\ Rows(c) # {} /\ Rows(c) \subseteq 1..Len(c) /\ Len(c) \in Nat
      /\ Rows(d) \subseteq 1..Len(d) /\ Len(d) \in Nat
  BY <1>1 DEF Tip, Rows
<1>3. i \in Rows(c) /\ \A h \in Rows(c) : h <= i
  BY <1>1, <1>2, HighestRow
<1>4. PICK x \in Chains : Begins(c, x)
  BY <1>2, <1>3 DEF Past, Rows
<1>5. x \in Seq(Block)
  BY ChainsAssumption DEF ChainsAssumption, Block
<1>6. i \in 1..Len(c) /\ i \in DOMAIN x /\ Tip(c) = x[i]
  BY <1>2, <1>3, <1>4, <1>5 DEF Begins, Tip
<1>7. Rows(d) # {}
  BY DEF Tip
<1>8. j \in Rows(d) /\ \A h \in Rows(d) : h <= j
  BY <1>1, <1>7, HighestRow
<1>9. PICK y \in Chains : Begins(d, y)
  BY <1>2, <1>8 DEF Past, Rows
<1>10. y \in Seq(Block)
  BY ChainsAssumption DEF ChainsAssumption, Block
<1>11. j \in 1..Len(d) /\ j \in DOMAIN y /\ Tip(d) = y[j]
  BY <1>2, <1>7, <1>8, <1>9, <1>10 DEF Begins, Tip
<1> HIDE DEF i, j
<1>12. SubSeq(x, 1, i) = SubSeq(y, 1, j)
  <2>1. x[i] = y[j] /\ i \in DOMAIN x /\ j \in DOMAIN y /\ x \in Chains /\ y \in Chains
    BY <1>4, <1>6, <1>9, <1>11
  <2> QED
    BY <2>1, HashAssumption, Zenon DEF HashAssumption
<1>13. i = j /\ \A h \in 1..i : x[h] = y[h]
  <2>1. /\ i \in Nat /\ j \in Nat
        /\ Len(SubSeq(x, 1, i)) = i /\ Len(SubSeq(y, 1, j)) = j
        /\ \A h \in 1..i : SubSeq(x, 1, i)[h] = x[h]
        /\ \A h \in 1..j : SubSeq(y, 1, j)[h] = y[h]
    BY <1>5, <1>6, <1>10, <1>11
  <2>2. i = j
    BY <1>12, <2>1
  <2>3. ASSUME NEW h \in 1..i
        PROVE  x[h] = y[h]
    BY <1>12, <2>1, <2>2
  <2> QED
    BY <2>2, <2>3
<1>14. \A h \in 1..i : c[h] = x[h] /\ d[h] = y[h] /\ h \in DOMAIN c /\ h \in DOMAIN d
  BY <1>1, <1>2, <1>4, <1>6, <1>9, <1>11, <1>13 DEF Begins
<1>15. /\ \A h \in Rows(c) : h \in 1..i
       /\ \A h \in Rows(d) : h \in 1..i
  BY <1>2, <1>3, <1>8, <1>13
<1>16. Rows(c) = Rows(d)
  BY <1>13, <1>14, <1>15 DEF Rows
<1>17. \A h \in Rows(c) : c[h] = d[h]
  BY <1>13, <1>14, <1>15
<1> QED
  BY <1>16, <1>17 DEF Table

\* Between two pasts with the same tip, nothing was added to the ledger.
LEMMA NothingBetween ==
    ASSUME NEW c, Past(c), NEW d, Past(d), NEW e, Past(e), Begins(c, d), Begins(d, e),
           Tip(c) = Tip(e), Tip(c) # None
    PROVE  Table(c) = Table(d)
<1>1. Rows(c) = Rows(e)
  BY SameTip
<1>2. c \in Seq(Block) /\ d \in Seq(Block) /\ e \in Seq(Block)
  BY DEF Past
<1>3. Rows(c) \subseteq Rows(d) /\ Rows(d) \subseteq Rows(e)
  BY <1>2 DEF Begins, Rows
<1>4. Rows(c) = Rows(d) /\ \A h \in Rows(c) : c[h] = d[h]
  BY <1>1, <1>2, <1>3 DEF Begins, Rows
<1> QED
  BY <1>4 DEF Table

-----------------------------------------------------------------------------
(* What the steps of the indexer do to pasts *)

LEMMA IndexingExtends ==
    ASSUME NEW c, Past(c), NEW d, NEW chain \in Chains,
           Len(c) < Len(chain), IsPrefix(c, chain), d = Append(c, chain[Len(c) + 1])
    PROVE  Past(d) /\ Begins(c, d)
<1>1. c \in Seq(Block) /\ chain \in Seq(Block)
  BY ChainsAssumption DEF ChainsAssumption, Block, Past
<1>2. /\ Len(c) \in Nat /\ Len(chain) \in Nat /\ Len(c) + 1 \in 1..Len(chain)
      /\ chain[Len(c) + 1] \in Block
  BY <1>1
<1>3. /\ d \in Seq(Block) /\ Len(d) = Len(c) + 1 /\ d[Len(c) + 1] = chain[Len(c) + 1]
      /\ \A h \in 1..Len(c) : d[h] = c[h]
  BY <1>1, <1>2
<1>4. \A h \in 1..Len(c) : c[h] = chain[h]
  <2>1. SubSeq(c, 1, Len(c)) = SubSeq(chain, 1, Len(c))
    BY DEF IsPrefix
  <2>2. ASSUME NEW h \in 1..Len(c)
        PROVE  SubSeq(c, 1, Len(c))[h] = c[h] /\ SubSeq(chain, 1, Len(c))[h] = chain[h]
    BY <1>1, <1>2
  <2> QED
    BY <2>1, <2>2
<1>5. Begins(d, chain)
  BY <1>2, <1>3, <1>4 DEF Begins
<1>6. Begins(c, d)
  BY <1>2, <1>3 DEF Begins
<1> QED
  BY <1>3, <1>5, <1>6 DEF Past

LEMMA RollingBackShortens ==
    ASSUME NEW c, Past(c), c # <<>>, NEW d, d = Front(c)
    PROVE  Past(d)
<1>1. c \in Seq(Block) /\ Len(c) \in Nat /\ Len(c) > 0
  BY DEF Past
<1> DEFINE n == Len(c) - 1
<1>2. d = SubSeq(c, 1, n)
  BY Zenon DEF Front
<1>3. n \in Nat /\ n < Len(c) /\ \A h \in 1..n : c[h] \in Block
  BY <1>1
<1> HIDE DEF n
<1>4. n \in Int /\ (IF 1 <= n THEN n - 1 + 1 ELSE 0) = n /\ n - 1 + 1 = n
  BY <1>3
<1>5. /\ d \in Seq(Block) /\ Len(d) = n
      /\ \A h \in 1..n : d[h] = c[1 + h - 1]
  BY <1>2, <1>3, <1>4, SubSeqProperties
<1>6. /\ d \in Seq(Block) /\ Len(d) = n
      /\ \A h \in 1..n : d[h] = c[h]
  BY <1>3, <1>5
<1>7. PICK chain \in Chains : Begins(c, chain)
  BY DEF Past
<1>8. Begins(d, chain)
  BY <1>1, <1>3, <1>6, <1>7 DEF Begins
<1> QED
  BY <1>6, <1>8 DEF Past

LEMMA BeginsAgain ==
    ASSUME NEW c, Past(c), NEW d, Past(d), NEW e, Past(e), Begins(c, d), Begins(d, e)
    PROVE  Begins(c, e)
<1>1. c \in Seq(Block) /\ d \in Seq(Block) /\ e \in Seq(Block)
  BY DEF Past
<1> QED
  BY <1>1 DEF Begins

LEMMA BeginsItself ==
    ASSUME NEW c, Past(c)
    PROVE  Begins(c, c)
BY DEF Past, Begins

-----------------------------------------------------------------------------
(* The invariant *)

Routed(r) == r.state = "routed"

\* A routed request names the tip of a past, and remembers its ledger.
TagExplained(r, now, back) ==
    Routed(r) =>
        \E c : /\ Past(c) /\ Table(c) = r.ledger /\ Tip(c) = r.etag
               /\ ~back => Begins(c, now)

\* A kept answer names the tip of one past and holds the ledger of a later one.
AnswerExplained(kept, by, now, back) ==
    \E c, d : /\ Past(c) /\ Past(d) /\ Tip(c) = kept.tag /\ kept.tag # None
              /\ by = "activity" => kept.data = Table(d)
              /\ Table(c) # Table(d) => kept.raced
              /\ ~back => Begins(c, d) /\ Begins(d, now)

\* A new request names the tag of what the client keeps.
RequestAfter(kept) ==
    [ifNoneMatch |-> IF kept = None THEN {} ELSE {kept.tag},
     etag |-> None, state |-> "asked", ledger |-> None]

ApiInv ==
    /\ Past(indexed)
    /\ request # Idle => answer = None
    /\ Asked => request = RequestAfter(cached)
    /\ TagExplained(request, indexed, undone)
    /\ cached # None /\ ~Routed(request) => AnswerExplained(cached, route, indexed, undone)
    /\ NotModifiedTrue

LEMMA IdleState == Idle.state # "asked" /\ Idle.state # "routed"
BY DEF Idle

LEMMA ApiStarts == Init => ApiInv
<1> SUFFICES ASSUME Init
             PROVE  ApiInv
  OBVIOUS
<1>1. Past(indexed)
  BY EmptySeq DEF Init, Past
<1>2. request = Idle /\ cached = None /\ answer = None
  BY DEF Init
<1> QED
  BY <1>1, <1>2, IdleState, Zenon
     DEF ApiInv, Asked, TagExplained, Routed, NotModifiedTrue, NotModified

\* A step that only extends the tables.
LEMMA IndexBlockKeeps == ApiInv /\ IndexBlock => ApiInv'
<1> SUFFICES ASSUME ApiInv, IndexBlock
             PROVE  ApiInv'
  OBVIOUS
<1>1. PICK chain \in Chains :
          /\ Len(indexed) < Len(chain)
          /\ IsPrefix(indexed, chain)
          /\ indexed' = Append(indexed, chain[Len(indexed) + 1])
  BY Zenon DEF IndexBlock
<1>2. UNCHANGED <<rollBacks, route, cached, asks, request, answer, undone>>
  BY Zenon DEF IndexBlock
<1>3. Past(indexed)
  BY Zenon DEF ApiInv
<1>4. Past(indexed') /\ Begins(indexed, indexed')
  BY <1>1, <1>3, IndexingExtends
<1>5. TagExplained(request, indexed, undone)' 
  <2>1. CASE Routed(request)
    <3>1. PICK c : /\ Past(c) /\ Table(c) = request.ledger /\ Tip(c) = request.etag
                   /\ ~undone => Begins(c, indexed)
      BY <2>1, Zenon DEF ApiInv, TagExplained
    <3>2. ~undone => Begins(c, indexed')
      BY <1>3, <1>4, <3>1, BeginsAgain
    <3> QED
      BY <1>2, <3>1, <3>2, Zenon DEF TagExplained
  <2>2. CASE ~Routed(request)
    BY <1>2, <2>2, Zenon DEF TagExplained, Routed
  <2> QED
    BY <2>1, <2>2
<1>6. ASSUME cached # None, ~Routed(request)
      PROVE  AnswerExplained(cached, route, indexed, undone)'
  <2>1. PICK c, d : /\ Past(c) /\ Past(d) /\ Tip(c) = cached.tag /\ cached.tag # None
                    /\ route = "activity" => cached.data = Table(d)
                    /\ Table(c) # Table(d) => cached.raced
                    /\ ~undone => Begins(c, d) /\ Begins(d, indexed)
    BY <1>6, Zenon DEF ApiInv, AnswerExplained
  <2>2. ~undone => Begins(d, indexed')
    BY <1>3, <1>4, <2>1, BeginsAgain
  <2> QED
    BY <1>2, <2>1, <2>2, Zenon DEF AnswerExplained
<1> QED
  BY <1>2, <1>4, <1>5, <1>6, Zenon
     DEF ApiInv, Asked, Routed, NotModifiedTrue, NotModified

LEMMA RollBackBlockKeeps == ApiInv /\ RollBackBlock => ApiInv'
<1> SUFFICES ASSUME ApiInv, RollBackBlock
             PROVE  ApiInv'
  OBVIOUS
<1>1. indexed # <<>> /\ indexed' = Front(indexed) /\ undone'
  BY Zenon DEF RollBackBlock
<1>2. UNCHANGED <<scanned, route, cached, asks, request, answer>>
  BY Zenon DEF RollBackBlock
<1>3. Past(indexed')
  BY <1>1, RollingBackShortens DEF ApiInv
<1>4. TagExplained(request, indexed, undone)'
  BY <1>1, <1>2, Zenon DEF ApiInv, TagExplained, Routed
<1>5. ASSUME cached # None, ~Routed(request)
      PROVE  AnswerExplained(cached, route, indexed, undone)'
  BY <1>1, <1>2, <1>5, Zenon DEF ApiInv, AnswerExplained
<1>6. NotModifiedTrue'
  BY <1>1, <1>2, Zenon DEF ApiInv, NotModifiedTrue, NotModified
<1> QED
  BY <1>2, <1>3, <1>4, <1>5, <1>6, Zenon DEF ApiInv, Asked, Routed

LEMMA AskKeeps == ApiInv /\ Ask => ApiInv'
<1> SUFFICES ASSUME ApiInv, Ask
             PROVE  ApiInv'
  OBVIOUS
<1> DEFINE r == RequestAfter(cached)
<1>1. request = Idle /\ request' = r /\ answer' = None
  BY Zenon DEF Ask, RequestAfter
<1>2. UNCHANGED <<indexed, scanned, rollBacks, route, cached, undone>>
  BY Zenon DEF Ask
<1>3. r.state = "asked"
  BY DEF RequestAfter
<1> HIDE DEF r
<1>4. ~Routed(request) /\ ~Routed(r)
  <2>1. "asked" # "routed"
    OBVIOUS
  <2> QED
    BY <1>1, <1>3, <2>1, IdleState, Zenon DEF Routed
<1>5. TagExplained(request, indexed, undone)'
  BY <1>1, <1>4, Zenon DEF TagExplained, Routed
<1>6. cached # None => AnswerExplained(cached, route, indexed, undone)'
  BY <1>2, <1>4, Zenon DEF ApiInv
<1>7. NotModifiedTrue'
  BY <1>1, Zenon DEF NotModifiedTrue, NotModified
<1>8. request' = RequestAfter(cached')
  BY <1>1, <1>2, Zenon DEF r
<1> QED
  BY <1>1, <1>2, <1>5, <1>6, <1>7, <1>8, Zenon DEF ApiInv

\* The tip still has the tag of the answer that is kept: its data is the ledger.
LEMMA AnswerNotModifiedKeeps == ApiInv /\ AnswerNotModified => ApiInv'
<1> SUFFICES ASSUME ApiInv, AnswerNotModified
             PROVE  ApiInv'
  OBVIOUS
<1>1. /\ Asked /\ getChainTipEtag \in request.ifNoneMatch
      /\ request' = Idle
      /\ answer' = [status |-> 304, data |-> Read]
  BY Zenon DEF AnswerNotModified
<1>2. UNCHANGED <<indexed, scanned, rollBacks, route, cached, asks, undone>>
  BY Zenon DEF AnswerNotModified
<1>3. cached # None /\ Tip(indexed) = cached.tag
  <2>1. request.ifNoneMatch = IF cached = None THEN {} ELSE {cached.tag}
    <3>1. request = RequestAfter(cached)
      BY <1>1, Zenon DEF ApiInv
    <3> QED
      BY <3>1 DEF RequestAfter
  <2>2. cached # None
    BY <1>1, <2>1, Zenon
  <2> QED
    BY <1>1, <2>1, <2>2, TablesNow, Zenon
<1>4. ~Routed(request)
  BY <1>1 DEF Asked, Routed
<1>5. AnswerExplained(cached, route, indexed, undone)
  BY <1>3, <1>4, Zenon DEF ApiInv
<1>6. PICK c, d : /\ Past(c) /\ Past(d) /\ Tip(c) = cached.tag /\ cached.tag # None
                  /\ route = "activity" => cached.data = Table(d)
                  /\ Table(c) # Table(d) => cached.raced
                  /\ ~undone => Begins(c, d) /\ Begins(d, indexed)
  BY <1>5, Zenon DEF AnswerExplained
<1>7. Past(indexed)
  BY Zenon DEF ApiInv
<1>8. Table(c) = Table(indexed)
  BY <1>3, <1>6, <1>7, SameTip
<1>9. ~undone => Table(d) = Table(c)
  BY <1>3, <1>6, <1>7, NothingBetween
<1>10. route = "activity" => cached.data = Table(indexed) \/ (cached.raced /\ undone)
  BY <1>6, <1>8, <1>9, Zenon
<1>11. route = "activity" => Read = Table(indexed)
  BY TablesNow DEF Read
<1>12. answer'.data = Read
  BY <1>1
<1>13. NotModifiedTrue'
  BY <1>2, <1>10, <1>11, <1>12, Zenon DEF NotModifiedTrue
<1> QED
  BY <1>1, <1>2, <1>5, <1>7, <1>13, IdleState, Zenon DEF ApiInv, Asked, TagExplained, Routed

\* The tag that goes along is the tip of what the tables hold.
LEMMA SetEtagKeeps == ApiInv /\ SetEtag => ApiInv'
<1> SUFFICES ASSUME ApiInv, SetEtag
             PROVE  ApiInv'
  OBVIOUS
<1> DEFINE r == [request EXCEPT !.etag = getChainTipEtag, !.state = "routed",
                                !.ledger = Ledger]
<1>1. Asked /\ request' = r /\ undone' = FALSE
  BY Zenon DEF SetEtag
<1>2. UNCHANGED <<indexed, scanned, rollBacks, route, cached, asks, answer>>
  BY Zenon DEF SetEtag
<1>3. Past(indexed) /\ Begins(indexed, indexed)
  BY BeginsItself, Zenon DEF ApiInv
<1>4. r.etag = Tip(indexed) /\ r.state = "routed" /\ r.ledger = Table(indexed)
  <2>1. request = RequestAfter(cached)
    BY <1>1, Zenon DEF ApiInv
  <2>2. r.etag = getChainTipEtag /\ r.state = "routed" /\ r.ledger = Ledger
    BY <2>1 DEF RequestAfter
  <2> QED
    BY <2>2, TablesNow, Zenon
<1>5. request # Idle /\ answer = None
  BY <1>1, IdleState, Zenon DEF ApiInv, Asked
<1> HIDE DEF r
<1>6. TagExplained(request, indexed, undone)'
  <2>1. /\ Past(indexed) /\ Table(indexed) = r.ledger /\ Tip(indexed) = r.etag
        /\ Begins(indexed, indexed')
    BY <1>2, <1>3, <1>4, Zenon
  <2> QED
    BY <1>1, <2>1, Zenon DEF TagExplained
<1>7. NotModifiedTrue' /\ answer' = None
  BY <1>2, <1>5, Zenon DEF NotModifiedTrue, NotModified
<1>8. ~Asked'
  BY <1>1, <1>4 DEF Asked
<1>9. Routed(request)'
  BY <1>1, <1>4, Zenon DEF Routed
<1>10. ASSUME cached' # None, ~Routed(request)'
       PROVE  AnswerExplained(cached, route, indexed, undone)'
  BY <1>9, <1>10
<1> QED
  BY <1>2, <1>3, <1>6, <1>7, <1>8, <1>10, Zenon DEF ApiInv

\* The data are the ledger of the moment they are read.
LEMMA RouteKeeps == ApiInv /\ Route => ApiInv'
<1> SUFFICES ASSUME ApiInv, Route
             PROVE  ApiInv'
  OBVIOUS
<1> DEFINE kept == [tag |-> request.etag, data |-> Read, raced |-> request.ledger # Ledger]
<1>1. /\ Routed(request)
      /\ cached' = IF request.etag = None THEN None ELSE kept
      /\ answer' = [status |-> 200, data |-> Read]
      /\ request' = Idle
  BY Zenon DEF Route, Routed
<1>2. UNCHANGED <<indexed, scanned, rollBacks, route, asks, undone>>
  BY Zenon DEF Route
<1>3. Past(indexed) /\ Begins(indexed, indexed)
  BY BeginsItself, Zenon DEF ApiInv
<1>4. PICK c : /\ Past(c) /\ Table(c) = request.ledger /\ Tip(c) = request.etag
               /\ ~undone => Begins(c, indexed)
  BY <1>1, Zenon DEF ApiInv, TagExplained
<1>5. kept.tag = request.etag /\ kept.data = Read
  BY Zenon
<1>6. Table(c) # Table(indexed) => kept.raced
  BY <1>4, TablesNow, Zenon
<1>7. route = "activity" => Read = Table(indexed)
  BY TablesNow DEF Read
<1> HIDE DEF kept
<1>8. ASSUME cached' # None
      PROVE  AnswerExplained(cached, route, indexed, undone)'
  <2>1. cached' = kept /\ request.etag # None
    BY <1>1, <1>8, Zenon
  <2>2. /\ Past(c) /\ Past(indexed) /\ Tip(c) = kept.tag /\ kept.tag # None
        /\ route = "activity" => kept.data = Table(indexed)
        /\ Table(c) # Table(indexed) => kept.raced
        /\ ~undone => Begins(c, indexed) /\ Begins(indexed, indexed)
    BY <1>3, <1>4, <1>5, <1>6, <1>7, <2>1, Zenon
  <2>3. AnswerExplained(kept, route, indexed, undone)
    BY <2>2, Zenon DEF AnswerExplained
  <2> QED
    BY <1>2, <2>1, <2>3, Zenon DEF AnswerExplained
<1>9. NotModifiedTrue'
  <2>1. answer'.status = 200
    BY <1>1
  <2>2. ~NotModified'
    BY <2>1 DEF NotModified
  <2> QED
    BY <2>2, Zenon DEF NotModifiedTrue
<1> QED
  BY <1>1, <1>2, <1>3, <1>8, <1>9, IdleState, Zenon DEF ApiInv, Asked, TagExplained, Routed

LEMMA ApiInvNext == ApiInv /\ [Next]_vars => ApiInv'
<1> SUFFICES ASSUME ApiInv, [Next]_vars
             PROVE  ApiInv'
  OBVIOUS
<1>1. CASE UNCHANGED vars
  <2>1. UNCHANGED <<indexed, route, cached, request, answer, undone>>
    BY <1>1, Zenon DEF vars
  <2>2. TagExplained(request, indexed, undone)' = TagExplained(request, indexed, undone)
    BY <2>1, Zenon DEF TagExplained, Routed
  <2>3. AnswerExplained(cached, route, indexed, undone)'
            = AnswerExplained(cached, route, indexed, undone)
    BY <2>1, Zenon DEF AnswerExplained
  <2> QED
    BY <2>1, <2>2, <2>3, Zenon DEF ApiInv, Asked, Routed, NotModifiedTrue, NotModified
<1>2. CASE Next
  BY <1>2, IndexBlockKeeps, RollBackBlockKeeps, AskKeeps, AnswerNotModifiedKeeps,
     SetEtagKeeps, RouteKeeps, Zenon DEF Next
<1> QED
  BY <1>1, <1>2

\* A client that is told "not modified" keeps what the ledger holds now, unless a block
\* came between the tag and the data of its answer and another was rolled back since
\* (handleCache in api/src/api/util/cache.ts).
THEOREM NotModifiedIsTrue == Spec => []NotModifiedTrue
<1>1. ApiInv => NotModifiedTrue
  BY Zenon DEF ApiInv
<1> QED
  BY <1>1, ApiStarts, ApiInvNext, PTL DEF Spec
=============================================================================
