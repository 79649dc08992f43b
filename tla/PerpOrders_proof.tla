--------------------------- MODULE PerpOrders_proof ---------------------------
(***************************************************************************)
(* Theorems about PerpOrders: any users and orders of any sizes, any number *)
(* of faults and cancellations.  Those about the other side of the book and *)
(* about its check, BBook and HedgeChecks, are at the end: any calls, lots, *)
(* caps and offsets.                                                        *)
(***************************************************************************)
EXTENDS PerpOrders, Ledger_proof

-----------------------------------------------------------------------------
(* The inductive invariant: types *)

Kinds      == {"OPEN", "CLOSE", "TRIGGER", "LIQUIDATION", "NONE"}
OrderRow   == [status : Statuses, born : Nat, filled : Nat, owner : Users, kind : Kinds,
               side : {1, -1}, size : Nat \ {0}]
ProviderRow == [status : {"NONE", "PENDING", "FILLED", "CANCELLED", "FAILED"}, id : BOOLEAN, rejected : BOOLEAN]
AtExchange == [status : {"NONE", "open", "filled", "canceled", "rejected"}, sent : Nat, got : Nat]
Placement  == [pc : {"free", "see", "cover", "row", "send", "sync"}, order : Orders \cup {None}, seen : Int, left : Nat]
Visit      == [pc : {"idle", "ask-snap", "ask-fills", "apply", "release", "write", "error", "cancel", "cancelled"},
               order : Orders \cup {None}, base : Nat, id : BOOLEAN,
               snap : {"NONE", "UNKNOWN", "OPEN", "FILLED", "CANCELLED", "REJECTED", "TERMINAL"}, n : Nat,
               why : {"NONE", "other", "order size", "reduce-only"}]

FillsOf(o) == {g \in DOMAIN applied : g[1] = o}

Typed ==
  /\ order \in [Orders -> OrderRow]
  /\ provider \in [Orders -> ProviderRow]
  /\ exchange \in [Orders -> AtExchange]
  /\ DOMAIN applied \subseteq Orders \X Nat /\ IsFiniteSet(DOMAIN applied)
  /\ \A f \in DOMAIN applied : applied[f] \in Nat \ {0}
  /\ position \in [Users -> Int]
  /\ ledger.held \in [Users -> Int] /\ ledger = [posted |-> ledger.posted, held |-> ledger.held]
  /\ queue \subseteq Orders
  /\ place \in Placement /\ (place.pc # "free" => place.order \in Orders)
  /\ rec \in [Recs -> Visit] /\ (\A r \in Recs : rec[r].pc # "idle" => rec[r].order \in Orders)
  /\ over \in [released : SUBSET Orders, missed : SUBSET Orders]

-----------------------------------------------------------------------------
(* The books *)

\* filledSize is the sum of the fills, and no fill beyond the size.
SizesOk ==
  \A o \in Orders :
    /\ order[o].filled <= order[o].size
    /\ order[o].filled = SumOver([f \in FillsOf(o) |-> applied[f]])

\* The postings of a fill are made when it is stored.
KeysOk ==
  \A o \in Orders, k \in Nat :
    <<o, k>> \notin DOMAIN applied => {<<"close", <<o, k>>>>, <<"netted", <<o, k>>>>} \cap ledger.posted = {}

\* The exchange: nothing has filled of what was not sent.
SentOk(o) ==
  /\ provider[o].status = "NONE" => exchange[o].status = "NONE"
  /\ exchange[o].status \in {"NONE", "rejected"} => exchange[o].got = 0
  /\ exchange[o].got <= exchange[o].sent
ExchangeOk == \A o \in Orders : SentOk(o)

\* An order that ended holds no reserve: it was released, or nothing was left of it.
Settled(o) ==
  \/ {<<"release", o>>, <<"fail", o>>} \cap ledger.posted # {}
  \/ order[o].filled = order[o].size

Waiting(o) == o \in queue /\ (place.pc = "free" \/ place.order # o)
Ended == {"filled", "canceled", "rejected"}
AllPosted(o) == exchange[o].status \in Ended /\ exchange[o].got <= order[o].filled

\* An order nobody has asked for.
NewOk(o) ==
  order[o].status = "NEW" => provider[o].status = "NONE" /\ order[o].filled = 0 /\ o \notin queue

\* An opening order.
OpeningOk(o) ==
  /\ order[o].status \in Live \cup {"NEW", "FILLED", "CANCELLED", "FAILED"}
  /\ order[o].status \in {"FILLED", "CANCELLED", "FAILED"} => Settled(o)
  /\ \A k \in Nat : <<o, k>> \in DOMAIN applied <=> k \in 1 .. order[o].filled
  /\ exchange[o].sent <= order[o].size
  /\ provider[o].status = "NONE" =>
       /\ order[o].status \in {"NEW", "ROUTED", "FAILED"} /\ order[o].filled = 0
       /\ <<"release", o>> \notin ledger.posted
  /\ <<"fail", o>> \in ledger.posted => provider[o].status = "NONE" /\ order[o].status = "FAILED"
  /\ order[o].status = "NEW" => <<"reserve", o>> \notin ledger.posted
  /\ Waiting(o) => order[o].status = "ROUTED" /\ provider[o].status = "NONE"
  /\ provider[o].rejected => exchange[o].status = "rejected"
  /\ provider[o].status \in {"FILLED", "CANCELLED", "FAILED"} =>
       o \in over.missed \/ order[o].filled = order[o].size \/ AllPosted(o)

\* The call that holds the lock.
PlaceOk ==
  place.pc # "free" =>
    LET o == place.order
    IN  /\ o \in queue
        /\ place.pc = "send" => provider[o].status # "NONE" /\ exchange[o].status = "NONE"
        /\ place.pc \in {"see", "cover"} => ReduceOnly(o)
        /\ place.pc = "sync" => provider[o].status # "NONE"
        /\ place.pc \in {"row", "send"} /\ Kind(o) = "OPEN" => place.left = order[o].size
        /\ place.pc = "row" /\ Kind(o) = "OPEN" => provider[o].status = "NONE" /\ order[o].status = "ROUTED"

\* What a reconciliation has read.
VisitOk(r) ==
  LET o == rec[r].order
  IN  rec[r].pc # "idle" =>
        /\ rec[r].base <= order[o].filled /\ rec[r].n <= exchange[o].got
        /\ order[o].status # "NEW"
        /\ provider[o].status = "NONE" => rec[r].pc = "cancel" /\ ~rec[r].id
        /\ rec[r].snap = "FILLED" => exchange[o].status = "filled"
        /\ rec[r].snap = "CANCELLED" => exchange[o].status = "canceled"
        /\ rec[r].snap = "REJECTED" => exchange[o].status = "rejected"
        /\ rec[r].pc = "release" => rec[r].snap = "TERMINAL"
        /\ rec[r].pc \in {"ask-snap", "cancel", "cancelled"} => rec[r].snap = "NONE"
        /\ rec[r].pc \in {"ask-fills", "apply"} => rec[r].snap \notin {"NONE", "TERMINAL"}
        /\ rec[r].pc = "write" => rec[r].snap \in {"FILLED", "CANCELLED", "REJECTED", "TERMINAL"}
        /\ Kind(o) = "OPEN" =>
             /\ rec[r].snap = "TERMINAL" => exchange[o].status = "rejected"
             /\ rec[r].pc # "cancel" \/ rec[r].id
             /\ rec[r].why \in {"NONE", "other"}
             /\ rec[r].pc = "write" => Settled(o) /\ (o \in over.missed \/ AllPosted(o))

Books == Typed /\ SizesOk /\ KeysOk /\ ExchangeOk
States ==
  /\ \A o \in Orders : NewOk(o) /\ (Kind(o) = "OPEN" => OpeningOk(o))
  /\ PlaceOk
  /\ \A r \in Recs : VisitOk(r)
IInv  == Books /\ States /\ MarginIsAccounted

-----------------------------------------------------------------------------
(* Sums *)

\* One more value.
LEMMA SumInsert ==
  ASSUME NEW f, Summable(f), NEW g, Summable(g), NEW x \in DOMAIN g, x \notin DOMAIN f,
         DOMAIN g = DOMAIN f \cup {x}, \A y \in DOMAIN f : g[y] = f[y]
  PROVE  SumOver(g) = SumOver(f) + g[x]
<1> DEFINE S == DOMAIN f
           T == DOMAIN g
<1>1. Part(g, T) = g[x] + Part(g, T \ {x})
  BY PartRemove DEF Summable
<1>2. T \ {x} = S
  OBVIOUS
<1>3. Part(g, S) = Part(f, S)
  BY PartSame DEF Summable
<1>4. SumOver(f) = Part(f, S) /\ SumOver(g) = Part(g, T)
  BY SumOverPart
<1>5. g[x] \in Int /\ SumOver(f) \in Int
  BY SumType DEF Summable
<1> HIDE DEF S, T
<1>6. Part(g, T \ {x}) = SumOver(f)
  BY <1>2, <1>3, <1>4
<1> QED
  BY <1>1, <1>4, <1>5, <1>6

\* As many ones as there are members.
LEMMA SumOfOnes ==
  ASSUME NEW f, IsFiniteSet(DOMAIN f), \A x \in DOMAIN f : f[x] = 1
  PROVE  SumOver(f) = Cardinality(DOMAIN f)
<1> DEFINE Bad == {s \in SUBSET DOMAIN f : Part(f, s) # Cardinality(s)}
<1> SUFFICES ASSUME Bad # {}
             PROVE  FALSE
  BY SumOverPart
<1>1. \A s \in Bad : IsFiniteSet(s)
  BY FS_Subset
<1>2. PICK s \in Bad : \A t \in Bad : t \subseteq s => t = s
  <2> HIDE DEF Bad
  <2> QED
    BY <1>1, LeastSet
<1>3. s \in SUBSET DOMAIN f /\ IsFiniteSet(s) /\ Part(f, s) # Cardinality(s)
  BY <1>1, <1>2
<1>4. CASE s = {}
  BY <1>3, <1>4, PartEmpty, FS_EmptySet
<1>5. CASE s # {}
  <2>1. PICK x : x \in s
    BY <1>5
  <2>2. PICK r : r = s \ {x}
    OBVIOUS
  <2>3. r \in SUBSET DOMAIN f /\ r \subseteq s /\ r # s
    BY <1>3, <2>1, <2>2
  <2>4. Part(f, r) = Cardinality(r)
    BY <1>2, <2>3
  <2>5. Part(f, s) = f[x] + Part(f, r)
    BY <1>3, <2>1, <2>2, PartRemove
  <2>6. f[x] = 1
    BY <1>3, <2>1
  <2>7. Cardinality(r) = Cardinality(s) - 1 /\ Cardinality(s) \in Nat
    BY <1>3, <2>1, <2>2, FS_RemoveElement, FS_CardinalityType
  <2> QED
    BY <1>3, <2>4, <2>5, <2>6, <2>7
<1> QED
  BY <1>4, <1>5

-----------------------------------------------------------------------------
(* The initial states *)

LEMMA InitBooks ==
  ASSUME Init
  PROVE  Books /\ States /\ MarginIsAccounted
<1>1. PICK mix \in Mixes :
        LET held == {o \in Orders : mix.asked[o].filled}
            Size(o) == mix.asked[o].size
            Held(u) == SumOver([o \in {x \in held : mix.asked[x].owner = u} |-> mix.asked[o].side * Size(o)])
        IN  /\ order = [o \in Orders |-> [status |-> IF o \in held THEN "FILLED" ELSE "NEW", born |-> 0,
                                      filled |-> IF o \in held THEN Size(o) ELSE 0,
                                      owner |-> mix.asked[o].owner, kind |-> mix.asked[o].kind,
                                      side |-> mix.asked[o].side, size |-> Size(o)]]
            /\ provider = [o \in Orders |-> [status |-> IF o \in held THEN "FILLED" ELSE "NONE", id |-> o \in held,
                                         rejected |-> FALSE]]
            /\ exchange = [o \in Orders |-> IF o \in held THEN [status |-> "filled", sent |-> Size(o), got |-> Size(o)]
                                        ELSE [status |-> "NONE", sent |-> 0, got |-> 0]]
            /\ applied = [x \in UNION {{<<o, k>> : k \in 1 .. Size(o)} : o \in held} |-> 1]
            /\ position = [u \in Users |-> Held(u)]
            /\ ledger = [posted |-> {<<"reserve", o>> : o \in held}, held |-> [u \in Users |-> Abs(Held(u))]]
            /\ event = [o \in Orders |-> "NONE"]
            /\ queue = {} /\ place = Free /\ rec = [r \in Recs |-> Idle] /\ over = [released |-> {}, missed |-> {}]
            /\ budget = [faults |-> mix.faults, cancels |-> mix.cancels]
  BY Zenon DEF Init
<1> DEFINE held == {o \in Orders : mix.asked[o].filled}
           Size(o) == mix.asked[o].size
           Held(u) == SumOver([o \in {x \in held : mix.asked[x].owner = u} |-> mix.asked[o].side * Size(o)])
           Units == UNION {{<<o, k>> : k \in 1 .. Size(o)} : o \in held}
           Unit(o) == {<<o, k>> : k \in 1 .. Size(o)}
<1>a. /\ IsFiniteSet(Users) /\ IsFiniteSet(Orders)
      /\ mix.asked \in [Orders -> [owner : Users, side : {1, -1}, size : Nat \ {0}, filled : BOOLEAN, kind : Kinds]]
      /\ \A o \in Orders : mix.asked[o].filled => mix.asked[o].kind = "OPEN"
  BY <1>1, Attributes DEF Kinds
<1>2. \A o \in Orders : /\ mix.asked[o].owner \in Users /\ mix.asked[o].side \in {1, -1}
                        /\ Size(o) \in Nat \ {0} /\ mix.asked[o].kind \in Kinds
                        /\ mix.asked[o].filled \in BOOLEAN
                        /\ (o \in held => mix.asked[o].kind = "OPEN")
  BY <1>a
<1>o. ASSUME NEW o \in Orders
      PROVE  order[o] = [status |-> IF o \in held THEN "FILLED" ELSE "NEW", born |-> 0,
                         filled |-> IF o \in held THEN Size(o) ELSE 0,
                         owner |-> mix.asked[o].owner, kind |-> mix.asked[o].kind,
                         side |-> mix.asked[o].side, size |-> Size(o)]
  BY <1>1
<1>p. ASSUME NEW o \in Orders
      PROVE  /\ provider[o].status = (IF o \in held THEN "FILLED" ELSE "NONE")
             /\ ~provider[o].rejected /\ provider[o] \in ProviderRow
  BY <1>1 DEF ProviderRow
<1>e. ASSUME NEW o \in Orders
      PROVE  exchange[o] = IF o \in held THEN [status |-> "filled", sent |-> Size(o), got |-> Size(o)]
                           ELSE [status |-> "NONE", sent |-> 0, got |-> 0]
  BY <1>1
<1>y. ASSUME NEW o \in Orders, o \in held
      PROVE  /\ order[o].status = "FILLED" /\ order[o].filled = Size(o) /\ order[o].size = Size(o)
             /\ exchange[o] = [status |-> "filled", sent |-> Size(o), got |-> Size(o)]
             /\ provider[o].status = "FILLED"
  <2> HIDE DEF Size, held
  <2>1. exchange[o] = [status |-> "filled", sent |-> Size(o), got |-> Size(o)]
    BY <1>e, <1>y
  <2>2. order[o] = [status |-> "FILLED", born |-> 0, filled |-> Size(o), owner |-> mix.asked[o].owner,
                    kind |-> mix.asked[o].kind, side |-> mix.asked[o].side, size |-> Size(o)]
    BY <1>o, <1>y
  <2>3. order[o].status = "FILLED" /\ order[o].filled = Size(o) /\ order[o].size = Size(o)
    BY <2>2
  <2> QED
    BY <2>1, <2>3, <1>p, <1>y
<1>z. ASSUME NEW o \in Orders, o \notin held
      PROVE  /\ order[o].status = "NEW" /\ order[o].filled = 0 /\ order[o].size = Size(o)
             /\ exchange[o] = [status |-> "NONE", sent |-> 0, got |-> 0]
             /\ provider[o].status = "NONE"
  <2> HIDE DEF Size, held
  <2>1. exchange[o] = [status |-> "NONE", sent |-> 0, got |-> 0]
    BY <1>e, <1>z
  <2>2. order[o] = [status |-> "NEW", born |-> 0, filled |-> 0, owner |-> mix.asked[o].owner,
                    kind |-> mix.asked[o].kind, side |-> mix.asked[o].side, size |-> Size(o)]
    BY <1>o, <1>z
  <2>3. order[o].status = "NEW" /\ order[o].filled = 0 /\ order[o].size = Size(o)
    BY <2>2
  <2> QED
    BY <2>1, <2>3, <1>p, <1>z
<1>f. applied = [x \in Units |-> 1] /\ DOMAIN applied = Units
  BY <1>1
<1>g. /\ position = [u \in Users |-> Held(u)]
      /\ ledger = [posted |-> {<<"reserve", o>> : o \in held}, held |-> [u \in Users |-> Abs(Held(u))]]
      /\ queue = {} /\ place = Free /\ rec = [r \in Recs |-> Idle] /\ over = [released |-> {}, missed |-> {}]
      /\ DOMAIN order = Orders /\ DOMAIN provider = Orders /\ DOMAIN exchange = Orders
  BY <1>1
<1>h. held \subseteq Orders
  OBVIOUS
<1>3. \A u \in Users : Held(u) \in Int /\ Abs(Held(u)) \in Nat
  <2> SUFFICES ASSUME NEW u \in Users
               PROVE  Held(u) \in Int
    BY DEF Abs
  <2> DEFINE f == [o \in {x \in held : mix.asked[x].owner = u} |-> mix.asked[o].side * Size(o)]
  <2>1. \A o \in DOMAIN f : f[o] \in Int
    BY <1>2
  <2>2. IsFiniteSet(DOMAIN f)
    BY <1>a, FS_Subset
  <2> HIDE DEF f
  <2>3. SumOver(f) \in Int
    BY <2>1, <2>2, SumType DEF Summable
  <2> QED
    BY <2>3 DEF f
<1>4. \A o, k : <<o, k>> \in Units <=> o \in held /\ k \in 1 .. Size(o)
  OBVIOUS
<1>5. \A o \in held : IsFiniteSet(Unit(o)) /\ Cardinality(Unit(o)) = Size(o)
  <2> SUFFICES ASSUME NEW o \in held
               PROVE  IsFiniteSet(Unit(o)) /\ Cardinality(Unit(o)) = Size(o)
    OBVIOUS
  <2>1. Size(o) \in Nat \ {0}
    BY <1>2, <1>h
  <2> DEFINE b == [k \in 1 .. Size(o) |-> <<o, k>>]
  <2>2. b \in Bijection(1 .. Size(o), Unit(o))
    BY DEF Bijection, Injection, Surjection, IsInjective
  <2>3. IsFiniteSet(1 .. Size(o)) /\ Cardinality(1 .. Size(o)) = Size(o)
    <3>1. PICK n \in Nat \ {0} : n = Size(o)
      BY <2>1
    <3>2. 1 \in Int /\ n \in Int /\ n - 1 + 1 = n /\ ~(1 > n)
      OBVIOUS
    <3> HIDE DEF Size
    <3> QED
      BY <3>1, <3>2, FS_Interval
  <2> HIDE DEF b, Unit, Size
  <2>4. /\ IsFiniteSet(Unit(o))
        /\ Cardinality(1 .. Size(o)) = Cardinality(Unit(o))
    <3>1. ExistsBijection(1 .. Size(o), Unit(o))
      BY <2>2 DEF ExistsBijection
    <3> QED
      BY <2>3, <3>1, FS_Bijection
  <2> QED
    BY <2>3, <2>4
<1>6. IsFiniteSet(Units) /\ Units \subseteq Orders \X Nat
  <2>1. Units \subseteq Orders \X Nat
    BY <1>2, <1>h
  <2>2. IsFiniteSet({Unit(o) : o \in held})
    <3> DEFINE b == [o \in held |-> Unit(o)]
    <3>1. IsFiniteSet(held)
      BY <1>a, FS_Subset
    <3>2. b \in Surjection(held, {Unit(o) : o \in held})
      BY DEF Surjection
    <3> HIDE DEF b
    <3> QED
      BY <3>1, <3>2, FS_Surjection
  <2>3. \A s \in {Unit(o) : o \in held} : IsFiniteSet(s)
    BY <1>5
  <2>4. Units = UNION {Unit(o) : o \in held}
    OBVIOUS
  <2> HIDE DEF Unit, Units, held
  <2> QED
    BY <2>1, <2>2, <2>3, <2>4, FS_UNION
<1> HIDE DEF held, Size, Held, Units, Unit
<1>r. order \in [Orders -> OrderRow]
  <2>1. ASSUME NEW o \in Orders
        PROVE  order[o] \in OrderRow
    <3>1. PICK st \in Statuses : st = IF o \in held THEN "FILLED" ELSE "NEW"
      BY DEF Statuses
    <3>2. PICK n \in Nat : n = IF o \in held THEN Size(o) ELSE 0
      BY <1>2
    <3>3. order[o] = [status |-> st, born |-> 0, filled |-> n, owner |-> mix.asked[o].owner,
                      kind |-> mix.asked[o].kind, side |-> mix.asked[o].side, size |-> Size(o)]
      BY <1>o, <3>1, <3>2
    <3> QED
      BY <1>2, <3>3 DEF OrderRow
  <2>2. order = [o \in Orders |-> order[o]]
    BY <1>1
  <2> QED
    BY <2>1, <2>2
<1>7. Typed
  <2>2. provider \in [Orders -> ProviderRow]
    <3>1. \A o \in Orders : provider[o] \in ProviderRow
      BY <1>p
    <3>2. provider = [o \in Orders |-> provider[o]]
      BY <1>1
    <3> QED
      BY <3>1, <3>2
  <2>3. exchange \in [Orders -> AtExchange]
    <3>1. ASSUME NEW o \in Orders
          PROVE  exchange[o] \in AtExchange
      <4>1. CASE o \in held
        <5>1. exchange[o] = [status |-> "filled", sent |-> Size(o), got |-> Size(o)]
          BY <1>y, <4>1
        <5> QED
          BY <5>1, <1>2 DEF AtExchange
      <4>2. CASE o \notin held
        <5>1. exchange[o] = [status |-> "NONE", sent |-> 0, got |-> 0]
          BY <1>z, <4>2
        <5> QED
          BY <5>1 DEF AtExchange
      <4> QED
        BY <4>1, <4>2
    <3>2. exchange = [o \in Orders |-> exchange[o]]
      BY <1>1
    <3> QED
      BY <3>1, <3>2
  <2>4. DOMAIN applied \subseteq Orders \X Nat /\ IsFiniteSet(DOMAIN applied) /\ \A f \in DOMAIN applied : applied[f] \in Nat \ {0}
    BY <1>f, <1>6
  <2>5. position \in [Users -> Int] /\ ledger.held \in [Users -> Int] /\ ledger = [posted |-> ledger.posted, held |-> ledger.held]
    BY <1>g, <1>3
  <2>6. place \in Placement /\ place.pc = "free" /\ queue \subseteq Orders /\ over \in [released : SUBSET Orders, missed : SUBSET Orders]
    BY <1>g DEF Placement, Free
  <2>7. rec \in [Recs -> Visit] /\ (\A r \in Recs : rec[r].pc = "idle")
    BY <1>g DEF Visit, Idle
  <2> QED
    BY <1>r, <2>2, <2>3, <2>4, <2>5, <2>6, <2>7 DEF Typed
<1>8. SizesOk
  <2> SUFFICES ASSUME NEW o \in Orders
               PROVE  /\ order[o].filled <= order[o].size
                      /\ order[o].filled = SumOver([f \in FillsOf(o) |-> applied[f]])
    BY DEF SizesOk
  <2>1. PICK fills : fills = [f \in FillsOf(o) |-> applied[f]]
    OBVIOUS
  <2>2. CASE o \in held
    <3>1. FillsOf(o) = Unit(o)
      BY <1>f, <1>h, <2>2 DEF FillsOf, Units, Unit
    <3>2. DOMAIN fills = Unit(o) /\ \A x \in DOMAIN fills : fills[x] = 1
      BY <1>f, <2>1, <3>1 DEF FillsOf
    <3>3. SumOver(fills) = Size(o)
      BY <1>5, <2>2, <3>2, SumOfOnes
    <3>4. order[o].filled = Size(o) /\ order[o].size = Size(o) /\ Size(o) \in Nat
      BY <1>y, <1>2, <2>2
    <3> QED
      BY <2>1, <3>3, <3>4
  <2>3. CASE o \notin held
    <3>1. FillsOf(o) = {}
      BY <1>f, <2>3 DEF FillsOf, Units
    <3>2. DOMAIN fills = {}
      BY <2>1, <3>1
    <3>3. SumOver(fills) = 0
      BY <3>2, SumZero, FS_EmptySet
    <3>4. order[o].filled = 0 /\ order[o].size \in Nat
      BY <1>z, <1>2, <2>3
    <3> QED
      BY <2>1, <3>3, <3>4
  <2> QED
    BY <2>2, <2>3
<1>9. KeysOk
  BY <1>g DEF KeysOk
<1>10. ExchangeOk
  <2> SUFFICES ASSUME NEW o \in Orders
               PROVE  /\ provider[o].status = "NONE" => exchange[o].status = "NONE"
                      /\ exchange[o].status \in {"NONE", "rejected"} => exchange[o].got = 0
                      /\ exchange[o].got <= exchange[o].sent
    BY DEF ExchangeOk, SentOk
  <2>1. CASE o \in held
    <3>1. PICK n \in Nat : n = Size(o)
      BY <1>2
    <3>2. exchange[o] = [status |-> "filled", sent |-> n, got |-> n] /\ provider[o].status = "FILLED"
      BY <1>y, <2>1, <3>1
    <3> QED
      BY <3>2
  <2>2. CASE o \notin held
    BY <1>z, <2>2
  <2> QED
    BY <2>1, <2>2
<1>11. States
  <2>1. PlaceOk /\ \A r \in Recs : VisitOk(r)
    BY <1>g DEF PlaceOk, VisitOk, Free, Idle
  <2>2. ASSUME NEW o \in Orders
        PROVE  NewOk(o)
    BY <1>y, <1>z, <1>g DEF NewOk
  <2>3. ASSUME NEW o \in Orders
        PROVE  OpeningOk(o)
    <3>1. \A k \in Nat : <<o, k>> \in DOMAIN applied <=> k \in 1 .. order[o].filled
      <4>1. CASE o \in held
        <5>1. order[o].filled = Size(o)
          BY <1>y, <4>1
        <5> QED
          BY <1>4, <1>f, <4>1, <5>1
      <4>2. CASE o \notin held
        <5>1. order[o].filled = 0
          BY <1>z, <4>2
        <5> QED
          BY <1>4, <1>f, <4>2, <5>1
      <4> QED
        BY <4>1, <4>2
    <3>2. /\ <<"fail", o>> \notin ledger.posted /\ <<"release", o>> \notin ledger.posted
          /\ (o \notin held => <<"reserve", o>> \notin ledger.posted)
          /\ ~Waiting(o)
      BY <1>g DEF Waiting
    <3>3. CASE o \in held
      <4>1. order[o].status = "FILLED" /\ order[o].filled = order[o].size /\ provider[o].status = "FILLED" /\ ~provider[o].rejected
        BY <1>y, <1>p, <3>3
      <4>2. exchange[o].sent = order[o].size /\ order[o].size \in Nat
        <5>1. exchange[o] = [status |-> "filled", sent |-> Size(o), got |-> Size(o)] /\ order[o].size = Size(o)
          BY <1>y, <3>3
        <5> QED
          BY <1>2, <5>1
      <4> QED
        BY <3>1, <3>2, <4>1, <4>2 DEF OpeningOk, Settled
    <3>4. CASE o \notin held
      <4>1. order[o].status = "NEW" /\ order[o].filled = 0 /\ provider[o].status = "NONE" /\ ~provider[o].rejected
        BY <1>z, <1>p, <3>4
      <4>2. exchange[o].sent = 0 /\ order[o].size \in Nat
        BY <1>z, <1>2, <3>4
      <4> QED
        BY <3>1, <3>2, <3>4, <4>1, <4>2 DEF OpeningOk
    <3> QED
      BY <3>3, <3>4
  <2> QED
    BY <2>1, <2>2, <2>3 DEF States
<1>12. MarginIsAccounted
  <2> SUFFICES ASSUME NEW u \in Users
               PROVE  ledger.held[u] = Abs(position[u]) + SumOver([o \in {x \in Orders : Owner(x) = u} |-> Reserved(o)])
    BY DEF MarginIsAccounted
  <2>1. PICK f : f = [o \in {x \in Orders : Owner(x) = u} |-> Reserved(o)]
    OBVIOUS
  <2>2. IsFiniteSet(DOMAIN f)
    BY <1>a, <2>1, FS_Subset
  <2>3. \A o \in DOMAIN f : f[o] = 0
    <3> SUFFICES ASSUME NEW o \in Orders
                 PROVE  Reserved(o) = 0
      BY <2>1
    <3>1. order[o].status \in {"FILLED", "NEW"}
      BY <1>y, <1>z
    <3> QED
      BY <3>1 DEF Reserved, Live
  <2>4. SumOver(f) = 0
    BY <2>2, <2>3, SumZero
  <2>5. ledger.held[u] = Abs(position[u]) /\ Abs(position[u]) \in Nat
    BY <1>g, <1>3
  <2> QED
    BY <2>1, <2>4, <2>5
<1> QED
  BY <1>7, <1>8, <1>9, <1>10, <1>11, <1>12 DEF Books

-----------------------------------------------------------------------------
(* What every step leaves alone *)

\* An order goes on: what is filled, posted, sent and ended stays so.
Forth(o) ==
  /\ order'[o].owner = order[o].owner /\ order'[o].kind = order[o].kind
  /\ order[o].kind = "OPEN" => order'[o].size = order[o].size /\ order'[o].side = order[o].side
  /\ order[o].filled <= order'[o].filled
  /\ order'[o].status = "NEW" => order[o].status = "NEW"
  /\ provider'[o].status = "NONE" => provider[o].status = "NONE"
  /\ exchange[o].got <= exchange'[o].got
  /\ exchange[o].status \in Ended => exchange'[o] = exchange[o]

Onward ==
  /\ \A o \in Orders : Forth(o)
  /\ ledger.posted \subseteq ledger'.posted /\ over.missed \subseteq over'.missed

\* A step does not concern an order.
Same(o) ==
  /\ order'[o] = order[o] /\ provider'[o] = provider[o] /\ exchange'[o] = exchange[o]
  /\ \A key \in {"reserve", "release", "fail"} : <<key, o>> \in ledger'.posted <=> <<key, o>> \in ledger.posted
  /\ \A k \in Nat : <<o, k>> \in DOMAIN applied' <=> <<o, k>> \in DOMAIN applied
  /\ o \in queue' => o \in queue
  /\ Waiting(o)' => Waiting(o)
  /\ over.missed \subseteq over'.missed

\* A step posts nothing and fills nothing.
Quiet ==
  /\ applied' = applied /\ position' = position /\ ledger' = ledger /\ over'.released = over.released
  /\ \A o \in Orders :
       /\ order'[o].filled = order[o].filled
       /\ order'[o].size = order[o].size \/ (order[o].kind # "OPEN" /\ order[o].filled = 0)
       /\ order[o].kind = "OPEN" =>
            order'[o].status = order[o].status \/ (order[o].status # "NEW" /\ order'[o].status # "NEW")

OrderOk(o) == NewOk(o) /\ (Kind(o) = "OPEN" => OpeningOk(o))

LEMMA SameStays ==
  ASSUME NEW o \in Orders, Same(o), OrderOk(o)
  PROVE  OrderOk(o)'
<1>1. NewOk(o)'
  BY DEF OrderOk, NewOk, Same
<1>2. Kind(o)' = Kind(o)
  BY DEF Same, Kind
<1>3. ASSUME OpeningOk(o)
      PROVE  OpeningOk(o)'
  <2>1. Settled(o)' <=> Settled(o)
    BY DEF Same, Settled
  <2>2. AllPosted(o)' <=> AllPosted(o)
    BY DEF Same, AllPosted
  <2>3. /\ <<"reserve", o>> \in ledger'.posted <=> <<"reserve", o>> \in ledger.posted
        /\ <<"release", o>> \in ledger'.posted <=> <<"release", o>> \in ledger.posted
        /\ <<"fail", o>> \in ledger'.posted <=> <<"fail", o>> \in ledger.posted
    BY DEF Same
  <2> QED
    BY <1>3, <2>1, <2>2, <2>3 DEF OpeningOk, Same
<1> QED
  BY <1>1, <1>2, <1>3 DEF OrderOk

LEMMA VisitStays ==
  ASSUME Typed, Typed', SizesOk, SizesOk', Onward, NEW r \in Recs, VisitOk(r), rec'[r] = rec[r]
  PROVE  VisitOk(r)'
<1> SUFFICES ASSUME rec[r].pc # "idle"
             PROVE  VisitOk(r)'
  BY DEF VisitOk
<1>1. PICK x \in Visit : x = rec[r]
  BY DEF Typed
<1>2. PICK o \in Orders : o = x.order
  BY <1>1 DEF Typed
<1>3. Forth(o)
  BY DEF Onward
<1>4. /\ order[o] \in OrderRow /\ order'[o] \in OrderRow
      /\ exchange[o] \in AtExchange /\ exchange'[o] \in AtExchange
  BY DEF Typed
<1>5. order[o].filled <= order[o].size /\ order'[o].filled <= order'[o].size
  BY DEF SizesOk
<1>6. Kind(o)' = Kind(o)
  BY <1>3 DEF Forth, Kind
<1>7. Kind(o) = "OPEN" /\ Settled(o) => Settled(o)'
  <2> SUFFICES ASSUME Kind(o) = "OPEN", Settled(o)
               PROVE  Settled(o)'
    OBVIOUS
  <2>1. CASE {<<"release", o>>, <<"fail", o>>} \cap ledger.posted # {}
    BY <2>1 DEF Settled, Onward
  <2>2. CASE order[o].filled = order[o].size
    <3>1. order'[o].size = order[o].size
      BY <1>3 DEF Forth, Kind
    <3> QED
      BY <1>3, <1>4, <1>5, <2>2, <3>1 DEF Settled, Forth, OrderRow
  <2> QED
    BY <2>1, <2>2 DEF Settled
<1>8. o \in over.missed \/ AllPosted(o) => o \in over'.missed \/ AllPosted(o)'
  BY <1>3, <1>4 DEF AllPosted, Forth, Onward, OrderRow, AtExchange
<1>9. x.base <= order[o].filled /\ x.n <= exchange[o].got => x.base <= order'[o].filled /\ x.n <= exchange'[o].got
  <2>1. PICK a \in Nat, b \in Nat : a = order[o].filled /\ b = order'[o].filled
    BY <1>4 DEF OrderRow
  <2>2. PICK c \in Nat, d \in Nat : c = exchange[o].got /\ d = exchange'[o].got
    BY <1>4 DEF AtExchange
  <2>3. a <= b /\ c <= d /\ x.base \in Nat /\ x.n \in Nat
    BY <1>3, <2>1, <2>2 DEF Forth, Visit
  <2> QED
    BY <2>1, <2>2, <2>3
<1> QED
  BY <1>1, <1>2, <1>3, <1>6, <1>7, <1>8, <1>9 DEF VisitOk, Forth, Ended

LEMMA PlaceStays ==
  ASSUME Typed, PlaceOk, place' = place, Onward, queue \subseteq queue',
         \A o \in Orders : exchange[o].status = "NONE" => exchange'[o].status = "NONE",
         \A o \in Orders : order[o].kind = "OPEN" /\ provider[o].status = "NONE" /\ order[o].status = "ROUTED" =>
                             provider'[o].status = "NONE" /\ order'[o].status = "ROUTED"
  PROVE  PlaceOk'
<1> SUFFICES ASSUME place.pc # "free"
             PROVE  PlaceOk'
  BY DEF PlaceOk
<1>1. PICK o \in Orders : o = place.order
  BY DEF Typed
<1>2. Forth(o)
  BY DEF Onward
<1>3. Kind(o)' = Kind(o) /\ ReduceOnly(o)' = ReduceOnly(o)
  BY <1>2 DEF Forth, Kind, ReduceOnly
<1> QED
  BY <1>1, <1>2, <1>3 DEF PlaceOk, Forth, Kind

\* The order of a status apart, what an opening order has in reserve stays.
LEMMA ReservedStays ==
  ASSUME Typed, Typed', Quiet, Onward, NEW o \in Orders, OrderOk(o), OrderOk(o)'
  PROVE  Reserved(o)' = Reserved(o)
<1>1. Kind(o)' = Kind(o)
  BY DEF Onward, Forth, Kind
<1>2. CASE Kind(o) # "OPEN"
  BY <1>1, <1>2 DEF Reserved
<1>3. CASE Kind(o) = "OPEN" /\ {<<"release", o>>, <<"fail", o>>} \cap ledger.posted = {}
  <2>1. PICK n \in Nat, size \in Nat : n = order[o].filled /\ size = order[o].size
    BY DEF Typed, OrderRow
  <2>2. order'[o].filled = n /\ order'[o].size = size
    BY <1>3, <2>1 DEF Quiet, Kind
  <2>3. order[o].status \notin Live /\ order[o].status # "NEW" => size = n
    BY <1>3, <2>1 DEF OrderOk, OpeningOk, Settled
  <2>4. order'[o].status \notin Live /\ order'[o].status # "NEW" => size = n
    BY <1>1, <1>3, <2>2 DEF OrderOk, OpeningOk, Settled, Quiet
  <2>5. Reserved(o) = IF order[o].status \in Live THEN size - n ELSE 0
    BY <1>3, <2>1 DEF Reserved
  <2>6. Reserved(o)' = IF order'[o].status \in Live THEN size - n ELSE 0
    BY <1>1, <1>3, <2>2 DEF Reserved, Quiet
  <2>7. order'[o].status = order[o].status \/ (order[o].status # "NEW" /\ order'[o].status # "NEW")
    BY <1>3 DEF Quiet, Kind
  <2> QED
    BY <2>3, <2>4, <2>5, <2>6, <2>7
<1>4. CASE Kind(o) = "OPEN" /\ {<<"release", o>>, <<"fail", o>>} \cap ledger.posted # {}
  BY <1>1, <1>4 DEF Reserved, Quiet
<1> QED
  BY <1>2, <1>3, <1>4

LEMMA QuietSizes ==
  ASSUME Typed, Typed', SizesOk, KeysOk, Quiet
  PROVE  SizesOk' /\ KeysOk'
<1>1. SizesOk'
  <2> SUFFICES ASSUME NEW o \in Orders
               PROVE  /\ order'[o].filled <= order'[o].size
                      /\ order'[o].filled = SumOver([f \in FillsOf(o)' |-> applied'[f]])
    BY DEF SizesOk
  <2>1. FillsOf(o)' = FillsOf(o) /\ applied' = applied
    BY DEF FillsOf, Quiet
  <2>2. order[o].filled <= order[o].size /\ order[o].filled = SumOver([f \in FillsOf(o) |-> applied[f]])
    BY DEF SizesOk
  <2>3. order[o] \in OrderRow /\ order'[o] \in OrderRow
    BY DEF Typed
  <2>4. order'[o].filled <= order'[o].size
    BY <2>2, <2>3 DEF Quiet, OrderRow
  <2> QED
    BY <2>1, <2>2, <2>4 DEF Quiet
<1>2. KeysOk'
  BY DEF KeysOk, Quiet
<1> QED
  BY <1>1, <1>2

LEMMA QuietMargin ==
  ASSUME Typed, Typed', MarginIsAccounted, Quiet, Onward, \A o \in Orders : OrderOk(o) /\ OrderOk(o)'
  PROVE  MarginIsAccounted'
<1>1. \A o \in Orders : Reserved(o)' = Reserved(o) /\ Owner(o)' = Owner(o)
  BY ReservedStays DEF Onward, Forth, Owner
<1> SUFFICES ASSUME NEW u \in Users, \A o \in over'.released : Owner(o)' # u
             PROVE  ledger'.held[u] = Abs(position'[u]) + SumOver([o \in {x \in Orders : Owner(x)' = u} |-> Reserved(o)'])
  BY DEF MarginIsAccounted
<1>2. \A o \in over.released : Owner(o) # u
  BY <1>1 DEF Typed, Quiet
<1>3. PICK f : f = [o \in {x \in Orders : Owner(x) = u} |-> Reserved(o)]
  OBVIOUS
<1>4. PICK g : g = [o \in {x \in Orders : Owner(x)' = u} |-> Reserved(o)']
  OBVIOUS
<1>5. f = g
  BY <1>1, <1>3, <1>4
<1>6. ledger.held[u] = Abs(position[u]) + SumOver(f)
  BY <1>2, <1>3 DEF MarginIsAccounted
<1>7. ledger'.held[u] = Abs(position'[u]) + SumOver(g)
  BY <1>5, <1>6 DEF Quiet
<1> QED
  BY <1>4, <1>7

-----------------------------------------------------------------------------
(* The ledger and a fill *)

IsLedger(l) == l.held \in [Users -> Int] /\ l = [posted |-> l.posted, held |-> l.held]

\* A posting changes one user's margin, once for its key.
Posting(l, key, u, n, m) ==
  /\ IsLedger(m)
  /\ \A k : k # key => (k \in m.posted <=> k \in l.posted)
  /\ l.posted \subseteq m.posted
  /\ n # 0 => key \in m.posted
  /\ \A w \in Users \ {u} : m.held[w] = l.held[w]
  /\ key \notin l.posted => m.held[u] = l.held[u] + n
  /\ key \in l.posted => m = l

LEMMA PostChange ==
  ASSUME NEW l, IsLedger(l), NEW key, NEW u \in Users, NEW n \in Int, NEW m, m = PostTo(l, key, u, n)
  PROVE  Posting(l, key, u, n, m)
<1>1. CASE key \in l.posted \/ n = 0
  <2>1. m = l
    BY <1>1 DEF PostTo
  <2> QED
    BY <1>1, <2>1 DEF IsLedger, Posting
<1>2. CASE ~(key \in l.posted \/ n = 0)
  <2>1. m = [posted |-> l.posted \cup {key}, held |-> [l.held EXCEPT ![u] = l.held[u] + n]]
    BY <1>2 DEF PostTo
  <2>2. m.posted = l.posted \cup {key} /\ m.held = [l.held EXCEPT ![u] = l.held[u] + n]
    BY <2>1
  <2>3. m.held \in [Users -> Int] /\ m = [posted |-> m.posted, held |-> m.held]
    BY <2>1, <2>2 DEF IsLedger
  <2> QED
    BY <1>2, <2>2, <2>3 DEF IsLedger, Posting
<1> QED
  BY <1>1, <1>2

\* What a fill of an opening order closes of an opposite position.
Against(n, p, s) == IF p * s >= 0 THEN 0 ELSE IF n < Abs(p) THEN n ELSE Abs(p)

LEMMA AgainstType ==
  ASSUME NEW n \in Nat, NEW p \in Int, NEW s \in Int
  PROVE  Against(n, p, s) \in Nat
  BY DEF Against, Abs

\* The postings of a fill that is stored for the first time.
LEMMA FillPostings ==
  ASSUME Typed, NEW o \in Orders, NEW f, NEW n \in Nat, ApplyFill(o, f, n),
         {<<"close", f>>, <<"netted", f>>} \cap ledger.posted = {}
  PROVE  /\ IsLedger(ledger')
         /\ ledger.posted \subseteq ledger'.posted
         /\ \A k : k \notin {<<"close", f>>, <<"netted", f>>} => (k \in ledger'.posted <=> k \in ledger.posted)
         /\ \A w \in Users \ {Owner(o)} : ledger'.held[w] = ledger.held[w]
         /\ ledger'.held[Owner(o)] = ledger.held[Owner(o)]
              - (IF ReduceOnly(o) THEN n
                 ELSE 2 * Against(n, position[Owner(o)], order[o].side * n))
<1>1. PICK u \in Users : u = Owner(o)
  BY DEF Typed, OrderRow, Owner
<1>2. IsLedger(ledger) /\ position[u] \in Int /\ order[o].side * n \in Int
  <2>1. order[o].side \in {1, -1}
    BY DEF Typed, OrderRow
  <2> QED
    BY <2>1 DEF Typed, IsLedger
<1>c. <<"close", f>> \notin ledger.posted /\ <<"netted", f>> \notin ledger.posted
  OBVIOUS
<1>3. CASE ReduceOnly(o)
  <2>1. ledger' = PostTo(ledger, <<"close", f>>, u, -n)
    BY <1>1, <1>3 DEF ApplyFill, Settle
  <2>2. -n \in Int
    OBVIOUS
  <2>p. Posting(ledger, <<"close", f>>, u, -n, ledger')
    BY <1>1, <1>2, <2>1, <2>2, PostChange
  <2>3. /\ IsLedger(ledger') /\ ledger.posted \subseteq ledger'.posted
        /\ \A k : k # <<"close", f>> => (k \in ledger'.posted <=> k \in ledger.posted)
        /\ \A w \in Users \ {u} : ledger'.held[w] = ledger.held[w]
        /\ ledger'.held[u] = ledger.held[u] + (-n)
    BY <1>c, <2>p DEF Posting
  <2>4. ledger.held[u] \in Int
    BY <1>2 DEF IsLedger
  <2> QED
    BY <1>1, <1>3, <2>3, <2>4
<1>4. CASE ~ReduceOnly(o)
  <2>1. PICK c \in Nat : c = Against(n, position[u], order[o].side * n)
    BY <1>2, AgainstType
  <2>2. PICK m : m = PostTo(ledger, <<"close", f>>, u, -c)
    OBVIOUS
  <2>3. ledger' = PostTo(m, <<"netted", f>>, u, -c)
    BY <1>1, <1>4, <2>1, <2>2 DEF ApplyFill, NettingFill, Settle, Against
  <2>4. -c \in Int /\ <<"close", f>> # <<"netted", f>>
    OBVIOUS
  <2>p. Posting(ledger, <<"close", f>>, u, -c, m)
    BY <1>1, <1>2, <2>1, <2>2, <2>4, PostChange
  <2>5. /\ IsLedger(m) /\ ledger.posted \subseteq m.posted
        /\ \A k : k # <<"close", f>> => (k \in m.posted <=> k \in ledger.posted)
        /\ \A w \in Users \ {u} : m.held[w] = ledger.held[w]
        /\ m.held[u] = ledger.held[u] + (-c)
    BY <1>c, <2>p DEF Posting
  <2>6. <<"netted", f>> \notin m.posted
    BY <1>c, <2>4, <2>5
  <2>q. Posting(m, <<"netted", f>>, u, -c, ledger')
    BY <1>1, <2>1, <2>3, <2>4, <2>5, PostChange
  <2>7. /\ IsLedger(ledger') /\ m.posted \subseteq ledger'.posted
        /\ \A k : k # <<"netted", f>> => (k \in ledger'.posted <=> k \in m.posted)
        /\ \A w \in Users \ {u} : ledger'.held[w] = m.held[w]
        /\ ledger'.held[u] = m.held[u] + (-c)
    BY <2>6, <2>q DEF Posting
  <2>8. ledger'.held[u] = ledger.held[u] - 2 * c
    <3>1. ledger.held[u] \in Int
      BY <1>2 DEF IsLedger
    <3> QED
      BY <2>5, <2>7, <3>1
  <2> QED
    BY <1>1, <1>4, <2>1, <2>5, <2>7, <2>8
<1> QED
  BY <1>3, <1>4

\* The order rows after a fill.
LEMMA FillRows ==
  ASSUME Typed, NEW o \in Orders, NEW f, NEW n \in Nat, ApplyFill(o, f, n)
  PROVE  /\ order' \in [Orders -> OrderRow]
         /\ order'[o] = [order[o] EXCEPT !.filled = order[o].filled + n,
                                         !.status = IF order[o].filled + n >= order[o].size THEN "FILLED" ELSE "PARTIALLY_FILLED"]
         /\ \A x \in Orders \ {o} :
              \/ order'[x] = order[x]
              \/ Kind(x) = "TRIGGER" /\ order[x].status = "OPEN" /\ order'[x] = [order[x] EXCEPT !.status = "CANCELLED"]
<1>1. PICK row : row = [order[o] EXCEPT !.filled = order[o].filled + n,
                                        !.status = IF order[o].filled + n >= order[o].size THEN "FILLED" ELSE "PARTIALLY_FILLED"]
  OBVIOUS
<1>2. row \in OrderRow
  <2>1. order[o] \in OrderRow /\ order[o].filled + n \in Nat
    BY DEF Typed, OrderRow
  <2>2. PICK st \in Statuses : st = IF order[o].filled + n >= order[o].size THEN "FILLED" ELSE "PARTIALLY_FILLED"
    BY DEF Statuses, Live
  <2> QED
    BY <1>1, <2>1, <2>2 DEF OrderRow
<1>3. PICK mine : mine = [order EXCEPT ![o].filled = order[o].filled + n,
                            ![o].status = IF order[o].filled + n >= order[o].size THEN "FILLED" ELSE "PARTIALLY_FILLED"]
  OBVIOUS
<1>4. mine[o] = row /\ \A x \in Orders \ {o} : mine[x] = order[x]
  BY <1>1, <1>3 DEF Typed
<1>p. PICK flat : flat = {x \in Orders :
            /\ (position[Owner(o)] # 0 /\ position[Owner(o)] * (order[o].side * n) < 0 /\ n >= Abs(position[Owner(o)]))
            /\ x # o /\ Owner(x) = Owner(o) /\ Kind(x) = "TRIGGER" /\ order[x].status = "OPEN"}
  OBVIOUS
<1>5. order' = [x \in Orders |-> IF x \in flat THEN [mine[x] EXCEPT !.status = "CANCELLED"] ELSE mine[x]]
  BY <1>3, <1>p DEF ApplyFill
<1>6. order'[o] = row
  BY <1>4, <1>5, <1>p
<1>7. \A x \in Orders \ {o} :
        \/ order'[x] = order[x]
        \/ Kind(x) = "TRIGGER" /\ order[x].status = "OPEN" /\ order'[x] = [order[x] EXCEPT !.status = "CANCELLED"]
  BY <1>4, <1>5, <1>p
<1>8. order' \in [Orders -> OrderRow]
  <2>1. ASSUME NEW x \in Orders
        PROVE  order'[x] \in OrderRow
    <3>1. order[x] \in OrderRow /\ "CANCELLED" \in Statuses
      BY DEF Typed, Statuses
    <3>2. CASE x = o
      BY <1>2, <1>6, <3>2
    <3>3. CASE x # o /\ order'[x] = order[x]
      BY <3>1, <3>3
    <3>4. CASE x # o /\ order'[x] = [order[x] EXCEPT !.status = "CANCELLED"]
      BY <3>1, <3>4 DEF OrderRow
    <3> QED
      BY <1>7, <3>2, <3>3, <3>4
  <2>2. order' = [x \in Orders |-> order'[x]]
    BY <1>5
  <2> QED
    BY <2>1, <2>2
<1> QED
  BY <1>1, <1>6, <1>7, <1>8

LEMMA FillType ==
  ASSUME Typed, NEW o \in Orders, NEW k \in Nat, NEW n \in Nat \ {0}, ApplyFill(o, <<o, k>>, n),
         KeysOk, <<o, k>> \notin DOMAIN applied, UNCHANGED <<provider, exchange>>,
         queue' \subseteq Orders, place' \in Placement, place'.pc # "free" => place'.order \in Orders,
         rec' = rec
  PROVE  Typed'
<1>1. {<<"close", <<o, k>>>>, <<"netted", <<o, k>>>>} \cap ledger.posted = {}
  BY DEF KeysOk
<1>2. IsLedger(ledger')
  BY <1>1, FillPostings
<1>3. order' \in [Orders -> OrderRow]
  BY FillRows
<1>4. applied' = [x \in DOMAIN applied \cup {<<o, k>>} |-> IF x = <<o, k>> THEN n ELSE applied[x]]
  BY DEF ApplyFill
<1>5. /\ DOMAIN applied' \subseteq Orders \X Nat /\ IsFiniteSet(DOMAIN applied')
      /\ \A f \in DOMAIN applied' : applied'[f] \in Nat \ {0}
  BY <1>4, FS_AddElement DEF Typed
<1>6. position' \in [Users -> Int]
  <2>1. order[o].side * n \in Int
    <3>1. order[o].side \in {1, -1}
      BY DEF Typed, OrderRow
    <3> QED
      BY <3>1
  <2>2. position' = [position EXCEPT ![Owner(o)] = position[Owner(o)] + order[o].side * n]
    BY DEF ApplyFill
  <2>3. Owner(o) \in Users
    BY DEF Typed, Owner, OrderRow
  <2> QED
    BY <2>1, <2>2, <2>3 DEF Typed
<1>7. over' \in [released : SUBSET Orders, missed : SUBSET Orders]
  <2>1. over' = over \/ over' = [over EXCEPT !.released = over.released \cup {o}]
    BY DEF ApplyFill
  <2> QED
    BY <2>1 DEF Typed
<1> QED
  BY <1>2, <1>3, <1>5, <1>6, <1>7 DEF Typed, IsLedger

-----------------------------------------------------------------------------
(* Types *)

LEMMA CoveredBound ==
  ASSUME NEW gap \in Int, NEW signed \in Int
  PROVE  Covered(gap, signed) \in Nat /\ Covered(gap, signed) <= Abs(signed)
  BY DEF Covered, Abs

LEMMA PositionsAdd ==
  ASSUME Typed
  PROVE  Summable(position) /\ SumOver(position) \in Int /\ ProviderPosition \in Int
<1>1. Summable(position)
  BY Attributes DEF Typed, Summable
<1>2. PICK f : f = [o \in Orders |-> order[o].side * exchange[o].got]
  OBVIOUS
<1>3. Summable(f)
  <2>1. ASSUME NEW o \in Orders
        PROVE  f[o] \in Int
    <3>1. order[o].side \in {1, -1} /\ exchange[o].got \in Nat
      BY DEF Typed, OrderRow, AtExchange
    <3> QED
      BY <1>2, <3>1
  <2> QED
    BY <1>2, <2>1, Attributes DEF Summable
<1> QED
  BY <1>1, <1>2, <1>3, SumType DEF ProviderPosition

\* The two outcomes of a covering: nothing is filled, or a part of what remains is.
CoversNothing(o) ==
  /\ UNCHANGED <<order, applied, position, ledger, event, over>>
  /\ \/ Leave
     \/ /\ place' = [place EXCEPT !.pc = "row", !.left = order[o].size - order[o].filled]
        /\ order[o].filled < order[o].size /\ UNCHANGED queue
CoversPart(o, n) ==
  /\ n <= order[o].size - order[o].filled /\ n <= Covered(place.seen - SumOver(position), order[o].side * (order[o].size - order[o].filled))
  /\ Closes(o, n, position[Owner(o)]) /\ <<o, 0>> \notin DOMAIN applied
  /\ ApplyFill(o, <<o, 0>>, n)
  /\ \/ Leave
     \/ place' = [place EXCEPT !.pc = "row", !.left = order[o].size - order[o].filled - n] /\ UNCHANGED queue

LEMMA CoverCases ==
  ASSUME Typed, PlaceCover
  PROVE  /\ place.pc = "cover" /\ place.order \in Orders
         /\ UNCHANGED <<provider, exchange, rec, budget>>
         /\ CoversNothing(place.order) \/ \E n \in Nat \ {0} : CoversPart(place.order, n)
<1>1. place.pc = "cover" /\ UNCHANGED <<provider, exchange, rec, budget>>
  BY DEF PlaceCover
<1>2. PICK o \in Orders : o = place.order
  BY <1>1 DEF Typed
<1>3. PICK side \in {1, -1}, size \in Nat, filled \in Nat :
        side = order[o].side /\ size = order[o].size /\ filled = order[o].filled
  BY DEF Typed, OrderRow
<1>4. PICK left \in Int : left = size - filled
  BY <1>3
<1>5. PICK gap \in Int : gap = place.seen - SumOver(position)
  BY PositionsAdd DEF Typed, Placement
<1>6. PICK signed \in Int : signed = side * left
  BY <1>3, <1>4
<1>7. PICK part \in Nat : part = Covered(gap, signed) /\ part <= Abs(signed)
  BY <1>5, <1>6, CoveredBound
<1>8. PICK n \in Nat : n = IF Kind(o) = "LIQUIDATION" /\ part < left THEN 0 ELSE part
  BY <1>7
<1>9. n <= part /\ (left > 0 => n <= left)
  BY <1>3, <1>4, <1>6, <1>7, <1>8 DEF Abs
<1>10. IF left <= 0 \/ n = 0
       THEN /\ IF left <= 0 THEN Leave ELSE place' = [place EXCEPT !.pc = "row", !.left = left] /\ UNCHANGED queue
            /\ UNCHANGED <<order, applied, position, ledger, event, over>>
       ELSE IF Closes(o, n, position[Owner(o)]) /\ <<o, 0>> \notin DOMAIN applied
       THEN /\ ApplyFill(o, <<o, 0>>, n)
            /\ IF n = left THEN Leave
               ELSE place' = [place EXCEPT !.pc = "row", !.left = left - n] /\ UNCHANGED queue
       ELSE Leave /\ UNCHANGED <<order, applied, position, ledger, event, over>>
  <2>1. place.seen - SumOver(position) = gap /\ order[o].side * (order[o].size - order[o].filled) = signed
        /\ order[o].size - order[o].filled = left
    BY <1>3, <1>4, <1>5, <1>6
  <2> QED
    BY <1>2, <1>7, <1>8, <2>1 DEF PlaceCover
<1>11. CASE left <= 0 \/ n = 0
  <2>1. left > 0 => filled < size
    BY <1>3, <1>4
  <2> QED
    BY <1>1, <1>2, <1>3, <1>4, <1>10, <1>11, <2>1 DEF CoversNothing
<1>12. CASE ~(left <= 0 \/ n = 0)
  <2>1. n \in Nat \ {0} /\ left > 0
    BY <1>4, <1>8, <1>12
  <2>2. CASE Closes(o, n, position[Owner(o)]) /\ <<o, 0>> \notin DOMAIN applied
    <3>1. CoversPart(o, n)
      <4>1. n <= Covered(gap, signed) /\ n <= left
        BY <1>7, <1>9, <2>1
      <4> QED
        BY <1>3, <1>4, <1>5, <1>6, <1>10, <1>12, <2>2, <4>1 DEF CoversPart
    <3> QED
      BY <1>1, <1>2, <2>1, <3>1
  <2>3. CASE ~(Closes(o, n, position[Owner(o)]) /\ <<o, 0>> \notin DOMAIN applied)
    BY <1>1, <1>2, <1>10, <1>12, <2>3 DEF CoversNothing
  <2> QED
    BY <2>2, <2>3
<1> QED
  BY <1>11, <1>12

\* The two outcomes of a fill from the exchange: refused, or stored.
Refuses(r) ==
  /\ \E why \in {"order size", "reduce-only"} : Step(r, [rec[r] EXCEPT !.pc = "error", !.why = why])
  /\ UNCHANGED <<order, applied, position, ledger, event, over>>
Stores(r, o, k) ==
  /\ k \in Unapplied(r) /\ \A j \in Unapplied(r) : k <= j
  /\ order[o].size - order[o].filled >= 1 /\ (ReduceOnly(o) => Closes(o, 1, position[Owner(o)]))
  /\ ApplyFill(o, <<o, k>>, 1) /\ UNCHANGED rec

LEMMA ApplyCases ==
  ASSUME Typed, NEW r \in Recs, RecApply(r)
  PROVE  /\ rec[r].pc = "apply" /\ rec[r].order \in Orders
         /\ UNCHANGED <<provider, exchange, queue, place, budget>>
         /\ \/ /\ Refuses(r)
               /\ Kind(rec[r].order) = "OPEN" =>
                    order[rec[r].order].size - order[rec[r].order].filled < 1
            \/ \E k \in Nat : Stores(r, rec[r].order, k)
<1>1. rec[r].pc = "apply" /\ UNCHANGED <<provider, exchange, queue, place, budget>> /\ Unapplied(r) # {}
  BY DEF RecApply
<1>2. PICK o \in Orders : o = rec[r].order
  BY <1>1 DEF Typed
<1>3. PICK side \in {1, -1}, size \in Nat, filled \in Nat :
        side = order[o].side /\ size = order[o].size /\ filled = order[o].filled
  BY DEF Typed, OrderRow
<1>4. PICK k : k = Min(Unapplied(r))
  OBVIOUS
<1>5. k \in Unapplied(r) /\ k \in Nat /\ \A j \in Unapplied(r) : k <= j
  <2>1. rec[r].n \in Nat
    BY DEF Typed, Visit
  <2>2. Unapplied(r) \in SUBSET Nat
    BY <2>1 DEF Unapplied
  <2>3. \E m \in Unapplied(r) : \A j \in Unapplied(r) : m <= j
    BY <1>1, <2>2, LeastNumber
  <2>4. k = CHOOSE m \in Unapplied(r) : \A j \in Unapplied(r) : m <= j
    BY <1>4 DEF Min
  <2> QED
    BY <2>2, <2>3, <2>4
<1>6. IF size - filled < 1
      THEN /\ Step(r, [rec[r] EXCEPT !.pc = "error", !.why = "order size"])
           /\ UNCHANGED <<order, applied, position, ledger, event, over>>
      ELSE IF ReduceOnly(o) /\ ~Closes(o, 1, position[Owner(o)])
      THEN /\ Step(r, [rec[r] EXCEPT !.pc = "error", !.why = "reduce-only"])
           /\ UNCHANGED <<order, applied, position, ledger, event, over>>
      ELSE ApplyFill(o, <<o, k>>, 1) /\ UNCHANGED rec
  BY <1>2, <1>3, <1>4 DEF RecApply
<1>7. CASE size - filled < 1
  BY <1>1, <1>2, <1>3, <1>6, <1>7 DEF Refuses
<1>8. CASE ~(size - filled < 1) /\ ReduceOnly(o) /\ ~Closes(o, 1, position[Owner(o)])
  BY <1>1, <1>2, <1>3, <1>6, <1>8 DEF Refuses, ReduceOnly
<1>9. CASE ~(size - filled < 1) /\ ~(ReduceOnly(o) /\ ~Closes(o, 1, position[Owner(o)]))
  <2>1. size - filled >= 1
    BY <1>3, <1>9
  <2>2. Stores(r, o, k)
    BY <1>3, <1>5, <1>6, <1>9, <2>1 DEF Stores
  <2> QED
    BY <1>1, <1>2, <1>5, <2>2
<1> QED
  BY <1>7, <1>8, <1>9

\* A reconciliation writes down what it knows.
LEMMA VisitTyped ==
  ASSUME Typed, NEW r \in Recs, NEW v \in Visit, v.pc # "idle" => v.order \in Orders, Step(r, v)
  PROVE  rec' \in [Recs -> Visit] /\ \A q \in Recs : rec'[q].pc # "idle" => rec'[q].order \in Orders
  BY DEF Typed, Step

LEMMA IdleTyped == Idle \in Visit /\ Idle.pc = "idle"
  BY DEF Idle, Visit

LEMMA LeaveTyped ==
  ASSUME Typed, Leave
  PROVE  queue' \subseteq Orders /\ place' \in Placement /\ place'.pc = "free"
  BY DEF Typed, Leave, Free, Placement

LEMMA DoneTyped ==
  ASSUME Typed, NEW r \in Recs, Done(r)
  PROVE  /\ rec' \in [Recs -> Visit] /\ \A q \in Recs : rec'[q].pc # "idle" => rec'[q].order \in Orders
         /\ queue' \subseteq Orders /\ place' \in Placement /\ (place'.pc # "free" => place'.order \in Orders)
<1>1. rec' \in [Recs -> Visit] /\ \A q \in Recs : rec'[q].pc # "idle" => rec'[q].order \in Orders
  BY IdleTyped, VisitTyped DEF Done
<1>2. queue' \subseteq Orders /\ place' \in Placement /\ (place'.pc # "free" => place'.order \in Orders)
  BY LeaveTyped DEF Done, Typed
<1> QED
  BY <1>1, <1>2

LEMMA BornType == Born \in Nat
<1>1. IsFiniteSet({o \in Orders : order[o].born > 0})
  BY Attributes, FS_Subset
<1>2. Cardinality({o \in Orders : order[o].born > 0}) \in Nat
  BY <1>1, FS_CardinalityType
<1> QED
  BY <1>2 DEF Born

LEMMA SnapshotType ==
  ASSUME Typed, NEW o \in Orders
  PROVE  /\ Snapshot(o) \in {"UNKNOWN", "OPEN", "FILLED", "CANCELLED", "REJECTED"}
         /\ Snapshot(o) = "FILLED" => exchange[o].status = "filled"
         /\ Snapshot(o) = "CANCELLED" => exchange[o].status = "canceled"
         /\ Snapshot(o) = "REJECTED" => exchange[o].status = "rejected"
<1>1. exchange[o].status \in {"NONE", "open", "filled", "canceled", "rejected"}
  BY DEF Typed, AtExchange
<1> QED
  BY <1>1 DEF Snapshot

\* What a reconciliation has after it began, or has it done already.
Begun(r, o) ==
  \/ /\ Done(r)
     /\ \/ provider[o].status = "FILLED"
        \/ provider[o].status \in {"CANCELLED", "FAILED"}
  \/ /\ UNCHANGED <<place, queue>>
     /\ \E v \in Visit :
          /\ Step(r, v) /\ v.order = o /\ v.base = order[o].filled /\ v.n \in {0, exchange[o].got} /\ v.why = "NONE"
          /\ \/ v.pc = "release" /\ v.snap = "TERMINAL" /\ provider[o].rejected
             \/ v.pc = "ask-snap" /\ v.snap = "NONE"
             \/ v.pc = "ask-fills" /\ v.snap = Snapshot(o)

LEMMA BeginCases ==
  ASSUME Typed, NEW r \in Recs, NEW o \in Orders, RecBegin(r, o)
  PROVE  UNCHANGED <<order, provider, exchange, applied, position, ledger, event, over, budget>> /\ Begun(r, o)
<1>1. UNCHANGED <<order, provider, exchange, applied, position, ledger, event, over, budget>>
  BY DEF RecBegin
<1>2. PICK row : row = [Idle EXCEPT !.order = o, !.base = order[o].filled, !.id = provider[o].id]
  OBVIOUS
<1>3. PICK id \in BOOLEAN : id = provider[o].id
  BY DEF Typed, ProviderRow
<1>4. PICK base \in Nat, got \in Nat : base = order[o].filled /\ got = exchange[o].got
  BY DEF Typed, OrderRow, AtExchange
<1>5. row = [pc |-> "idle", order |-> o, base |-> base, id |-> id, snap |-> "NONE", n |-> 0, why |-> "NONE"]
  BY <1>2, <1>3, <1>4 DEF Idle
<1>6. \/ /\ Done(r)
         /\ \/ provider[o].status = "FILLED"
            \/ provider[o].status \in {"CANCELLED", "FAILED"}
      \/ /\ UNCHANGED <<place, queue>>
         /\ \/ provider[o].rejected /\ Step(r, [row EXCEPT !.pc = "release", !.snap = "TERMINAL"])
            \/ Step(r, [row EXCEPT !.pc = "ask-snap", !.n = got])
            \/ Step(r, [row EXCEPT !.pc = "ask-fills", !.snap = Snapshot(o)])
  BY <1>2, <1>4 DEF RecBegin
<1>7. CASE Done(r) /\ provider[o].status \in {"FILLED", "CANCELLED", "FAILED"}
  BY <1>1, <1>7 DEF Begun
<1>8. CASE UNCHANGED <<place, queue>> /\ provider[o].rejected /\ Step(r, [row EXCEPT !.pc = "release", !.snap = "TERMINAL"])
  <2>1. PICK v : v = [row EXCEPT !.pc = "release", !.snap = "TERMINAL"]
    OBVIOUS
  <2>2. v \in Visit /\ v.order = o /\ v.base = base /\ v.n = 0 /\ v.why = "NONE" /\ v.pc = "release" /\ v.snap = "TERMINAL"
    BY <1>3, <1>4, <1>5, <2>1 DEF Visit
  <2> QED
    BY <1>1, <1>4, <1>8, <2>1, <2>2 DEF Begun
<1>9. CASE UNCHANGED <<place, queue>> /\ Step(r, [row EXCEPT !.pc = "ask-snap", !.n = got])
  <2>1. PICK v : v = [row EXCEPT !.pc = "ask-snap", !.n = got]
    OBVIOUS
  <2>2. v \in Visit /\ v.order = o /\ v.base = base /\ v.n = got /\ v.why = "NONE" /\ v.pc = "ask-snap" /\ v.snap = "NONE"
    BY <1>3, <1>4, <1>5, <2>1 DEF Visit
  <2> QED
    BY <1>1, <1>4, <1>9, <2>1, <2>2 DEF Begun
<1>10. CASE UNCHANGED <<place, queue>> /\ Step(r, [row EXCEPT !.pc = "ask-fills", !.snap = Snapshot(o)])
  <2>1. PICK v : v = [row EXCEPT !.pc = "ask-fills", !.snap = Snapshot(o)]
    OBVIOUS
  <2>2. v \in Visit /\ v.order = o /\ v.base = base /\ v.n = 0 /\ v.why = "NONE" /\ v.pc = "ask-fills" /\ v.snap = Snapshot(o)
    BY <1>3, <1>4, <1>5, <2>1, SnapshotType DEF Visit
  <2> QED
    BY <1>1, <1>4, <1>10, <2>1, <2>2 DEF Begun
<1> QED
  BY <1>1, <1>6, <1>7, <1>8, <1>9, <1>10

LEMMA OrderTypes == Typed => \A o \in Orders :
  /\ order[o] \in OrderRow /\ provider[o] \in ProviderRow /\ exchange[o] \in AtExchange
  /\ Owner(o) \in Users /\ order[o].size \in Nat \ {0} /\ order[o].filled \in Nat /\ order[o].side \in {1, -1}
  BY DEF Typed, OrderRow, Owner

LEMMA RowStatus ==
  ASSUME Typed, NEW o \in Orders, NEW st \in Statuses
  PROVE  [order EXCEPT ![o].status = st] \in [Orders -> OrderRow]
<1>1. order \in [Orders -> OrderRow] /\ order[o] \in OrderRow
  BY DEF Typed
<1>2. [order[o] EXCEPT !.status = st] \in OrderRow
  BY <1>1 DEF OrderRow
<1>3. [order EXCEPT ![o].status = st] = [order EXCEPT ![o] = [order[o] EXCEPT !.status = st]]
  BY <1>1
<1> QED
  BY <1>1, <1>2, <1>3

LEMMA RowBorn ==
  ASSUME Typed, NEW o \in Orders, NEW st \in Statuses, NEW b \in Nat
  PROVE  [order EXCEPT ![o].status = st, ![o].born = b] \in [Orders -> OrderRow]
<1>1. order \in [Orders -> OrderRow] /\ order[o] \in OrderRow
  BY DEF Typed
<1>2. [order[o] EXCEPT !.status = st, !.born = b] \in OrderRow
  BY <1>1 DEF OrderRow
<1>3. [order EXCEPT ![o].status = st, ![o].born = b] = [order EXCEPT ![o] = [order[o] EXCEPT !.status = st, !.born = b]]
  BY <1>1
<1> QED
  BY <1>1, <1>2, <1>3

LEMMA RowSized ==
  ASSUME Typed, NEW o \in Orders, NEW st \in Statuses, NEW b \in Nat, NEW side \in {1, -1}, NEW size \in Nat \ {0}
  PROVE  [order EXCEPT ![o] = [order[o] EXCEPT !.side = side, !.size = size, !.status = st, !.born = b]] \in [Orders -> OrderRow]
<1>1. order \in [Orders -> OrderRow] /\ order[o] \in OrderRow
  BY DEF Typed
<1>2. [order[o] EXCEPT !.side = side, !.size = size, !.status = st, !.born = b] \in OrderRow
  BY <1>1 DEF OrderRow
<1> QED
  BY <1>1, <1>2

LEMMA RowRejected ==
  ASSUME Typed, NEW o \in Orders, NEW st \in {"PENDING", "FILLED"}, NEW t \in BOOLEAN
  PROVE  [provider EXCEPT ![o].status = st, ![o].rejected = t] \in [Orders -> ProviderRow]
<1>1. provider \in [Orders -> ProviderRow] /\ provider[o] \in ProviderRow
  BY DEF Typed
<1>2. [provider[o] EXCEPT !.status = st, !.rejected = t] \in ProviderRow
  BY <1>1 DEF ProviderRow
<1>3. [provider EXCEPT ![o].status = st, ![o].rejected = t] = [provider EXCEPT ![o] = [provider[o] EXCEPT !.status = st, !.rejected = t]]
  BY <1>1
<1> QED
  BY <1>1, <1>2, <1>3

LEMMA TypeStep ==
  ASSUME Typed, KeysOk, \A r \in Recs : VisitOk(r), Next
  PROVE  Typed'
<1> USE DEF IsLedger
<1>l. IsLedger(ledger)
  BY DEF Typed
<1>v. \A r \in Recs : VisitOk(r)
  OBVIOUS
<1>s. \A st \in Live \cup {"NEW", "ASKED", "JOINED", "GONE", "FILLED", "CANCELLED", "FAILED"} : st \in Statuses
  BY DEF Statuses
<1>1. ASSUME NEW o \in Orders, CreateOpen(o)
      PROVE  Typed'
  <2>1. order' \in [Orders -> OrderRow]
    <3>1. PICK b \in Nat : b = Born
      BY BornType
    <3> QED
      BY <1>1, <1>s, <3>1, RowBorn DEF CreateOpen, Live
  <2>2. IsLedger(ledger')
    <3>1. PICK n \in Int : n = order[o].size
      BY OrderTypes
    <3>2. ledger' = PostTo(ledger, <<"reserve", o>>, Owner(o), n) /\ Owner(o) \in Users
      BY <1>1, <3>1, OrderTypes DEF CreateOpen
    <3>3. Posting(ledger, <<"reserve", o>>, Owner(o), n, ledger')
      BY <1>l, <3>1, <3>2, PostChange
    <3> QED
      BY <3>3 DEF Posting
  <2> QED
    BY <1>1, <2>1, <2>2 DEF CreateOpen, Typed
<1>2. ASSUME NEW o \in Orders, CloseAsk(o)
      PROVE  Typed'
  <2>1. PICK side \in {1, -1} : side = IF position[Owner(o)] > 0 THEN -1 ELSE 1
    OBVIOUS
  <2>2. PICK size \in Nat \ {0} : size = Abs(position[Owner(o)])
    <3>1. position[Owner(o)] \in Int /\ position[Owner(o)] # 0
      BY <1>2, OrderTypes DEF CloseAsk, Typed
    <3> QED
      BY <3>1 DEF Abs
  <2>3. PICK st \in Statuses : st = IF ActiveClose(Owner(o)) THEN "JOINED" ELSE "ASKED"
    BY DEF Statuses
  <2>4. order' = [order EXCEPT ![o] = [order[o] EXCEPT !.side = side, !.size = size, !.status = st]]
    BY <1>2, <2>1, <2>2, <2>3 DEF CloseAsk
  <2>5. order' \in [Orders -> OrderRow]
    <3>1. order \in [Orders -> OrderRow] /\ order[o] \in OrderRow
      BY <1>2 DEF Typed
    <3>2. [order[o] EXCEPT !.side = side, !.size = size, !.status = st] \in OrderRow
      BY <3>1 DEF OrderRow
    <3> QED
      BY <2>4, <3>1, <3>2
  <2> QED
    BY <1>2, <2>5 DEF CloseAsk, Typed
<1>3. ASSUME NEW o \in Orders, CloseCreate(o)
      PROVE  Typed'
  <2>1. order' \in [Orders -> OrderRow]
    <3>1. PICK b \in Nat : b = Born
      BY BornType
    <3> QED
      BY <1>3, <1>s, <3>1, RowBorn DEF CloseCreate, Live
  <2> QED
    BY <1>3, <2>1 DEF CloseCreate, Typed
<1>4. ASSUME NEW o \in Orders, LiquidationRefused(o)
      PROVE  Typed'
  <2>1. order' \in [Orders -> OrderRow]
    BY <1>4 DEF LiquidationRefused, Typed, OrderRow, Statuses
  <2> QED
    BY <1>4, <2>1 DEF LiquidationRefused, Typed
<1>5. ASSUME NEW o \in Orders, CreateTrigger(o)
      PROVE  Typed'
  <2>1. PICK side \in {1, -1} : side = IF position[Owner(o)] > 0 THEN -1 ELSE 1
    OBVIOUS
  <2>2. PICK size \in Nat \ {0} : size = Abs(position[Owner(o)])
    <3>1. position[Owner(o)] \in Int /\ position[Owner(o)] # 0
      BY <1>5, OrderTypes DEF CreateTrigger, Typed
    <3> QED
      BY <3>1 DEF Abs
  <2>3. PICK born \in Nat : born = Born
    BY BornType
  <2>4. order' = [order EXCEPT ![o] = [order[o] EXCEPT !.side = side, !.size = size, !.status = "OPEN", !.born = born]]
    BY <1>5, <2>1, <2>2, <2>3 DEF CreateTrigger
  <2>5. order' \in [Orders -> OrderRow]
    BY <1>s, <2>4, RowSized DEF Live
  <2> QED
    BY <1>5, <2>5 DEF CreateTrigger, Typed
<1>6. ASSUME NEW o \in Orders, FireTrigger(o)
      PROVE  Typed'
  <2>1. order' \in [Orders -> OrderRow] /\ queue' \subseteq Orders
    <3>1. CASE position[Owner(o)] = 0
      <4>1. order' = [order EXCEPT ![o].status = "CANCELLED"] /\ queue' = queue
        BY <1>6, <3>1 DEF FireTrigger
      <4>2. order' \in [Orders -> OrderRow]
        BY <1>s, <4>1, RowStatus
      <4> QED
        BY <4>1, <4>2 DEF Typed
    <3>2. CASE position[Owner(o)] # 0
      <4>1. order' = [x \in Orders |->
                 IF x = o THEN [order[x] EXCEPT !.status = "ROUTED"]
                 ELSE IF Owner(x) = Owner(o) /\ Kind(x) = "TRIGGER" /\ order[x].status = "OPEN"
                 THEN [order[x] EXCEPT !.status = "CANCELLED"] ELSE order[x]]
        BY <1>6, <3>2 DEF FireTrigger
      <4>2. \A x \in Orders : [order[x] EXCEPT !.status = "ROUTED"] \in OrderRow /\ [order[x] EXCEPT !.status = "CANCELLED"] \in OrderRow
        BY DEF Typed, OrderRow, Statuses, Live
      <4>3. order' \in [Orders -> OrderRow]
        BY <4>1, <4>2, OrderTypes DEF Typed
      <4> QED
        BY <1>6, <3>2, <4>3 DEF FireTrigger, Typed
    <3> QED
      BY <3>1, <3>2
  <2> QED
    BY <1>6, <2>1 DEF FireTrigger, Typed
<1>7. ASSUME NEW o \in Orders, PlaceBegin(o)
      PROVE  Typed'
  <2>1. UNCHANGED <<exchange, applied, position, event, rec, over, budget>>
    BY <1>7 DEF PlaceBegin
  <2>2. CASE /\ place' = [Free EXCEPT !.order = o, !.left = order[o].size, !.pc = IF ReduceOnly(o) THEN "see" ELSE "row"]
             /\ UNCHANGED <<order, provider, ledger, queue>>
    <3>1. PICK pc \in {"see", "row"} : pc = IF ReduceOnly(o) THEN "see" ELSE "row"
      OBVIOUS
    <3>2. PICK size \in Nat : size = order[o].size
      BY OrderTypes
    <3>3. place' = [pc |-> pc, order |-> o, seen |-> 0, left |-> size]
      BY <2>2, <3>1, <3>2 DEF Free
    <3>4. place' \in Placement /\ place'.order \in Orders
      BY <3>3 DEF Placement
    <3> QED
      BY <2>1, <2>2, <3>4 DEF Typed
  <2>3. CASE /\ order' = [order EXCEPT ![o].status = "FAILED"]
             /\ provider' = IF provider[o].status = "NONE" THEN provider ELSE [provider EXCEPT ![o].status = "FAILED"]
             /\ ledger' = IF ReduceOnly(o) THEN ledger ELSE PostTo(ledger, <<"fail", o>>, Owner(o), -order[o].size)
             /\ queue' = queue \ {o} /\ UNCHANGED place
    <3>1. order' \in [Orders -> OrderRow]
      BY <2>3 DEF Typed, OrderRow, Statuses
    <3>2. provider' \in [Orders -> ProviderRow]
      <4>1. [provider EXCEPT ![o].status = "FAILED"] \in [Orders -> ProviderRow]
        BY DEF Typed, ProviderRow
      <4> QED
        BY <2>3, <4>1 DEF Typed
    <3>3. IsLedger(ledger')
      <4>1. PICK n \in Int : n = -order[o].size
        BY OrderTypes
      <4>2. CASE ReduceOnly(o)
        BY <1>l, <2>3, <4>2
      <4>3. CASE ~ReduceOnly(o)
        <5>1. Posting(ledger, <<"fail", o>>, Owner(o), n, ledger')
          BY <1>l, <2>3, <4>1, <4>3, OrderTypes, PostChange
        <5> QED
          BY <5>1 DEF Posting
      <4> QED
        BY <4>2, <4>3
    <3> QED
      BY <2>1, <2>3, <3>1, <3>2, <3>3 DEF Typed
  <2> QED
    BY <1>7, <2>2, <2>3 DEF PlaceBegin
<1>8. ASSUME NEW o \in Orders, ExchangeFill(o) \/ ExchangeEnd(o)
      PROVE  Typed'
  <2>1. exchange' \in [Orders -> AtExchange]
    <3>1. CASE ExchangeFill(o)
      <4>1. PICK got \in Nat : got = exchange[o].got
        BY OrderTypes DEF AtExchange
      <4>2. PICK st \in {"filled", "open"} : st = IF got + 1 = exchange[o].sent THEN "filled" ELSE "open"
        OBVIOUS
      <4>3. exchange' = [exchange EXCEPT ![o] = [exchange[o] EXCEPT !.got = got + 1, !.status = st]]
        BY <3>1, <4>1, <4>2 DEF ExchangeFill, Typed
      <4>n. got + 1 \in Nat
        OBVIOUS
      <4>4. exchange[o] \in AtExchange /\ [exchange[o] EXCEPT !.got = got + 1, !.status = st] \in AtExchange
        BY <4>n, OrderTypes DEF AtExchange
      <4> QED
        BY <4>3, <4>4 DEF Typed
    <3>2. CASE ExchangeEnd(o)
      <4>1. PICK s \in {"filled", "canceled"} : exchange' = [exchange EXCEPT ![o].status = s]
        BY <3>2 DEF ExchangeEnd
      <4> QED
        BY <4>1 DEF Typed, AtExchange
    <3> QED
      BY <1>8, <3>1, <3>2
  <2> QED
    BY <1>8, <2>1 DEF ExchangeFill, ExchangeEnd, Typed
<1>9. ASSUME NEW r \in Recs, NEW o \in Orders, RecBegin(r, o)
      PROVE  Typed'
  <2>1. UNCHANGED <<order, provider, exchange, applied, position, ledger, event, over, budget>> /\ Begun(r, o)
    BY <1>9, BeginCases
  <2>2. CASE Done(r)
    BY <2>1, <2>2, DoneTyped DEF Typed
  <2>3. CASE UNCHANGED <<place, queue>> /\ \E v \in Visit : Step(r, v) /\ v.order = o
    BY <2>1, <2>3, VisitTyped DEF Typed
  <2> QED
    BY <2>1, <2>2, <2>3 DEF Begun
<1>10. ASSUME NEW o \in Orders, CancelAsk(o)
       PROVE  Typed'
  <2>1. PICK v : v = [Idle EXCEPT !.pc = "cancel", !.order = o, !.id = provider[o].status # "NONE"]
    OBVIOUS
  <2>2. v \in Visit /\ v.order = o
    BY <2>1 DEF Idle, Visit
  <2>3. Step("user", v) /\ "user" \in Recs
    BY <1>10, <2>1 DEF CancelAsk, Recs
  <2> QED
    BY <1>10, <2>2, <2>3, VisitTyped DEF CancelAsk, Typed
<1>11. ASSUME PlaceSee
       PROVE  Typed'
  <2>1. place' \in Placement /\ place'.order = place.order /\ place.pc = "see"
    BY <1>11, PositionsAdd DEF PlaceSee, Typed, Placement
  <2> QED
    BY <1>11, <2>1 DEF PlaceSee, Typed
<1>12. ASSUME PlaceCover
       PROVE  Typed'
  <2>1. PICK o \in Orders : o = place.order
    BY <1>12, CoverCases
  <2>2. place.pc = "cover" /\ UNCHANGED <<provider, exchange, rec, budget>> /\ (CoversNothing(o) \/ \E n \in Nat \ {0} : CoversPart(o, n))
    BY <1>12, <2>1, CoverCases
  <2>3. PICK size \in Nat, filled \in Nat : size = order[o].size /\ filled = order[o].filled
    BY OrderTypes
  <2>4. CASE CoversNothing(o)
    <3>1. UNCHANGED <<order, applied, position, ledger, event, over>>
      BY <2>4 DEF CoversNothing
    <3>2. CASE Leave
      BY <2>2, <3>1, <3>2, LeaveTyped DEF Typed
    <3>3. CASE place' = [place EXCEPT !.pc = "row", !.left = size - filled] /\ filled < size /\ UNCHANGED queue
      <4>1. size - filled \in Nat
        BY <2>3, <3>3
      <4>2. place' \in Placement /\ place'.order = o
        BY <2>1, <3>3, <4>1 DEF Typed, Placement
      <4> QED
        BY <2>2, <3>1, <3>3, <4>2 DEF Typed
    <3> QED
      BY <2>3, <2>4, <3>2, <3>3 DEF CoversNothing
  <2>5. ASSUME NEW n \in Nat \ {0}, CoversPart(o, n)
        PROVE  Typed'
    <3>1. queue' \subseteq Orders /\ place' \in Placement /\ (place'.pc # "free" => place'.order \in Orders)
      <4>1. CASE Leave
        BY <4>1, LeaveTyped
      <4>2. CASE place' = [place EXCEPT !.pc = "row", !.left = size - filled - n] /\ UNCHANGED queue
        <5>1. size - filled - n \in Nat
          BY <2>3, <2>5 DEF CoversPart
        <5> QED
          BY <2>1, <4>2, <5>1 DEF Typed, Placement
      <4> QED
        BY <2>3, <2>5, <4>1, <4>2 DEF CoversPart
    <3>2. 0 \in Nat /\ ApplyFill(o, <<o, 0>>, n) /\ <<o, 0>> \notin DOMAIN applied
      BY <2>5 DEF CoversPart
    <3> QED
      BY <2>2, <3>1, <3>2, FillType
  <2> QED
    BY <2>2, <2>4, <2>5
<1>13. ASSUME PlaceRow
       PROVE  Typed'
  <2>1. PICK o \in Orders : o = place.order /\ place.pc = "row"
    BY <1>13 DEF PlaceRow, Typed
  <2>2. CASE provider[o].status # "NONE"
    BY <1>13, <2>1, <2>2, LeaveTyped DEF PlaceRow, Typed
  <2>3. CASE provider[o].status = "NONE"
    <3>1. provider' \in [Orders -> ProviderRow]
      <4>1. provider' = [provider EXCEPT ![o].status = "PENDING"]
        BY <1>13, <2>1, <2>3 DEF PlaceRow
      <4> QED
        BY <4>1 DEF Typed, ProviderRow
    <3>2. order' \in [Orders -> OrderRow]
      <4>1. order' = [order EXCEPT ![o].status = "PROVIDER_PENDING"]
        BY <1>13, <2>1, <2>3 DEF PlaceRow
      <4> QED
        BY <1>s, <4>1, RowStatus DEF Live
    <3>3. place' \in Placement /\ place'.order = o
      BY <1>13, <2>1, <2>3 DEF PlaceRow, Typed, Placement
    <3> QED
      BY <1>13, <2>1, <2>3, <3>1, <3>2, <3>3 DEF PlaceRow, Typed
  <2> QED
    BY <2>2, <2>3
<1>14. ASSUME PlaceSend
       PROVE  Typed'
  <2>1. PICK o \in Orders : o = place.order /\ place.pc = "send"
    BY <1>14 DEF PlaceSend, Typed
  <2>2. PICK left \in Nat : left = place.left
    BY DEF Typed, Placement
  <2>3. UNCHANGED <<applied, position, ledger, event, over>>
    BY <1>14 DEF PlaceSend
  <2>4. CASE /\ exchange' = [exchange EXCEPT ![o] = [status |-> "open", sent |-> left, got |-> 0]]
             /\ provider' = [provider EXCEPT ![o] = [status |-> "PENDING", id |-> TRUE, rejected |-> FALSE]]
             /\ place' = [place EXCEPT !.pc = "sync"] /\ UNCHANGED <<order, queue, rec, budget>>
    <3>1. exchange' \in [Orders -> AtExchange]
      BY <2>4 DEF Typed, AtExchange
    <3>2. provider' \in [Orders -> ProviderRow]
      BY <2>4 DEF Typed, ProviderRow
    <3>3. place' \in Placement /\ place'.order = o
      BY <2>1, <2>4 DEF Typed, Placement
    <3> QED
      BY <2>3, <2>4, <3>1, <3>2, <3>3 DEF Typed
  <2>5. CASE /\ exchange' = [exchange EXCEPT ![o].status = "rejected"]
             /\ rec' = [rec EXCEPT !["place"] = [Idle EXCEPT !.pc = "release", !.order = o, !.base = order[o].filled,
                                                             !.snap = "TERMINAL"]]
             /\ provider' = [provider EXCEPT ![o].status = "PENDING"]
             /\ place' = [place EXCEPT !.pc = "sync"] /\ UNCHANGED <<order, queue, budget>>
    <3>1. exchange' \in [Orders -> AtExchange]
      BY <2>5 DEF Typed, AtExchange
    <3>2. provider' \in [Orders -> ProviderRow]
      BY <2>5 DEF Typed, ProviderRow
    <3>3. place' \in Placement /\ place'.order = o
      BY <2>1, <2>5 DEF Typed, Placement
    <3>4. PICK v : v = [Idle EXCEPT !.pc = "release", !.order = o, !.base = order[o].filled, !.snap = "TERMINAL"]
      OBVIOUS
    <3>5. v \in Visit /\ v.order = o
      BY <3>4, OrderTypes DEF Idle, Visit
    <3>6. Step("place", v) /\ "place" \in Recs
      BY <2>5, <3>4 DEF Step, Recs
    <3>7. rec' \in [Recs -> Visit] /\ \A q \in Recs : rec'[q].pc # "idle" => rec'[q].order \in Orders
      BY <3>5, <3>6, VisitTyped
    <3> QED
      BY <2>3, <2>5, <3>1, <3>2, <3>3, <3>7 DEF Typed
  <2>6. CASE /\ \/ exchange' = [exchange EXCEPT ![o] = [status |-> "open", sent |-> left, got |-> 0]]
                \/ UNCHANGED exchange
             /\ provider' = [provider EXCEPT ![o].status = "PENDING", ![o].rejected = FALSE]
             /\ order' = [order EXCEPT ![o].status = "PROVIDER_PENDING"]
             /\ Leave /\ UNCHANGED rec
    <3>1. exchange' \in [Orders -> AtExchange]
      BY <2>6 DEF Typed, AtExchange
    <3>2. provider' \in [Orders -> ProviderRow]
      BY <2>6, RowRejected
    <3>3. order' \in [Orders -> OrderRow]
      <4>1. "PROVIDER_PENDING" \in Statuses
        BY DEF Statuses, Live
      <4> QED
        BY <2>6, <4>1, RowStatus
    <3> QED
      BY <2>3, <2>6, <3>1, <3>2, <3>3, LeaveTyped DEF Typed
  <2> QED
    BY <1>14, <2>1, <2>2, <2>4, <2>5, <2>6 DEF PlaceSend
<1>15. ASSUME CancelAtProvider
       PROVE  Typed'
  <2>1. PICK o \in Orders : o = rec["user"].order
    BY <1>15 DEF CancelAtProvider, Typed, Recs
  <2>2. provider' \in [Orders -> ProviderRow]
    BY <1>15, <2>1, RowRejected DEF CancelAtProvider
  <2>3. exchange' \in [Orders -> AtExchange]
    <3>1. PICK s \in {"filled", "canceled"} : s = IF exchange[o].got > 0 THEN "filled" ELSE "canceled"
      OBVIOUS
    <3>2. exchange' = exchange \/ exchange' = [exchange EXCEPT ![o].status = s]
      BY <1>15, <2>1, <3>1 DEF CancelAtProvider
    <3> QED
      BY <3>2 DEF Typed, AtExchange
  <2>4. PICK v \in Visit : Step("user", v) /\ (v.pc # "idle" => v.order = o)
    <3>1. CASE Step("user", Idle)
      BY <3>1, IdleTyped
    <3>2. CASE Step("user", [Idle EXCEPT !.pc = "cancelled", !.order = o])
      <4>1. [Idle EXCEPT !.pc = "cancelled", !.order = o] \in Visit
        BY DEF Idle, Visit
      <4>2. [Idle EXCEPT !.pc = "cancelled", !.order = o].order = o
        BY DEF Idle
      <4> QED
        BY <3>2, <4>1, <4>2
    <3> QED
      BY <1>15, <2>1, <3>1, <3>2 DEF CancelAtProvider
  <2>5. rec' \in [Recs -> Visit] /\ \A q \in Recs : rec'[q].pc # "idle" => rec'[q].order \in Orders
    BY <2>4, VisitTyped DEF Recs
  <2> QED
    BY <1>15, <2>2, <2>3, <2>5 DEF CancelAtProvider, Typed
<1>16. ASSUME CancelWrite
       PROVE  Typed'
  <2>1. PICK o \in Orders : o = rec["user"].order
    BY <1>16 DEF CancelWrite, Typed, Recs
  <2>2. order' \in [Orders -> OrderRow]
    BY <1>16, <1>s, <2>1, RowStatus DEF CancelWrite
  <2>3. IsLedger(ledger')
    <3>1. PICK n \in Int : n = -order[o].size
      BY OrderTypes
    <3>2. CASE ReduceOnly(o)
      BY <1>16, <1>l, <2>1, <3>2 DEF CancelWrite
    <3>3. CASE ~ReduceOnly(o)
      <4>1. Posting(ledger, <<"fail", o>>, Owner(o), n, ledger')
        BY <1>16, <1>l, <2>1, <3>1, <3>3, OrderTypes, PostChange DEF CancelWrite
      <4> QED
        BY <4>1 DEF Posting
    <3> QED
      BY <3>2, <3>3
  <2>4. rec' \in [Recs -> Visit] /\ \A q \in Recs : rec'[q].pc # "idle" => rec'[q].order \in Orders
    BY <1>16, IdleTyped, VisitTyped DEF CancelWrite, Recs
  <2> QED
    BY <1>16, <2>2, <2>3, <2>4 DEF CancelWrite, Typed
<1>17. ASSUME NEW r \in Recs, RecAsk(r) \/ RecAskFails(r)
       PROVE  Typed'
  <2>1. PICK o \in Orders : o = rec[r].order
    BY <1>17 DEF RecAsk, RecAskFails, Typed
  <2>2. PICK v \in Visit : Step(r, v) /\ v.order = o
    <3>1. rec[r] \in Visit /\ rec[r].order = o
      BY <2>1 DEF Typed
    <3>2. CASE Step(r, [rec[r] EXCEPT !.pc = "apply", !.snap = Snapshot(o)])
      <4>1. [rec[r] EXCEPT !.pc = "apply", !.snap = Snapshot(o)] \in Visit
        BY <3>1, SnapshotType DEF Visit
      <4>2. [rec[r] EXCEPT !.pc = "apply", !.snap = Snapshot(o)].order = o
        BY <3>1 DEF Visit
      <4> QED
        BY <3>2, <4>1, <4>2
    <3>3. CASE Step(r, [rec[r] EXCEPT !.pc = "apply", !.n = exchange[o].got])
      <4>0. exchange[o].got \in Nat
        BY OrderTypes DEF AtExchange
      <4>1. [rec[r] EXCEPT !.pc = "apply", !.n = exchange[o].got] \in Visit
        BY <3>1, <4>0 DEF Visit
      <4>2. [rec[r] EXCEPT !.pc = "apply", !.n = exchange[o].got].order = o
        BY <3>1 DEF Visit
      <4> QED
        BY <3>3, <4>1, <4>2
    <3>4. CASE Step(r, [rec[r] EXCEPT !.pc = "error", !.why = "other"])
      <4>1. [rec[r] EXCEPT !.pc = "error", !.why = "other"] \in Visit
        BY <3>1 DEF Visit
      <4>2. [rec[r] EXCEPT !.pc = "error", !.why = "other"].order = o
        BY <3>1 DEF Visit
      <4> QED
        BY <3>4, <4>1, <4>2
    <3> QED
      BY <1>17, <2>1, <3>2, <3>3, <3>4 DEF RecAsk, RecAskFails
  <2>3. rec' \in [Recs -> Visit] /\ \A q \in Recs : rec'[q].pc # "idle" => rec'[q].order \in Orders
    BY <2>2, VisitTyped
  <2> QED
    BY <1>17, <2>3 DEF RecAsk, RecAskFails, Typed
<1>18. ASSUME NEW r \in Recs, RecApply(r)
       PROVE  Typed'
  <2>1. PICK o \in Orders : o = rec[r].order
    BY <1>18, ApplyCases
  <2>2. rec[r].pc = "apply" /\ UNCHANGED <<provider, exchange, queue, place, budget>> /\ (Refuses(r) \/ \E k \in Nat : Stores(r, o, k))
    BY <1>18, <2>1, ApplyCases
  <2>3. CASE Refuses(r)
    <3>1. PICK why \in {"order size", "reduce-only"} : Step(r, [rec[r] EXCEPT !.pc = "error", !.why = why])
      BY <2>3 DEF Refuses
    <3>2. [rec[r] EXCEPT !.pc = "error", !.why = why] \in Visit /\ [rec[r] EXCEPT !.pc = "error", !.why = why].order = o
      <4>1. rec[r] \in Visit /\ rec[r].order = o
        BY <2>1 DEF Typed
      <4> QED
        BY <4>1 DEF Visit
    <3>3. rec' \in [Recs -> Visit] /\ \A q \in Recs : rec'[q].pc # "idle" => rec'[q].order \in Orders
      BY <3>1, <3>2, VisitTyped
    <3> QED
      BY <2>2, <2>3, <3>3 DEF Refuses, Typed
  <2>4. ASSUME NEW k \in Nat, Stores(r, o, k)
        PROVE  Typed'
    <3>1. <<o, k>> \notin DOMAIN applied
      BY <2>1, <2>4 DEF Stores, Unapplied
    <3>2. ApplyFill(o, <<o, k>>, 1) /\ UNCHANGED rec /\ 1 \in Nat \ {0}
      BY <2>4 DEF Stores
    <3>3. queue' \subseteq Orders /\ place' \in Placement /\ (place'.pc # "free" => place'.order \in Orders)
      BY <2>2 DEF Typed
    <3> QED
      BY <2>2, <3>1, <3>2, <3>3, FillType
  <2> QED
    BY <2>2, <2>3, <2>4
<1>19. ASSUME NEW r \in Recs, RecRelease(r)
       PROVE  Typed'
  <2>1. PICK o \in Orders : o = rec[r].order
    BY <1>19 DEF RecRelease, Typed
  <2>2. PICK n \in Int : n = -Unused(o, rec[r].base)
    <3>1. order[o].size \in Nat /\ rec[r].base \in Nat
      BY OrderTypes DEF Typed, Visit
    <3> QED
      BY <3>1 DEF Unused
  <2>3. IsLedger(ledger')
    <3>2. CASE ReduceOnly(o)
      BY <1>19, <1>l, <2>1, <3>2 DEF RecRelease
    <3>3. CASE ~ReduceOnly(o)
      <4>1. Posting(ledger, <<"release", o>>, Owner(o), n, ledger')
        BY <1>19, <1>l, <2>1, <2>2, <3>3, OrderTypes, PostChange DEF RecRelease
      <4> QED
        BY <4>1 DEF Posting
    <3> QED
      BY <3>2, <3>3
  <2>4. rec' \in [Recs -> Visit] /\ \A q \in Recs : rec'[q].pc # "idle" => rec'[q].order \in Orders
    <3>1. rec[r] \in Visit /\ rec[r].order = o
      BY <2>1 DEF Typed
    <3>2. [rec[r] EXCEPT !.pc = "write"] \in Visit /\ [rec[r] EXCEPT !.pc = "write"].order = o
      BY <3>1 DEF Visit
    <3> QED
      BY <1>19, <3>2, VisitTyped DEF RecRelease
  <2>5. over' \in [released : SUBSET Orders, missed : SUBSET Orders]
    <3>1. PICK a \in SUBSET Orders, b \in SUBSET Orders : over' = [released |-> over.released \cup a, missed |-> over.missed \cup b]
      <4>1. PICK a \in SUBSET Orders : a = IF ~ReduceOnly(o) /\ Unused(o, rec[r].base) > 0
                 /\ rec[r].base # order[o].filled /\ <<"release", o>> \notin ledger.posted THEN {o} ELSE {}
        OBVIOUS
      <4>2. PICK b \in SUBSET Orders : b = IF rec[r].snap # "TERMINAL" /\ rec[r].n < exchange[o].got THEN {o} ELSE {}
        OBVIOUS
      <4> QED
        BY <1>19, <2>1, <4>1, <4>2 DEF RecRelease
    <3> QED
      BY <3>1 DEF Typed
  <2> QED
    BY <1>19, <2>3, <2>4, <2>5 DEF RecRelease, Typed
<1>20. ASSUME NEW r \in Recs, NEW verdict \in {"FULL", "UNKNOWN", "OPEN", "FILLED", "CANCELLED", "REJECTED", "TERMINAL"},
              NEW row \in {"PENDING", "FILLED", "CANCELLED", "FAILED"},
              NEW status \in Statuses, rec[r].pc # "idle", Write(r, verdict, row, status)
       PROVE  Typed'
  <2>1. PICK o \in Orders : o = rec[r].order
    BY <1>20 DEF Typed
  <2>2. order' \in [Orders -> OrderRow]
    BY <1>20, <2>1, RowStatus DEF Write
  <2>3. provider' \in [Orders -> ProviderRow]
    <3>1. PICK id \in BOOLEAN : id = (provider[o].id \/ verdict \notin {"UNKNOWN", "TERMINAL"})
      OBVIOUS
    <3>2. PICK rejected \in BOOLEAN : rejected = (verdict = "TERMINAL")
      OBVIOUS
    <3>3. provider' = [provider EXCEPT ![o] = [status |-> row, rejected |-> rejected, id |-> id]]
      BY <1>20, <2>1, <3>1, <3>2 DEF Write
    <3> QED
      BY <3>3 DEF Typed, ProviderRow
  <2>4. Done(r)
    BY <1>20 DEF Write
  <2> QED
    BY <1>20, <2>2, <2>3, <2>4, DoneTyped DEF Write, Typed
<1>21. ASSUME NEW r \in Recs, RecWriteLive(r)
       PROVE  Typed'
  <2>1. PICK o \in Orders : o = rec[r].order
    BY <1>21 DEF RecWriteLive, Typed
  <2>2. order[o].status \in Statuses /\ "FILLED" \in Statuses /\ "PARTIALLY_FILLED" \in Statuses /\ "OPEN" \in Statuses
    BY OrderTypes DEF OrderRow, Statuses, Live
  <2>3. rec[r].pc # "idle" /\ (\/ Write(r, "FULL", "FILLED", "FILLED")
                               \/ Write(r, "UNKNOWN", "PENDING", order[o].status)
                               \/ Write(r, "OPEN", "PENDING", "PARTIALLY_FILLED")
                               \/ Write(r, "OPEN", "PENDING", "OPEN"))
    BY <1>21, <2>1 DEF RecWriteLive
  <2> QED
    BY <1>20, <2>2, <2>3
<1>22. ASSUME NEW r \in Recs, RecWriteEnd(r)
       PROVE  Typed'
  <2>1. "CANCELLED" \in Statuses /\ "FAILED" \in Statuses
    BY DEF Statuses
  <2>2. rec[r].pc = "write" /\ rec[r].snap \in {"FILLED", "CANCELLED", "REJECTED", "TERMINAL"}
    BY <1>22, <1>v DEF RecWriteEnd, VisitOk
  <2>3. \/ Write(r, "FILLED", "FILLED", "CANCELLED")
        \/ Write(r, "CANCELLED", "CANCELLED", "CANCELLED")
        \/ Write(r, "REJECTED", "FAILED", "FAILED")
        \/ Write(r, "TERMINAL", "FAILED", "CANCELLED")
        \/ Write(r, "TERMINAL", "FAILED", "FAILED")
    BY <1>22, <2>2 DEF RecWriteEnd
  <2> QED
    BY <1>20, <2>1, <2>2, <2>3
<1>23. ASSUME NEW r \in Recs, RecError(r)
       PROVE  Typed'
  <2>1. PICK o \in Orders : o = rec[r].order
    BY <1>23 DEF RecError, Typed
  <2>2. UNCHANGED <<exchange, applied, position, ledger, event, over, budget>>
    BY <1>23 DEF RecError
  <2>3. CASE /\ provider' = [provider EXCEPT ![o].status = "FILLED", ![o].rejected = FALSE]
             /\ order' = [order EXCEPT ![o].status = "CANCELLED"]
             /\ Done(r)
    <3>1. provider' \in [Orders -> ProviderRow]
      BY <2>3, RowRejected
    <3>2. order' \in [Orders -> OrderRow]
      BY <2>3 DEF Typed, OrderRow, Statuses
    <3> QED
      BY <2>2, <2>3, <3>1, <3>2, DoneTyped DEF Typed
  <2>4. ASSUME NEW t \in BOOLEAN, provider' = [provider EXCEPT ![o].status = "PENDING", ![o].rejected = t]
        PROVE  provider' \in [Orders -> ProviderRow]
    BY <2>4, RowRejected
  <2>5. PICK t \in BOOLEAN : t = Terminal(rec[r].why)
    <3>1. (rec[r].why \in {"reduce-only", "order size"}) \in BOOLEAN
      OBVIOUS
    <3> QED
      BY <3>1 DEF Terminal
  <2>6. CASE /\ provider' = [provider EXCEPT ![o].status = "PENDING", ![o].rejected = Terminal(rec[r].why)]
             /\ Step(r, [rec[r] EXCEPT !.pc = "release", !.snap = "TERMINAL", !.base = order[o].filled])
             /\ UNCHANGED <<order, place, queue>>
    <3>1. provider' \in [Orders -> ProviderRow]
      BY <2>4, <2>5, <2>6
    <3>2. rec[r] \in Visit /\ rec[r].order = o
      BY <2>1 DEF Typed
    <3>3. PICK base \in Nat : base = order[o].filled
      BY OrderTypes
    <3>4. [rec[r] EXCEPT !.pc = "release", !.snap = "TERMINAL", !.base = base] \in Visit
      BY <3>2, <3>3 DEF Visit
    <3>5. [rec[r] EXCEPT !.pc = "release", !.snap = "TERMINAL", !.base = base].order = o
      BY <3>2 DEF Visit
    <3>6. rec' \in [Recs -> Visit] /\ \A q \in Recs : rec'[q].pc # "idle" => rec'[q].order \in Orders
      BY <2>6, <3>3, <3>4, <3>5, VisitTyped
    <3> QED
      BY <2>2, <2>6, <3>1, <3>6 DEF Typed
  <2>7. CASE /\ provider' = [provider EXCEPT ![o].status = "PENDING", ![o].rejected = Terminal(rec[r].why)]
             /\ order' = IF r = "place" THEN [order EXCEPT ![o].status = "PROVIDER_PENDING"] ELSE order
             /\ Done(r)
    <3>1. provider' \in [Orders -> ProviderRow]
      BY <2>4, <2>5, <2>7
    <3>2. order' \in [Orders -> OrderRow]
      <4>1. [order EXCEPT ![o].status = "PROVIDER_PENDING"] \in [Orders -> OrderRow]
        BY DEF Typed, OrderRow, Statuses, Live
      <4> QED
        BY <2>7, <4>1 DEF Typed
    <3> QED
      BY <2>2, <2>7, <3>1, <3>2, DoneTyped DEF Typed
  <2> QED
    BY <1>23, <2>1, <2>3, <2>6, <2>7 DEF RecError
<1>24. ASSUME Crash
       PROVE  Typed'
  <2>1. order' \in [Orders -> OrderRow]
    <3>1. \A x \in Orders : order[x] \in OrderRow /\ [order[x] EXCEPT !.status = "GONE"] \in OrderRow
      BY DEF Typed, OrderRow, Statuses
    <3> QED
      BY <1>24, <3>1 DEF Crash
  <2>2. place' \in Placement /\ place'.pc = "free"
    BY <1>24 DEF Crash, Free, Placement
  <2>3. rec' \in [Recs -> Visit] /\ \A q \in Recs : rec'[q].pc = "idle"
    BY <1>24, IdleTyped DEF Crash
  <2> QED
    BY <1>24, <2>1, <2>2, <2>3 DEF Crash, Typed
<1> HIDE DEF IsLedger
<1>25. ASSUME NEW o \in Orders, WorkerBegins(o)
       PROVE  Typed'
  BY <1>9, <1>25 DEF WorkerBegins, Recs
<1>26. ASSUME PlaceSync \/ CancelSync
       PROVE  Typed'
  <2>1. CASE PlaceSync
    BY <1>9, <2>1 DEF PlaceSync, Recs, Typed
  <2>2. CASE CancelSync
    BY <1>9, <2>2 DEF CancelSync, Recs, Typed
  <2> QED
    BY <1>26, <2>1, <2>2
<1> QED
  BY <1>1, <1>2, <1>3, <1>4, <1>5, <1>6, <1>7, <1>8, <1>10, <1>11, <1>12, <1>13, <1>14, <1>15, <1>16, <1>17, <1>18,
     <1>19, <1>21, <1>22, <1>23, <1>24, <1>25, <1>26 DEF Next, Reconcile, Placing, Cancelling

-----------------------------------------------------------------------------
(* What has to be shown of a step that concerns one order *)

\* A step ends an order that does not open anything: a trigger, or a close that was asked for.
Apart(x) ==
  /\ Kind(x) # "OPEN" /\ order'[x].status # "NEW" /\ Forth(x)
  /\ order'[x].filled = order[x].filled /\ order'[x].size = order[x].size
  /\ provider'[x] = provider[x] /\ exchange'[x] = exchange[x]

KeepsPlace(o) ==
  /\ place' = place /\ queue \subseteq queue'
  /\ exchange[o].status = "NONE" => exchange'[o].status = "NONE"
  /\ Kind(o) = "OPEN" /\ provider[o].status = "NONE" /\ order[o].status = "ROUTED" =>
       provider'[o].status = "NONE" /\ order'[o].status = "ROUTED"

Concerns(o) ==
  /\ \A x \in Orders \ {o} : Same(x) \/ Apart(x)
  /\ Forth(o) /\ OrderOk(o)' /\ SentOk(o)'
  /\ ledger.posted \subseteq ledger'.posted /\ over.missed \subseteq over'.missed

\* Nothing is posted or filled for it.
QuietAt(o) ==
  /\ applied' = applied /\ position' = position /\ ledger' = ledger /\ over'.released = over.released
  /\ order'[o].filled = order[o].filled
  /\ order'[o].size = order[o].size \/ (order[o].kind # "OPEN" /\ order[o].filled = 0)
  /\ order[o].kind = "OPEN" =>
       order'[o].status = order[o].status \/ (order[o].status # "NEW" /\ order'[o].status # "NEW")

LEMMA StatesStep ==
  ASSUME Typed, Typed', SizesOk, SizesOk', ExchangeOk, States, NEW o \in Orders, Concerns(o),
         KeepsPlace(o) \/ PlaceOk', \A r \in Recs : rec'[r] = rec[r] \/ VisitOk(r)'
  PROVE  Onward /\ (\A x \in Orders : OrderOk(x)') /\ States' /\ ExchangeOk'
<1>1. ASSUME NEW x \in Orders, x # o
      PROVE  Forth(x) /\ OrderOk(x)' /\ SentOk(x)'
  <2>1. CASE Same(x)
    <3>1. OrderOk(x)'
      BY <2>1, SameStays DEF States, OrderOk
    <3>2. SentOk(x)'
      BY <2>1 DEF Same, ExchangeOk, SentOk
    <3>3. order[x].filled \in Nat /\ exchange[x].got \in Nat
      BY OrderTypes DEF AtExchange
    <3> QED
      BY <2>1, <3>1, <3>2, <3>3 DEF Same, Forth
  <2>2. CASE Apart(x)
    <3>1. OrderOk(x)'
      BY <2>2 DEF Apart, OrderOk, NewOk, Forth, Kind
    <3>2. SentOk(x)'
      BY <2>2 DEF Apart, ExchangeOk, SentOk
    <3> QED
      BY <2>2, <3>1, <3>2 DEF Apart
  <2> QED
    BY <1>1, <2>1, <2>2 DEF Concerns
<1>2. Onward
  BY <1>1 DEF Onward, Concerns
<1>3. \A x \in Orders : OrderOk(x)' /\ SentOk(x)'
  BY <1>1 DEF Concerns
<1>4. PlaceOk'
  <2>1. CASE KeepsPlace(o)
    <3>1. \A x \in Orders : exchange[x].status = "NONE" => exchange'[x].status = "NONE"
      BY <2>1 DEF KeepsPlace, Concerns, Same, Apart
    <3>2. \A x \in Orders : order[x].kind = "OPEN" /\ provider[x].status = "NONE" /\ order[x].status = "ROUTED" =>
                              provider'[x].status = "NONE" /\ order'[x].status = "ROUTED"
      BY <2>1 DEF KeepsPlace, Concerns, Same, Apart, Kind
    <3> QED
      BY <1>2, <2>1, <3>1, <3>2, PlaceStays DEF KeepsPlace, States
  <2> QED
    BY <2>1
<1>5. \A r \in Recs : VisitOk(r)'
  BY <1>2, VisitStays DEF States
<1> QED
  BY <1>2, <1>3, <1>4, <1>5 DEF States, ExchangeOk, OrderOk

LEMMA QuietStep ==
  ASSUME IInv, Typed', NEW o \in Orders, Concerns(o), QuietAt(o),
         KeepsPlace(o) \/ PlaceOk', \A r \in Recs : rec'[r] = rec[r] \/ VisitOk(r)'
  PROVE  IInv'
<1>1. Typed /\ SizesOk /\ KeysOk /\ ExchangeOk /\ States /\ MarginIsAccounted
  BY DEF IInv, Books
<1>2. Quiet
  BY DEF Quiet, QuietAt, Concerns, Same, Apart, Kind
<1>3. SizesOk' /\ KeysOk'
  BY <1>1, <1>2, QuietSizes
<1>4. Onward /\ (\A x \in Orders : OrderOk(x)') /\ States' /\ ExchangeOk'
  BY <1>1, <1>3, StatesStep
<1>5. MarginIsAccounted'
  BY <1>1, <1>2, <1>4, QuietMargin DEF States, OrderOk
<1> QED
  BY <1>1, <1>3, <1>4, <1>5 DEF IInv, Books

\* The margin of one order and its owner.
LEMMA ReservedType ==
  ASSUME Typed, NEW o \in Orders
  PROVE  Reserved(o) \in Int
<1>1. order[o].size \in Int /\ order[o].filled \in Int
  BY OrderTypes
<1> QED
  BY <1>1 DEF Reserved

LEMMA ReservedPrimed == Typed' => (\A o \in Orders : Reserved(o) \in Int)'
<1>1. Typed => \A o \in Orders : Reserved(o) \in Int
  BY ReservedType
<1> QED
  BY <1>1, PTL

LEMMA MarginStep ==
  ASSUME Typed, Typed', MarginIsAccounted, NEW o \in Orders, Onward, over.released \subseteq over'.released,
         \A x \in Orders \ {o} : Same(x) \/ Apart(x),
         \A w \in Users \ {Owner(o)} : ledger'.held[w] = ledger.held[w] /\ position'[w] = position[w],
         \/ o \in over'.released
         \/ ledger'.held[Owner(o)] - ledger.held[Owner(o)]
              = (Abs(position'[Owner(o)]) - Abs(position[Owner(o)])) + (Reserved(o)' - Reserved(o))
  PROVE  MarginIsAccounted'
<1>1. \A x \in Orders : Owner(x)' = Owner(x)
  BY DEF Onward, Forth, Owner
<1>2. ASSUME NEW x \in Orders, x # o
      PROVE  Reserved(x)' = Reserved(x)
  <2>1. CASE Same(x)
    <3>1. order'[x] = order[x] /\ Kind(x)' = Kind(x)
      BY <2>1 DEF Same, Kind
    <3>2. {<<"release", x>>, <<"fail", x>>} \cap ledger'.posted = {} <=> {<<"release", x>>, <<"fail", x>>} \cap ledger.posted = {}
      BY <2>1 DEF Same
    <3> QED
      BY <3>1, <3>2 DEF Reserved
  <2>2. CASE Apart(x)
    BY <2>2 DEF Apart, Forth, Reserved, Kind
  <2> QED
    BY <1>2, <2>1, <2>2
<1> SUFFICES ASSUME NEW u \in Users, \A x \in over'.released : Owner(x)' # u
             PROVE  ledger'.held[u] = Abs(position'[u]) + SumOver([x \in {y \in Orders : Owner(y)' = u} |-> Reserved(x)'])
  BY DEF MarginIsAccounted
<1>3. \A x \in over.released : Owner(x) # u
  BY <1>1 DEF Typed
<1>4. PICK f : f = [x \in {y \in Orders : Owner(y) = u} |-> Reserved(x)]
  OBVIOUS
<1>5. PICK g : g = [x \in {y \in Orders : Owner(y)' = u} |-> Reserved(x)']
  OBVIOUS
<1>6. ledger.held[u] = Abs(position[u]) + SumOver(f)
  BY <1>3, <1>4 DEF MarginIsAccounted
<1>7. DOMAIN f = {y \in Orders : Owner(y) = u} /\ DOMAIN g = DOMAIN f
  BY <1>1, <1>4, <1>5
<1>8. Summable(f) /\ Summable(g)
  <2>1. IsFiniteSet(DOMAIN f)
    BY <1>7, Attributes, FS_Subset
  <2>2. \A x \in DOMAIN f : f[x] \in Int
    BY <1>4, <1>7, ReservedType
  <2>3. \A x \in DOMAIN f : g[x] \in Int
    BY <1>5, <1>7, ReservedPrimed
  <2> QED
    BY <1>7, <2>1, <2>2, <2>3 DEF Summable
<1>9. CASE u # Owner(o)
  <2>1. \A x \in DOMAIN f : g[x] = f[x]
    BY <1>2, <1>4, <1>5, <1>7, <1>9
  <2>2. SumOver(g) = SumOver(f)
    BY <1>7, <1>8, <2>1, SumSame
  <2>3. ledger'.held[u] = ledger.held[u] /\ position'[u] = position[u]
    BY <1>9
  <2> QED
    BY <1>5, <1>6, <2>2, <2>3
<1>10. CASE u = Owner(o)
  <2>1. o \in DOMAIN f /\ \A y \in DOMAIN f \ {o} : g[y] = f[y]
    BY <1>2, <1>4, <1>5, <1>7, <1>10
  <2>2. SumOver(g) = SumOver(f) + (g[o] - f[o])
    BY <1>7, <1>8, <2>1, SumChange
  <2>3. f[o] = Reserved(o) /\ g[o] = Reserved(o)'
    BY <1>4, <1>5, <1>7, <2>1
  <2>4. o \notin over'.released
    BY <1>1, <1>10
  <2>5. ledger'.held[u] - ledger.held[u] = (Abs(position'[u]) - Abs(position[u])) + (g[o] - f[o])
    BY <1>10, <2>3, <2>4
  <2>6. f[o] \in Int /\ g[o] \in Int /\ SumOver(f) \in Int /\ ledger.held[u] \in Int /\ ledger'.held[u] \in Int
    BY <1>7, <1>8, <2>1, SumType DEF Summable, Typed
  <2>7. PICK a \in Int, b \in Int : a = Abs(position[u]) /\ b = Abs(position'[u])
    <3>1. position[u] \in Int /\ position'[u] \in Int
      BY DEF Typed
    <3> QED
      BY <3>1 DEF Abs
  <2> QED
    BY <1>5, <1>6, <2>2, <2>5, <2>6, <2>7
<1> QED
  BY <1>9, <1>10

-----------------------------------------------------------------------------
(* Steps that post nothing: who calls, and the exchange *)

LEMMA LeaveStays ==
  ASSUME Typed, Leave
  PROVE  PlaceOk' /\ \A x \in Orders : (x \in queue' => x \in queue) /\ (Waiting(x)' => Waiting(x))
<1>1. place'.pc = "free" /\ queue' = queue \ {place.order}
  BY DEF Leave, Free
<1> QED
  BY <1>1 DEF PlaceOk, Waiting

LEMMA DoneStays ==
  ASSUME Typed, NEW r \in Recs, Done(r)
  PROVE  /\ PlaceOk' \/ (place' = place /\ queue' = queue)
         /\ \A x \in Orders : (x \in queue' => x \in queue) /\ (Waiting(x)' => Waiting(x))
         /\ \A q \in Recs : rec'[q] = rec[q] \/ VisitOk(q)'
<1>1. Leave \/ (place' = place /\ queue' = queue)
  BY DEF Done
<1>2. /\ PlaceOk' \/ (place' = place /\ queue' = queue)
      /\ \A x \in Orders : (x \in queue' => x \in queue) /\ (Waiting(x)' => Waiting(x))
  BY <1>1, LeaveStays DEF Waiting
<1>3. \A q \in Recs : rec'[q] = rec[q] \/ VisitOk(q)'
  BY DEF Done, Step, Typed, VisitOk, Idle
<1> QED
  BY <1>2, <1>3

LEMMA VisitedOrder ==
  ASSUME IInv, NEW r \in Recs, rec[r].pc # "idle", NEW o, o = rec[r].order
  PROVE  /\ o \in Orders /\ order[o].status # "NEW"
         /\ provider[o].status # "NONE" \/ (rec[r].pc = "cancel" /\ ~rec[r].id /\ Kind(o) # "OPEN")
  BY DEF IInv, Books, States, Typed, VisitOk

LEMMA OrderFacts ==
  ASSUME IInv, NEW o \in Orders
  PROVE  /\ OrderOk(o) /\ SentOk(o)
         /\ order[o] \in OrderRow /\ provider[o] \in ProviderRow /\ exchange[o] \in AtExchange
  BY OrderTypes DEF IInv, Books, States, ExchangeOk, OrderOk

\* The order and the provider row of an order at the exchange are written.
LEMMA RowOk ==
  ASSUME IInv, NEW o \in Orders, provider[o].status # "NONE", order[o].status # "NEW",
         NEW st \in Statuses \ {"NEW"}, order'[o] = [order[o] EXCEPT !.status = st], provider'[o].status # "NONE",
         applied' = applied, ledger' = ledger, Waiting(o)' => Waiting(o),
         Kind(o) = "OPEN" =>
           /\ st \in Live \cup {"FILLED", "CANCELLED", "FAILED"}
           /\ st \in {"FILLED", "CANCELLED", "FAILED"} => Settled(o)
           /\ exchange'[o].sent <= order[o].size
           /\ provider'[o].rejected => exchange'[o].status = "rejected"
           /\ provider'[o].status \in {"FILLED", "CANCELLED", "FAILED"} =>
                o \in over'.missed \/ order[o].filled = order[o].size \/ AllPosted(o)'
  PROVE  /\ OrderOk(o)'
         /\ order'[o].owner = order[o].owner /\ order'[o].kind = order[o].kind /\ order'[o].side = order[o].side
         /\ order'[o].size = order[o].size /\ order'[o].filled = order[o].filled /\ order'[o].status = st
<1>1. order[o] \in OrderRow /\ OrderOk(o)
  BY OrderFacts
<1>2. /\ order'[o].owner = order[o].owner /\ order'[o].kind = order[o].kind /\ order'[o].side = order[o].side
      /\ order'[o].size = order[o].size /\ order'[o].filled = order[o].filled /\ order'[o].status = st
  BY <1>1 DEF OrderRow
<1>3. NewOk(o)'
  BY <1>2 DEF NewOk
<1>4. ASSUME Kind(o) = "OPEN"
      PROVE  OpeningOk(o)'
  <2>1. OpeningOk(o)
    BY <1>1, <1>4 DEF OrderOk
  <2>2. <<"fail", o>> \notin ledger.posted /\ ~Waiting(o)
    BY <2>1 DEF OpeningOk
  <2>3. Settled(o) => Settled(o)'
    BY <1>2 DEF Settled
  <2>4. st \in {"FILLED", "CANCELLED", "FAILED"} => Settled(o)'
    BY <1>4, <2>3
  <2>5. \A k \in Nat : <<o, k>> \in DOMAIN applied' <=> k \in 1 .. order'[o].filled
    BY <1>2, <2>1 DEF OpeningOk
  <2>6. provider'[o].status \in {"FILLED", "CANCELLED", "FAILED"} =>
                o \in over'.missed \/ order'[o].filled = order'[o].size \/ AllPosted(o)'
    BY <1>2, <1>4
  <2> QED
    BY <1>2, <1>4, <2>2, <2>4, <2>5, <2>6 DEF OpeningOk
<1>5. Kind(o)' = Kind(o)
  BY <1>2 DEF Kind
<1> QED
  BY <1>2, <1>3, <1>4, <1>5 DEF OrderOk

LEMMA CloseAskStep ==
  ASSUME IInv, Typed', NEW o \in Orders, CloseAsk(o)
  PROVE  IInv'
<1>1. UNCHANGED <<provider, exchange, applied, position, ledger, queue, place, rec, over, budget>>
  BY DEF CloseAsk
<1>2. Kind(o) # "OPEN" /\ order[o].status = "NEW"
  BY DEF CloseAsk
<1>3. OrderOk(o) /\ SentOk(o) /\ order[o] \in OrderRow /\ exchange[o] \in AtExchange
  BY OrderFacts
<1>s. PICK st \in {"JOINED", "ASKED"} : st = IF ActiveClose(Owner(o)) THEN "JOINED" ELSE "ASKED"
  OBVIOUS
<1>4. PICK side, size :
        order' = [order EXCEPT ![o] = [order[o] EXCEPT !.side = side, !.size = size, !.status = st]]
  <2>2. PICK p : p = position[Owner(o)]
    OBVIOUS
  <2>3. order' = [order EXCEPT ![o] = [order[o] EXCEPT !.side = IF p > 0 THEN -1 ELSE 1, !.size = Abs(p), !.status = st]]
    BY <1>s, <2>2 DEF CloseAsk
  <2> QED
    BY <2>3
<1>5. /\ order'[o].owner = order[o].owner /\ order'[o].kind = order[o].kind
      /\ order'[o].filled = order[o].filled /\ order'[o].status = st
  <2>1. order'[o] = [order[o] EXCEPT !.side = side, !.size = size, !.status = st]
    BY <1>4 DEF IInv, Books, Typed
  <2> QED
    BY <1>3, <2>1 DEF OrderRow
<1>6. \A x \in Orders \ {o} : Same(x)
  BY <1>1, <1>4 DEF Same, Waiting, IInv, Books, Typed
<1>7. Concerns(o)
  <2>1. order[o].filled \in Nat /\ exchange[o].got \in Nat
    BY <1>3 DEF OrderRow, AtExchange
  <2>2. Forth(o)
    BY <1>1, <1>2, <1>s, <1>5, <2>1 DEF Forth, Kind
  <2>3. OrderOk(o)' /\ SentOk(o)'
    BY <1>1, <1>2, <1>3, <1>s, <1>5 DEF OrderOk, NewOk, SentOk, Kind
  <2> QED
    BY <1>1, <1>6, <2>2, <2>3 DEF Concerns
<1>8. QuietAt(o)
  BY <1>1, <1>2, <1>3, <1>5 DEF QuietAt, OrderOk, NewOk, Kind
<1>9. KeepsPlace(o)
  BY <1>1, <1>2 DEF KeepsPlace
<1> QED
  BY <1>1, <1>7, <1>8, <1>9, QuietStep

LEMMA CreateTriggerStep ==
  ASSUME IInv, Typed', NEW o \in Orders, CreateTrigger(o)
  PROVE  IInv'
<1>1. UNCHANGED <<provider, exchange, applied, position, ledger, queue, place, rec, over, budget>>
  BY DEF CreateTrigger
<1>2. Kind(o) # "OPEN" /\ order[o].status = "NEW"
  BY DEF CreateTrigger
<1>3. OrderOk(o) /\ SentOk(o) /\ order[o] \in OrderRow /\ exchange[o] \in AtExchange
  BY OrderFacts
<1>4. PICK side, size, born :
        order' = [order EXCEPT ![o] = [order[o] EXCEPT !.side = side, !.size = size, !.status = "OPEN", !.born = born]]
  <2>1. PICK p, born : p = position[Owner(o)] /\ born = Born
    OBVIOUS
  <2>2. order' = [order EXCEPT ![o] = [order[o] EXCEPT !.side = IF p > 0 THEN -1 ELSE 1, !.size = Abs(p),
                                                       !.status = "OPEN", !.born = born]]
    BY <2>1 DEF CreateTrigger
  <2> QED
    BY <2>2
<1>5. /\ order'[o].owner = order[o].owner /\ order'[o].kind = order[o].kind
      /\ order'[o].filled = order[o].filled /\ order'[o].status = "OPEN"
  <2>1. order'[o] = [order[o] EXCEPT !.side = side, !.size = size, !.status = "OPEN", !.born = born]
    BY <1>4 DEF IInv, Books, Typed
  <2> QED
    BY <1>3, <2>1 DEF OrderRow
<1>6. \A x \in Orders \ {o} : Same(x)
  BY <1>1, <1>4 DEF Same, Waiting, IInv, Books, Typed
<1>7. Concerns(o)
  <2>1. order[o].filled \in Nat /\ exchange[o].got \in Nat
    BY <1>3 DEF OrderRow, AtExchange
  <2>2. Forth(o)
    BY <1>1, <1>2, <1>5, <2>1 DEF Forth, Kind
  <2>3. OrderOk(o)' /\ SentOk(o)'
    BY <1>1, <1>2, <1>3, <1>4, <1>5 DEF OrderOk, NewOk, SentOk, Kind
  <2> QED
    BY <1>1, <1>6, <2>2, <2>3 DEF Concerns
<1>8. QuietAt(o)
  BY <1>1, <1>2, <1>3, <1>5 DEF QuietAt, OrderOk, NewOk, Kind
<1>9. KeepsPlace(o)
  BY <1>1, <1>2 DEF KeepsPlace
<1> QED
  BY <1>1, <1>7, <1>8, <1>9, QuietStep

\* A close is created, or the liquidation that asked for it is refused.
LEMMA AskedStep ==
  ASSUME IInv, Typed', NEW o \in Orders, CloseCreate(o) \/ LiquidationRefused(o)
  PROVE  IInv'
<1>1. UNCHANGED <<provider, exchange, applied, position, ledger, place, rec, over>> /\ queue \subseteq queue'
      /\ queue' \subseteq queue \cup {o}
  BY DEF CloseCreate, LiquidationRefused
<1>3. OrderOk(o) /\ SentOk(o) /\ order[o] \in OrderRow /\ exchange[o] \in AtExchange
  BY OrderFacts
<1>2. Kind(o) # "OPEN"
  <2>1. order[o].status = "ASKED"
    BY DEF CloseCreate, LiquidationRefused
  <2> QED
    BY <1>3, <2>1 DEF OrderOk, OpeningOk, Live
<1>b. PICK born : born = Born
  OBVIOUS
<1>4. PICK st \in {"ROUTED", "GONE"} :
        \/ order' = [order EXCEPT ![o].status = st, ![o].born = born]
        \/ order' = [order EXCEPT ![o].status = st]
  BY <1>b DEF CloseCreate, LiquidationRefused
<1>5. /\ order'[o].owner = order[o].owner /\ order'[o].kind = order[o].kind
      /\ order'[o].filled = order[o].filled /\ order'[o].status = st /\ order'[o].size = order[o].size
  <2>1. \/ order'[o] = [order[o] EXCEPT !.status = st, !.born = born]
        \/ order'[o] = [order[o] EXCEPT !.status = st]
    BY <1>4 DEF IInv, Books, Typed
  <2> QED
    BY <1>3, <2>1 DEF OrderRow
<1>6. \A x \in Orders \ {o} : Same(x)
  <2>1. \A x \in Orders \ {o} : order'[x] = order[x]
    BY <1>4 DEF IInv, Books, Typed
  <2> QED
    BY <1>1, <2>1 DEF Same, Waiting
<1>7. Concerns(o)
  <2>1. order[o].filled \in Nat /\ exchange[o].got \in Nat
    BY <1>3 DEF OrderRow, AtExchange
  <2>2. Forth(o)
    BY <1>1, <1>2, <1>4, <1>5, <2>1 DEF Forth, Kind
  <2>3. OrderOk(o)' /\ SentOk(o)'
    BY <1>1, <1>2, <1>3, <1>4, <1>5 DEF OrderOk, NewOk, SentOk, Kind
  <2> QED
    BY <1>1, <1>6, <2>2, <2>3 DEF Concerns
<1>8. QuietAt(o)
  BY <1>1, <1>2, <1>5 DEF QuietAt, Kind
<1>9. KeepsPlace(o)
  BY <1>1, <1>2 DEF KeepsPlace
<1> QED
  BY <1>1, <1>7, <1>8, <1>9, QuietStep

LEMMA FireTriggerStep ==
  ASSUME IInv, Typed', NEW o \in Orders, FireTrigger(o)
  PROVE  IInv'
<1>1. UNCHANGED <<provider, exchange, applied, position, ledger, place, rec, over>> /\ queue \subseteq queue'
      /\ queue' \subseteq queue \cup {o}
  BY DEF FireTrigger
<1>2. Kind(o) # "OPEN"
  BY DEF FireTrigger
<1>3. OrderOk(o) /\ SentOk(o) /\ order[o] \in OrderRow /\ exchange[o] \in AtExchange
  BY OrderFacts
<1>4. PICK st \in {"CANCELLED", "ROUTED"} : order'[o] = [order[o] EXCEPT !.status = st]
  <2>1. CASE position[Owner(o)] = 0
    BY <2>1 DEF FireTrigger, IInv, Books, Typed
  <2>2. CASE position[Owner(o)] # 0
    BY <2>2 DEF FireTrigger, IInv, Books, Typed
  <2> QED
    BY <2>1, <2>2
<1>5. /\ order'[o].owner = order[o].owner /\ order'[o].kind = order[o].kind
      /\ order'[o].filled = order[o].filled /\ order'[o].status = st /\ order'[o].size = order[o].size
  BY <1>3, <1>4 DEF OrderRow
<1>6. ASSUME NEW x \in Orders \ {o}
      PROVE  Same(x) \/ Apart(x)
  <2>1. \/ order'[x] = order[x]
        \/ Kind(x) = "TRIGGER" /\ order'[x] = [order[x] EXCEPT !.status = "CANCELLED"]
    <3>1. CASE position[Owner(o)] = 0
      BY <3>1 DEF FireTrigger, IInv, Books, Typed
    <3>2. CASE position[Owner(o)] # 0
      BY <3>2 DEF FireTrigger, IInv, Books, Typed
    <3> QED
      BY <3>1, <3>2
  <2>2. CASE order'[x] = order[x]
    BY <1>1, <2>2 DEF Same, Waiting
  <2>3. CASE Kind(x) = "TRIGGER" /\ order'[x] = [order[x] EXCEPT !.status = "CANCELLED"]
    <3>1. order[x] \in OrderRow /\ exchange[x] \in AtExchange
      BY OrderFacts
    <3>2. /\ order'[x].owner = order[x].owner /\ order'[x].kind = order[x].kind
          /\ order'[x].filled = order[x].filled /\ order'[x].status = "CANCELLED" /\ order'[x].size = order[x].size
      BY <2>3, <3>1 DEF OrderRow
    <3>3. order[x].filled \in Nat /\ exchange[x].got \in Nat
      BY <3>1 DEF OrderRow, AtExchange
    <3> QED
      BY <1>1, <2>3, <3>2, <3>3 DEF Apart, Forth, Kind
  <2> QED
    BY <2>1, <2>2, <2>3
<1>7. Concerns(o)
  <2>1. order[o].filled \in Nat /\ exchange[o].got \in Nat
    BY <1>3 DEF OrderRow, AtExchange
  <2>2. Forth(o)
    BY <1>1, <1>2, <1>4, <1>5, <2>1 DEF Forth, Kind
  <2>3. OrderOk(o)' /\ SentOk(o)'
    BY <1>1, <1>2, <1>3, <1>4, <1>5 DEF OrderOk, NewOk, SentOk, Kind
  <2> QED
    BY <1>1, <1>6, <2>2, <2>3 DEF Concerns
<1>8. QuietAt(o)
  BY <1>1, <1>2, <1>5 DEF QuietAt, Kind
<1>9. KeepsPlace(o)
  BY <1>1, <1>2 DEF KeepsPlace
<1> QED
  BY <1>1, <1>7, <1>8, <1>9, QuietStep

-----------------------------------------------------------------------------
(* The call that holds the lock, and the exchange *)

\* Nothing but what a call has in hand changes.
LEMMA CallStep ==
  ASSUME IInv, Typed', UNCHANGED <<order, provider, exchange, applied, position, ledger, over>>,
         \A x \in Orders : (x \in queue' => x \in queue) /\ (Waiting(x)' => Waiting(x)),
         PlaceOk' \/ (place' = place /\ queue' = queue), \A r \in Recs : rec'[r] = rec[r] \/ VisitOk(r)'
  PROVE  IInv'
<1>1. CASE Orders = {}
  <2>1. PlaceOk' /\ \A r \in Recs : VisitOk(r)'
    BY <1>1 DEF Typed, PlaceOk, VisitOk
  <2>2. MarginIsAccounted'
    BY <1>1 DEF IInv, MarginIsAccounted, Owner
  <2> QED
    BY <1>1, <2>1, <2>2 DEF IInv, Books, SizesOk, KeysOk, ExchangeOk, States
<1>2. ASSUME NEW o \in Orders
      PROVE  IInv'
  <2>1. \A x \in Orders : Same(x)
    BY DEF Same
  <2>2. OrderOk(o) /\ SentOk(o) /\ order[o] \in OrderRow /\ exchange[o] \in AtExchange
    BY OrderFacts
  <2>3. Forth(o)
    <3>1. order[o].filled \in Nat /\ exchange[o].got \in Nat
      BY <2>2 DEF OrderRow, AtExchange
    <3> QED
      BY <3>1 DEF Forth
  <2>4. OrderOk(o)' /\ SentOk(o)'
    BY <2>1, <2>2, SameStays DEF SentOk
  <2>5. Concerns(o) /\ QuietAt(o) /\ (KeepsPlace(o) \/ PlaceOk')
    BY <2>1, <2>3, <2>4 DEF Concerns, QuietAt, KeepsPlace
  <2> QED
    BY <2>5, QuietStep
<1> QED
  BY <1>1, <1>2

LEMMA PlaceTaken ==
  ASSUME IInv, Typed', NEW o \in Orders, PlaceBegin(o), UNCHANGED <<order, provider, ledger, queue>>,
         place' = [Free EXCEPT !.order = o, !.left = order[o].size, !.pc = IF ReduceOnly(o) THEN "see" ELSE "row"]
  PROVE  IInv'
<1>1. UNCHANGED <<exchange, applied, position, rec, over>> /\ place.pc = "free" /\ o \in queue
  BY DEF PlaceBegin
<1>2. \A x \in Orders : (x \in queue' => x \in queue) /\ (Waiting(x)' => Waiting(x))
  BY <1>1 DEF Waiting
<1>3. place'.order = o /\ place'.left = order[o].size /\ place'.pc = (IF ReduceOnly(o) THEN "see" ELSE "row")
  BY DEF Free
<1>4. OrderOk(o)
  BY OrderFacts
<1>5. ~ReduceOnly(o) => provider[o].status = "NONE" /\ order[o].status = "ROUTED"
  BY <1>1, <1>4 DEF ReduceOnly, OrderOk, OpeningOk, Waiting
<1>6. PlaceOk'
  BY <1>1, <1>3, <1>5 DEF PlaceOk, ReduceOnly, Kind
<1> QED
  BY <1>1, <1>2, <1>6, CallStep

LEMMA PlaceSeeStep ==
  ASSUME IInv, Typed', PlaceSee
  PROVE  IInv'
<1>1. place.pc = "see" /\ UNCHANGED <<order, provider, exchange, applied, position, ledger, queue, rec, over>>
  BY DEF PlaceSee
<1>2. place'.order = place.order /\ place'.left = place.left /\ place'.pc \in {"cover", "row"}
  BY DEF PlaceSee, IInv, Books, Typed, Placement
<1>3. \A x \in Orders : (x \in queue' => x \in queue) /\ (Waiting(x)' => Waiting(x))
  BY <1>1, <1>2 DEF Waiting
<1>4. place.order \in queue /\ ReduceOnly(place.order)
  BY <1>1 DEF IInv, States, PlaceOk
<1>5. PlaceOk'
  BY <1>1, <1>2, <1>4 DEF PlaceOk, ReduceOnly, Kind
<1> QED
  BY <1>1, <1>3, <1>5, CallStep

LEMMA CoverNothingStep ==
  ASSUME IInv, Typed', PlaceCover, CoversNothing(place.order)
  PROVE  IInv'
<1>t. Typed
  BY DEF IInv, Books
<1>1. place.pc = "cover" /\ UNCHANGED <<order, provider, exchange, applied, position, ledger, rec, over>>
  BY <1>t, CoverCases DEF CoversNothing
<1>2. CASE Leave
  BY <1>t, <1>1, <1>2, LeaveStays, CallStep
<1>3. CASE place' = [place EXCEPT !.pc = "row", !.left = order[place.order].size - order[place.order].filled] /\ UNCHANGED queue
  <2>1. place'.order = place.order /\ place'.pc = "row"
    BY <1>3, <1>t DEF Typed, Placement
  <2>2. \A x \in Orders : (x \in queue' => x \in queue) /\ (Waiting(x)' => Waiting(x))
    BY <1>1, <1>3, <2>1 DEF Waiting
  <2>3. place.order \in queue /\ ReduceOnly(place.order)
    BY <1>1 DEF IInv, States, PlaceOk
  <2>4. PlaceOk'
    BY <1>1, <1>3, <2>1, <2>3 DEF PlaceOk, ReduceOnly, Kind
  <2> QED
    BY <1>1, <2>2, <2>4, CallStep
<1> QED
  BY <1>2, <1>3 DEF CoversNothing

LEMMA PlaceRowStep ==
  ASSUME IInv, Typed', PlaceRow
  PROVE  IInv'
<1>t. Typed
  BY DEF IInv, Books
<1>1. PICK o \in Orders : o = place.order
  BY <1>t DEF PlaceRow, Typed
<1>2. place.pc = "row" /\ UNCHANGED <<exchange, applied, position, ledger, rec, over>>
  BY DEF PlaceRow
<1>3. OrderOk(o) /\ SentOk(o) /\ order[o] \in OrderRow /\ provider[o] \in ProviderRow /\ exchange[o] \in AtExchange
  BY OrderFacts
<1>4. o \in queue /\ (Kind(o) = "OPEN" => provider[o].status = "NONE" /\ order[o].status = "ROUTED" /\ place.left = order[o].size)
  BY <1>1, <1>2 DEF IInv, States, PlaceOk
<1>5. CASE provider[o].status # "NONE"
  <2>1. Leave /\ UNCHANGED <<order, provider>>
    BY <1>1, <1>5 DEF PlaceRow
  <2> QED
    BY <1>t, <1>2, <2>1, LeaveStays, CallStep
<1>6. CASE provider[o].status = "NONE"
  <2>1. /\ provider' = [provider EXCEPT ![o].status = "PENDING"]
        /\ order' = [order EXCEPT ![o].status = "PROVIDER_PENDING"]
        /\ place' = [place EXCEPT !.pc = "send"] /\ UNCHANGED queue
    BY <1>1, <1>6 DEF PlaceRow
  <2>2. /\ order'[o].owner = order[o].owner /\ order'[o].kind = order[o].kind /\ order'[o].side = order[o].side
        /\ order'[o].filled = order[o].filled /\ order'[o].size = order[o].size /\ order'[o].status = "PROVIDER_PENDING"
    <3>1. order'[o] = [order[o] EXCEPT !.status = "PROVIDER_PENDING"]
      BY <1>t, <2>1 DEF Typed
    <3> QED
      BY <1>3, <3>1 DEF OrderRow
  <2>3. provider'[o].status = "PENDING" /\ provider'[o].rejected = provider[o].rejected
    <3>1. provider'[o] = [provider[o] EXCEPT !.status = "PENDING"]
      BY <1>t, <2>1 DEF Typed
    <3> QED
      BY <1>3, <3>1 DEF ProviderRow
  <2>4. place'.pc = "send" /\ place'.order = o /\ place'.left = place.left
    BY <1>t, <1>1, <2>1 DEF Typed, Placement
  <2>5. \A x \in Orders \ {o} : Same(x)
    <3>1. \A x \in Orders \ {o} : order'[x] = order[x] /\ provider'[x] = provider[x]
      BY <1>t, <2>1 DEF Typed
    <3> QED
      BY <1>1, <1>2, <2>1, <2>4, <3>1 DEF Same, Waiting
  <2>6. OrderOk(o)' /\ SentOk(o)'
    <3>1. ASSUME Kind(o) = "OPEN"
          PROVE  OpeningOk(o)'
      <4>1. OpeningOk(o) /\ order[o].status = "ROUTED"
        BY <1>3, <1>4, <3>1 DEF OrderOk
      <4>2. ~Waiting(o)'
        BY <2>4 DEF Waiting
      <4>3. <<"fail", o>> \notin ledger'.posted
        BY <1>2, <4>1 DEF OpeningOk
      <4>4. \A k \in Nat : <<o, k>> \in DOMAIN applied' <=> k \in 1 .. order'[o].filled
        BY <1>2, <2>2, <4>1 DEF OpeningOk
      <4> QED
        BY <1>2, <2>2, <2>3, <4>1, <4>2, <4>3, <4>4 DEF OpeningOk, Live
    <3> QED
      BY <1>2, <1>3, <1>6, <2>2, <2>3, <3>1 DEF OrderOk, NewOk, SentOk, Kind
  <2>7. Forth(o)
    <3>1. order[o].filled \in Nat /\ exchange[o].got \in Nat
      BY <1>3 DEF OrderRow, AtExchange
    <3> QED
      BY <1>2, <2>2, <2>3, <3>1 DEF Forth
  <2>8. Concerns(o) /\ QuietAt(o)
    <3>1. order[o].kind = "OPEN" => order[o].status # "NEW"
      BY <1>4 DEF Kind
    <3> QED
      BY <1>2, <2>2, <2>5, <2>6, <2>7, <3>1 DEF Concerns, QuietAt
  <2>9. PlaceOk'
    <3>1. exchange'[o].status = "NONE"
      BY <1>2, <1>3, <1>6 DEF SentOk
    <3> QED
      BY <1>4, <2>1, <2>2, <2>3, <2>4, <3>1 DEF PlaceOk, Kind
  <2> QED
    BY <1>2, <2>8, <2>9, QuietStep
<1> QED
  BY <1>5, <1>6

LEMMA PlaceSendStep ==
  ASSUME IInv, Typed', PlaceSend
  PROVE  IInv'
<1>t. Typed
  BY DEF IInv, Books
<1>1. PICK o \in Orders : o = place.order
  BY <1>t DEF PlaceSend, Typed
<1>2. place.pc = "send" /\ UNCHANGED <<applied, position, ledger, over>>
  BY DEF PlaceSend
<1>3. OrderOk(o) /\ SentOk(o) /\ order[o] \in OrderRow /\ provider[o] \in ProviderRow /\ exchange[o] \in AtExchange
  BY OrderFacts
<1>4. o \in queue /\ provider[o].status # "NONE" /\ exchange[o].status = "NONE" /\ (Kind(o) = "OPEN" => place.left = order[o].size)
  BY <1>1, <1>2 DEF IInv, States, PlaceOk
<1>5. exchange[o].got = 0 /\ order[o].status # "NEW"
  BY <1>3, <1>4 DEF SentOk, OrderOk, NewOk
<1>6. PICK left \in Nat : left = place.left
  BY <1>t DEF Typed, Placement
<1>7. order[o].size \in Nat /\ order[o].filled \in Nat /\ order[o].status \in Statuses /\ exchange[o].sent \in Nat
  BY <1>3 DEF OrderRow, AtExchange
\* What the three outcomes have in common.
<1>8. ASSUME \A x \in Orders \ {o} : order'[x] = order[x] /\ provider'[x] = provider[x] /\ exchange'[x] = exchange[x],
             order'[o] = order[o] \/ order'[o] = [order[o] EXCEPT !.status = "PROVIDER_PENDING"],
             provider'[o].status = "PENDING", provider'[o].rejected => provider[o].rejected,
             \/ exchange'[o] = exchange[o]
             \/ exchange'[o] = [status |-> "open", sent |-> left, got |-> 0]
             \/ exchange'[o] = [exchange[o] EXCEPT !.status = "rejected"],
             \/ Leave
             \/ place' = [place EXCEPT !.pc = "sync"] /\ UNCHANGED queue
      PROVE  Concerns(o) /\ QuietAt(o) /\ PlaceOk'
  <2>1. \A x \in Orders : (x \in queue' => x \in queue) /\ (Waiting(x)' => Waiting(x))
    <3>1. CASE Leave
      BY <1>t, <3>1, LeaveStays
    <3>2. CASE place' = [place EXCEPT !.pc = "sync"] /\ UNCHANGED queue
      <4>1. place'.order = place.order
        BY <1>t, <3>2 DEF Typed, Placement
      <4> QED
        BY <1>2, <3>2, <4>1 DEF Waiting
    <3> QED
      BY <1>8, <3>1, <3>2
  <2>2. \A x \in Orders \ {o} : Same(x)
    BY <1>2, <1>8, <2>1 DEF Same
  <2>3. PICK st \in Statuses \ {"NEW"} : order'[o] = [order[o] EXCEPT !.status = st] /\ st \in {order[o].status, "PROVIDER_PENDING"}
    <3>1. CASE order'[o] = order[o]
      <4>1. order'[o] = [order[o] EXCEPT !.status = order[o].status]
        BY <1>3, <3>1 DEF OrderRow
      <4> QED
        BY <1>5, <1>7, <4>1
    <3>2. CASE order'[o] = [order[o] EXCEPT !.status = "PROVIDER_PENDING"]
      <4>1. "PROVIDER_PENDING" \in Statuses \ {"NEW"}
        BY DEF Statuses, Live
      <4> QED
        BY <3>2, <4>1
    <3> QED
      BY <1>8, <3>1, <3>2
  <2>4. /\ exchange'[o].got = 0 /\ exchange'[o].status \in {"NONE", "open", "rejected"}
        /\ exchange'[o].sent \in {left, exchange[o].sent}
    <3>1. CASE exchange'[o] = exchange[o]
      BY <1>4, <1>5, <3>1
    <3>2. CASE exchange'[o] = [status |-> "open", sent |-> left, got |-> 0]
      BY <3>2
    <3>3. CASE exchange'[o] = [exchange[o] EXCEPT !.status = "rejected"]
      BY <1>3, <1>5, <3>3 DEF AtExchange
    <3> QED
      BY <1>8, <3>1, <3>2, <3>3
  <2>5. ASSUME Kind(o) = "OPEN"
        PROVE  /\ st \in Live \cup {"FILLED", "CANCELLED", "FAILED"}
               /\ st \in {"FILLED", "CANCELLED", "FAILED"} => Settled(o)
               /\ exchange'[o].sent <= order[o].size
               /\ ~provider'[o].rejected
    <3>1. OpeningOk(o)
      BY <1>3, <2>5 DEF OrderOk
    <3>2. exchange'[o].sent <= order[o].size
      BY <1>4, <1>6, <1>7, <2>4, <2>5, <3>1 DEF OpeningOk
    <3>3. ~provider'[o].rejected
      BY <1>4, <1>8, <3>1 DEF OpeningOk
    <3>4. st \in Live \cup {"FILLED", "CANCELLED", "FAILED"} /\ (st \in {"FILLED", "CANCELLED", "FAILED"} => Settled(o))
      BY <1>5, <2>3, <3>1 DEF OpeningOk, Live
    <3> QED
      BY <3>2, <3>3, <3>4
  <2>6. /\ OrderOk(o)'
        /\ order'[o].owner = order[o].owner /\ order'[o].kind = order[o].kind /\ order'[o].side = order[o].side
        /\ order'[o].size = order[o].size /\ order'[o].filled = order[o].filled /\ order'[o].status = st
    BY <1>2, <1>4, <1>5, <1>8, <2>1, <2>3, <2>5, RowOk
  <2>7. SentOk(o)'
    BY <1>6, <1>7, <1>8, <2>4 DEF SentOk
  <2>8. Forth(o)
    BY <1>4, <1>5, <1>7, <1>8, <2>3, <2>4, <2>6 DEF Forth, Ended
  <2>9. QuietAt(o)
    BY <1>2, <1>5, <2>3, <2>6 DEF QuietAt
  <2>10. PlaceOk'
    <3>1. CASE Leave
      BY <1>t, <3>1, LeaveStays
    <3>2. CASE place' = [place EXCEPT !.pc = "sync"] /\ UNCHANGED queue
      <4>1. place'.order = o /\ place'.pc = "sync"
        BY <1>t, <1>1, <3>2 DEF Typed, Placement
      <4> QED
        BY <1>4, <1>8, <3>2, <4>1 DEF PlaceOk
    <3> QED
      BY <1>8, <3>1, <3>2
  <2> QED
    BY <1>2, <2>2, <2>6, <2>7, <2>8, <2>9, <2>10 DEF Concerns
<1>9. CASE /\ exchange' = [exchange EXCEPT ![o] = [status |-> "open", sent |-> left, got |-> 0]]
           /\ provider' = [provider EXCEPT ![o] = [status |-> "PENDING", id |-> TRUE, rejected |-> FALSE]]
           /\ place' = [place EXCEPT !.pc = "sync"] /\ UNCHANGED <<order, queue, rec, budget>>
  <2>1. /\ \A x \in Orders \ {o} : order'[x] = order[x] /\ provider'[x] = provider[x] /\ exchange'[x] = exchange[x]
        /\ provider'[o] = [status |-> "PENDING", id |-> TRUE, rejected |-> FALSE]
        /\ exchange'[o] = [status |-> "open", sent |-> left, got |-> 0]
    BY <1>t, <1>9 DEF Typed
  <2>2. Concerns(o) /\ QuietAt(o) /\ PlaceOk'
    BY <1>8, <1>9, <2>1
  <2> QED
    BY <1>9, <2>2, QuietStep
<1>10. CASE /\ exchange' = [exchange EXCEPT ![o].status = "rejected"]
            /\ rec' = [rec EXCEPT !["place"] = [Idle EXCEPT !.pc = "release", !.order = o, !.base = order[o].filled,
                                                            !.snap = "TERMINAL"]]
            /\ provider' = [provider EXCEPT ![o].status = "PENDING"]
            /\ place' = [place EXCEPT !.pc = "sync"] /\ UNCHANGED <<order, queue, budget>>
  <2>1. /\ \A x \in Orders \ {o} : order'[x] = order[x] /\ provider'[x] = provider[x] /\ exchange'[x] = exchange[x]
        /\ provider'[o] = [provider[o] EXCEPT !.status = "PENDING"]
        /\ exchange'[o] = [exchange[o] EXCEPT !.status = "rejected"]
    BY <1>t, <1>10 DEF Typed
  <2>2. provider'[o].status = "PENDING" /\ provider'[o].rejected = provider[o].rejected
    BY <1>3, <2>1 DEF ProviderRow
  <2>3. Concerns(o) /\ QuietAt(o) /\ PlaceOk'
    BY <1>8, <1>10, <2>1, <2>2
  <2>4. \A q \in Recs \ {"place"} : rec'[q] = rec[q]
    BY <1>t, <1>10 DEF Typed
  <2>5. VisitOk("place")'
    <3>1. rec'["place"] = [pc |-> "release", order |-> o, base |-> order[o].filled, id |-> FALSE, snap |-> "TERMINAL", n |-> 0, why |-> "NONE"]
      BY <1>t, <1>10 DEF Typed, Idle, Recs
    <3>2. exchange'[o].status = "rejected" /\ exchange'[o].got = 0
      BY <1>3, <1>5, <2>1 DEF AtExchange
    <3>3. order[o].filled <= order[o].filled
      BY <1>7
    <3>4. PICK v : v = rec'["place"]
      OBVIOUS
    <3>5. /\ v.pc = "release" /\ v.order = o /\ v.base = order[o].filled /\ v.snap = "TERMINAL"
          /\ v.n = 0 /\ v.why = "NONE"
      BY <3>1, <3>4
    <3>6. order' = order /\ provider'[o].status # "NONE" /\ order'[o].status # "NEW"
      BY <1>5, <1>10, <2>2
    <3> QED
      BY <3>2, <3>3, <3>4, <3>5, <3>6 DEF VisitOk
  <2> QED
    BY <2>3, <2>4, <2>5, QuietStep
<1>11. CASE /\ \/ exchange' = [exchange EXCEPT ![o] = [status |-> "open", sent |-> left, got |-> 0]]
               \/ UNCHANGED exchange
            /\ provider' = [provider EXCEPT ![o].status = "PENDING", ![o].rejected = FALSE]
            /\ order' = [order EXCEPT ![o].status = "PROVIDER_PENDING"]
            /\ Leave /\ UNCHANGED rec
  <2>1. /\ \A x \in Orders \ {o} : order'[x] = order[x] /\ provider'[x] = provider[x] /\ exchange'[x] = exchange[x]
        /\ provider'[o] = [provider[o] EXCEPT !.status = "PENDING", !.rejected = FALSE]
        /\ order'[o] = [order[o] EXCEPT !.status = "PROVIDER_PENDING"]
        /\ exchange'[o] = exchange[o] \/ exchange'[o] = [status |-> "open", sent |-> left, got |-> 0]
    BY <1>t, <1>11 DEF Typed
  <2>2. provider'[o].status = "PENDING" /\ provider'[o].rejected = FALSE
    BY <1>3, <2>1 DEF ProviderRow
  <2>3. Concerns(o) /\ QuietAt(o) /\ PlaceOk'
    BY <1>8, <1>11, <2>1, <2>2
  <2> QED
    BY <1>11, <2>3, QuietStep
<1> QED
  BY <1>1, <1>6, <1>9, <1>10, <1>11 DEF PlaceSend

LEMMA ExchangeStep ==
  ASSUME IInv, Typed', NEW o \in Orders, ExchangeFill(o) \/ ExchangeEnd(o)
  PROVE  IInv'
<1>t. Typed
  BY DEF IInv, Books
<1>1. UNCHANGED <<order, provider, applied, position, ledger, queue, place, rec, over>> /\ exchange[o].status = "open"
  BY DEF ExchangeFill, ExchangeEnd
<1>2. OrderOk(o) /\ SentOk(o) /\ order[o] \in OrderRow /\ exchange[o] \in AtExchange
  BY OrderFacts
<1>3. PICK got \in Nat, sent \in Nat : got = exchange[o].got /\ sent = exchange[o].sent
  BY <1>2 DEF AtExchange
<1>4. /\ \A x \in Orders \ {o} : exchange'[x] = exchange[x]
      /\ exchange'[o].status \in {"open", "filled", "canceled"}
      /\ exchange'[o].got \in Nat /\ exchange'[o].got <= sent /\ got <= exchange'[o].got /\ exchange'[o].sent = sent
  <2>1. CASE ExchangeFill(o)
    <3>1. got < sent /\ got + 1 \in Nat
      BY <1>3, <2>1 DEF ExchangeFill
    <3>2. PICK st \in {"filled", "open"} : st = IF got + 1 = sent THEN "filled" ELSE "open"
      OBVIOUS
    <3>3. exchange' = [exchange EXCEPT ![o] = [exchange[o] EXCEPT !.got = got + 1, !.status = st]]
      BY <1>t, <1>3, <2>1, <3>2 DEF ExchangeFill, Typed
    <3>4. exchange'[o] = [exchange[o] EXCEPT !.got = got + 1, !.status = st] /\ \A x \in Orders \ {o} : exchange'[x] = exchange[x]
      BY <1>t, <3>3 DEF Typed
    <3>5. exchange'[o].got = got + 1 /\ exchange'[o].status = st /\ exchange'[o].sent = sent
      BY <1>2, <1>3, <3>4 DEF AtExchange
    <3> QED
      BY <3>1, <3>4, <3>5
  <2>2. CASE ExchangeEnd(o)
    <3>1. PICK st \in {"filled", "canceled"} : exchange' = [exchange EXCEPT ![o].status = st]
      BY <2>2 DEF ExchangeEnd
    <3>2. exchange'[o] = [exchange[o] EXCEPT !.status = st] /\ \A x \in Orders \ {o} : exchange'[x] = exchange[x]
      BY <1>t, <3>1 DEF Typed
    <3>3. exchange'[o].got = got /\ exchange'[o].status = st /\ exchange'[o].sent = sent
      BY <1>2, <1>3, <3>2 DEF AtExchange
    <3>4. got <= sent
      BY <1>2, <1>3 DEF SentOk
    <3> QED
      BY <3>2, <3>3, <3>4
  <2> QED
    BY <2>1, <2>2
<1>5. provider[o].status # "NONE"
  BY <1>1, <1>2 DEF SentOk
<1>6. OrderOk(o)' /\ SentOk(o)'
  <2>1. ASSUME Kind(o) = "OPEN"
        PROVE  OpeningOk(o)'
    <3>1. OpeningOk(o)
      BY <1>2, <2>1 DEF OrderOk
    <3>2. Settled(o)' <=> Settled(o)
      BY <1>1 DEF Settled
    <3>3. Waiting(o)' <=> Waiting(o)
      BY <1>1 DEF Waiting
    <3>4. ~AllPosted(o)
      BY <1>1 DEF AllPosted, Ended
    <3>5. \A k \in Nat : <<o, k>> \in DOMAIN applied' <=> k \in 1 .. order'[o].filled
      BY <1>1, <3>1 DEF OpeningOk
    <3>6. exchange'[o].sent <= order'[o].size
      BY <1>1, <1>3, <1>4, <3>1 DEF OpeningOk
    <3>7. ~provider'[o].rejected
      BY <1>1, <3>1 DEF OpeningOk
    <3> QED
      BY <1>1, <1>5, <3>1, <3>2, <3>3, <3>4, <3>5, <3>6, <3>7 DEF OpeningOk
  <2>2. SentOk(o)'
    BY <1>1, <1>4, <1>5 DEF SentOk
  <2> QED
    BY <1>1, <1>2, <2>1, <2>2 DEF OrderOk, NewOk, Kind
<1>7. Forth(o)
  <2>1. order[o].filled \in Nat
    BY <1>2 DEF OrderRow
  <2> QED
    BY <1>1, <1>3, <1>4, <2>1 DEF Forth, Ended
<1>8. \A x \in Orders \ {o} : Same(x)
  BY <1>1, <1>4 DEF Same, Waiting
<1>9. Concerns(o) /\ QuietAt(o) /\ KeepsPlace(o)
  BY <1>1, <1>6, <1>7, <1>8 DEF Concerns, QuietAt, KeepsPlace
<1> QED
  BY <1>1, <1>9, QuietStep

-----------------------------------------------------------------------------
(* Reconciliation: what it asks, and the rows it writes *)

\* The order a reconciliation is at has a provider row.
LEMMA BeginStep ==
  ASSUME IInv, Typed', NEW r \in Recs, NEW o \in Orders, RecBegin(r, o), provider[o].status # "NONE"
  PROVE  IInv'
<1>t. Typed
  BY DEF IInv, Books
<1>1. UNCHANGED <<order, provider, exchange, applied, position, ledger, event, over, budget>> /\ Begun(r, o)
  BY <1>t, BeginCases
<1>2. OrderOk(o) /\ order[o] \in OrderRow /\ exchange[o] \in AtExchange
  BY OrderFacts
<1>3. CASE Done(r)
  BY <1>t, <1>1, <1>3, DoneStays, CallStep
<1>4. ASSUME NEW v \in Visit, UNCHANGED <<place, queue>>,
             Step(r, v) /\ v.order = o /\ v.base = order[o].filled /\ v.n \in {0, exchange[o].got} /\ v.why = "NONE",
             \/ v.pc = "release" /\ v.snap = "TERMINAL" /\ provider[o].rejected
             \/ v.pc = "ask-snap" /\ v.snap = "NONE"
             \/ v.pc = "ask-fills" /\ v.snap = Snapshot(o)
      PROVE  IInv'
  <2>1. rec'[r] = v /\ \A q \in Recs \ {r} : rec'[q] = rec[q]
    BY <1>t, <1>4 DEF Step, Typed
  <2>2. v.base <= order[o].filled /\ v.n <= exchange[o].got
    <3>1. order[o].filled \in Nat /\ exchange[o].got \in Nat
      BY <1>2 DEF OrderRow, AtExchange
    <3> QED
      BY <1>4, <3>1
  <2>3. order[o].status # "NEW"
    BY <1>2 DEF OrderOk, NewOk
  <2>4. /\ Snapshot(o) \in {"UNKNOWN", "OPEN", "FILLED", "CANCELLED", "REJECTED"}
        /\ Snapshot(o) = "FILLED" => exchange[o].status = "filled"
        /\ Snapshot(o) = "CANCELLED" => exchange[o].status = "canceled"
        /\ Snapshot(o) = "REJECTED" => exchange[o].status = "rejected"
    BY <1>t, SnapshotType
  <2>5. Kind(o) = "OPEN" /\ provider[o].rejected => exchange[o].status = "rejected"
    BY <1>2 DEF OrderOk, OpeningOk
  <2>6. VisitOk(r)'
    BY <1>1, <1>4, <2>1, <2>2, <2>3, <2>4, <2>5 DEF VisitOk, Kind
  <2>7. \A x \in Orders : (x \in queue' => x \in queue) /\ (Waiting(x)' => Waiting(x))
    BY <1>4 DEF Waiting
  <2> QED
    BY <1>1, <1>4, <2>1, <2>6, <2>7, CallStep
<1> QED
  BY <1>1, <1>3, <1>4 DEF Begun

LEMMA BeginsStep ==
  ASSUME IInv, Typed', NEW o \in Orders, WorkerBegins(o) \/ PlaceSync \/ CancelSync
  PROVE  IInv'
<1>1. CASE WorkerBegins(o)
  BY <1>1, BeginStep DEF WorkerBegins, Recs
<1>2. CASE PlaceSync
  <2>1. place.pc = "sync" /\ RecBegin("place", place.order)
    BY <1>2 DEF PlaceSync
  <2>2. place.order \in Orders /\ provider[place.order].status # "NONE"
    BY <2>1 DEF IInv, Books, Typed, States, PlaceOk
  <2> QED
    BY <2>1, <2>2, BeginStep DEF Recs
<1>3. CASE CancelSync
  <2>1. rec["user"].pc = "cancelled" /\ RecBegin("user", rec["user"].order)
    BY <1>3 DEF CancelSync
  <2>2. rec["user"].order \in Orders /\ provider[rec["user"].order].status # "NONE"
    BY <2>1, VisitedOrder DEF Recs
  <2> QED
    BY <2>1, <2>2, BeginStep DEF Recs
<1> QED
  BY <1>1, <1>2, <1>3

\* A reconciliation learns something and goes on.
LEMMA GoesOn ==
  ASSUME IInv, Typed', UNCHANGED <<order, provider, exchange, applied, position, ledger, over, place, queue>>,
         NEW r \in Recs, NEW v, Step(r, v), rec'[r] = v => VisitOk(r)'
  PROVE  IInv'
<1>1. rec'[r] = v /\ \A q \in Recs \ {r} : rec'[q] = rec[q]
  BY DEF Step, IInv, Books, Typed
<1>2. \A x \in Orders : (x \in queue' => x \in queue) /\ (Waiting(x)' => Waiting(x))
  BY DEF Waiting
<1> QED
  BY <1>1, <1>2, CallStep

LEMMA AskStep ==
  ASSUME IInv, Typed', NEW r \in Recs, RecAsk(r) \/ RecAskFails(r)
  PROVE  IInv'
<1>t. Typed
  BY DEF IInv, Books
<1>1. UNCHANGED <<order, provider, exchange, applied, position, ledger, over, place, queue>>
  BY DEF RecAsk, RecAskFails
<1>2. rec[r].pc \in {"ask-snap", "ask-fills"}
  BY DEF RecAsk, RecAskFails
<1>3. PICK o \in Orders : o = rec[r].order
  BY <1>t, <1>2 DEF Typed
<1>4. PICK x \in Visit : x = rec[r]
  BY <1>t DEF Typed
<1>5. VisitOk(r)
  BY DEF IInv, States
<1>6. /\ Snapshot(o) \in {"UNKNOWN", "OPEN", "FILLED", "CANCELLED", "REJECTED"}
      /\ Snapshot(o) = "FILLED" => exchange[o].status = "filled"
      /\ Snapshot(o) = "CANCELLED" => exchange[o].status = "canceled"
      /\ Snapshot(o) = "REJECTED" => exchange[o].status = "rejected"
  BY <1>t, SnapshotType
<1>7. exchange[o].got <= exchange[o].got
  <2>1. exchange[o].got \in Nat
    BY <1>t, OrderTypes DEF AtExchange
  <2> QED
    BY <2>1
<1>8. CASE rec[r].pc = "ask-snap" /\ Step(r, [x EXCEPT !.pc = "apply", !.snap = Snapshot(o)])
  <2>1. PICK v : v = [x EXCEPT !.pc = "apply", !.snap = Snapshot(o)]
    OBVIOUS
  <2>2. v.pc = "apply" /\ v.snap = Snapshot(o) /\ v.order = o /\ v.base = x.base /\ v.n = x.n /\ v.id = x.id /\ v.why = x.why
    BY <1>3, <1>4, <2>1 DEF Visit
  <2>3. rec'[r] = v => VisitOk(r)'
    BY <1>1, <1>3, <1>4, <1>5, <1>6, <1>8, <2>2 DEF VisitOk, Kind
  <2> QED
    BY <1>1, <1>8, <2>1, <2>3, GoesOn
<1>9. CASE rec[r].pc = "ask-fills" /\ Step(r, [x EXCEPT !.pc = "apply", !.n = exchange[o].got])
  <2>1. PICK v : v = [x EXCEPT !.pc = "apply", !.n = exchange[o].got]
    OBVIOUS
  <2>2. v.pc = "apply" /\ v.snap = x.snap /\ v.order = o /\ v.base = x.base /\ v.n = exchange[o].got /\ v.id = x.id /\ v.why = x.why
    BY <1>3, <1>4, <2>1 DEF Visit
  <2>3. rec'[r] = v => VisitOk(r)'
    BY <1>1, <1>3, <1>4, <1>5, <1>7, <1>9, <2>2 DEF VisitOk, Kind
  <2> QED
    BY <1>1, <1>9, <2>1, <2>3, GoesOn
<1>10. CASE Step(r, [x EXCEPT !.pc = "error", !.why = "other"])
  <2>1. PICK v : v = [x EXCEPT !.pc = "error", !.why = "other"]
    OBVIOUS
  <2>2. v.pc = "error" /\ v.snap = x.snap /\ v.order = o /\ v.base = x.base /\ v.n = x.n /\ v.id = x.id /\ v.why = "other"
    BY <1>3, <1>4, <2>1 DEF Visit
  <2>3. rec'[r] = v => VisitOk(r)'
    BY <1>1, <1>2, <1>3, <1>4, <1>5, <2>2 DEF VisitOk, Kind
  <2> QED
    BY <1>1, <1>10, <2>1, <2>3, GoesOn
<1> QED
  BY <1>3, <1>4, <1>8, <1>9, <1>10 DEF RecAsk, RecAskFails

\* A fill of an opening order is never refused: the exchange was not sent more than its size.
LEMMA Unfilled ==
  ASSUME IInv, NEW r \in Recs, rec[r].pc # "idle", NEW o, o = rec[r].order, Kind(o) = "OPEN",
         NEW k \in Unapplied(r)
  PROVE  k \in Nat /\ order[o].filled < k /\ k <= exchange[o].got /\ k <= order[o].size
<1>1. o \in Orders
  BY VisitedOrder
<1>2. rec[r].n <= exchange[o].got /\ rec[r].n \in Nat
  BY DEF IInv, Books, States, Typed, Visit, VisitOk
<1>3. k \in 1 .. rec[r].n /\ <<o, k>> \notin DOMAIN applied
  BY DEF Unapplied
<1>4. OpeningOk(o) /\ SentOk(o) /\ order[o] \in OrderRow /\ exchange[o] \in AtExchange
  BY <1>1, OrderFacts DEF OrderOk
<1>5. k \notin 1 .. order[o].filled
  BY <1>2, <1>3, <1>4 DEF OpeningOk
<1>6. exchange[o].got <= exchange[o].sent /\ exchange[o].sent <= order[o].size
  BY <1>4 DEF SentOk, OpeningOk
<1>7. order[o].filled \in Nat /\ order[o].size \in Nat /\ exchange[o].got \in Nat /\ exchange[o].sent \in Nat
  BY <1>4 DEF OrderRow, AtExchange
<1> QED
  BY <1>2, <1>3, <1>5, <1>6, <1>7

LEMMA Room == \A size, filled, k \in Nat : filled < k /\ k <= size => ~(size - filled < 1)
  OBVIOUS

LEMMA RefuseStep ==
  ASSUME IInv, Typed', NEW r \in Recs, RecApply(r), Refuses(r)
  PROVE  IInv'
<1>t. Typed
  BY DEF IInv, Books
<1>1. UNCHANGED <<order, provider, exchange, applied, position, ledger, over, place, queue>> /\ rec[r].pc = "apply"
  BY <1>t, ApplyCases DEF Refuses
<1>2. PICK why \in {"order size", "reduce-only"} : Step(r, [rec[r] EXCEPT !.pc = "error", !.why = why])
  BY DEF Refuses
<1>3. PICK o \in Orders : o = rec[r].order
  BY <1>t, <1>1 DEF Typed
<1>4. Kind(o) # "OPEN"
  <2>1. ASSUME Kind(o) = "OPEN"
        PROVE  FALSE
    <3>1. PICK k : k \in Unapplied(r)
      BY DEF RecApply
    <3>2. order[o].filled < k /\ k <= order[o].size /\ k \in Nat
      BY <1>1, <1>3, <2>1, <3>1, Unfilled
    <3>3. order[o].size \in Nat /\ order[o].filled \in Nat
      BY <1>t, OrderTypes
    <3>4. ~(order[o].size - order[o].filled < 1)
      <4>1. PICK size \in Nat, filled \in Nat : size = order[o].size /\ filled = order[o].filled
        BY <3>3
      <4>2. PICK m \in Nat : m = k
        BY <3>2
      <4>3. filled < m /\ m <= size
        BY <3>2, <4>1, <4>2
      <4>4. ~(size - filled < 1)
        BY <4>1, <4>2, <4>3, Room
      <4> QED
        BY <4>1, <4>4
    <3>6. RecApply(r) => ApplyFill(o, <<o, Min(Unapplied(r))>>, 1) /\ UNCHANGED rec
      BY <1>3, <2>1, <3>4 DEF RecApply, ReduceOnly
    <3>7. rec[r].pc = "error" \/ rec' # rec
      <4>1. rec'[r] = [rec[r] EXCEPT !.pc = "error", !.why = why]
        BY <1>t, <1>2 DEF Step, Typed
      <4>2. rec'[r].pc = "error"
        <5>1. rec[r] \in Visit
          BY <1>t DEF Typed
        <5> QED
          BY <4>1, <5>1 DEF Visit
      <4> QED
        BY <4>2
    <3> QED
      BY <1>1, <3>6, <3>7
  <2> QED
    BY <2>1
<1>5. PICK x \in Visit : x = rec[r]
  BY <1>t DEF Typed
<1>6. VisitOk(r)
  BY DEF IInv, States
<1>7. PICK v : v = [x EXCEPT !.pc = "error", !.why = why]
  OBVIOUS
<1>8. v.pc = "error" /\ v.snap = x.snap /\ v.order = o /\ v.base = x.base /\ v.n = x.n /\ v.id = x.id
  BY <1>3, <1>5, <1>7 DEF Visit
<1>9. rec'[r] = v => VisitOk(r)'
  BY <1>1, <1>3, <1>4, <1>5, <1>6, <1>8 DEF VisitOk, Kind
<1> QED
  BY <1>1, <1>2, <1>5, <1>7, <1>9, GoesOn

\* The rows of a visited order are written, and the visit is done.
Written(r, o, st, row, rejected) ==
  /\ rec[r].pc # "idle" /\ o = rec[r].order /\ provider[o].status # "NONE"
  /\ st \in Statuses \ {"NEW"} /\ row \in {"PENDING", "FILLED", "CANCELLED", "FAILED"} /\ rejected \in BOOLEAN
  /\ order' = [order EXCEPT ![o].status = st]
  /\ \A x \in Orders \ {o} : provider'[x] = provider[x]
  /\ provider'[o].status = row /\ provider'[o].rejected = rejected
  /\ UNCHANGED <<exchange, applied, position, ledger, over>> /\ Done(r)
  /\ Kind(o) = "OPEN" =>
           /\ st \in Live \cup {"FILLED", "CANCELLED", "FAILED"}
           /\ st \in {"FILLED", "CANCELLED", "FAILED"} => Settled(o)
           /\ rejected => exchange[o].status = "rejected"
           /\ row \in {"FILLED", "CANCELLED", "FAILED"} =>
                o \in over.missed \/ order[o].filled = order[o].size \/ AllPosted(o)

LEMMA WrittenStep ==
  ASSUME IInv, Typed', NEW r \in Recs, NEW o, NEW st, NEW row, NEW rejected, Written(r, o, st, row, rejected)
  PROVE  IInv'
<1> USE DEF Written
<1>t. Typed
  BY DEF IInv, Books
<1>1. o \in Orders /\ order[o].status # "NEW"
  BY VisitedOrder
<1>2. OrderOk(o) /\ SentOk(o) /\ order[o] \in OrderRow /\ exchange[o] \in AtExchange
  BY <1>1, OrderFacts
<1>3. /\ PlaceOk' \/ (place' = place /\ queue' = queue)
      /\ \A x \in Orders : (x \in queue' => x \in queue) /\ (Waiting(x)' => Waiting(x))
      /\ \A q \in Recs : rec'[q] = rec[q] \/ VisitOk(q)'
  BY <1>t, DoneStays
<1>4. order'[o] = [order[o] EXCEPT !.status = st] /\ \A x \in Orders \ {o} : order'[x] = order[x]
  BY <1>t, <1>1 DEF Typed
<1>5. \A x \in Orders \ {o} : Same(x)
  BY <1>3, <1>4 DEF Same
<1>6. AllPosted(o) => AllPosted(o)'
  <2>1. order'[o].filled = order[o].filled
    BY <1>2, <1>4 DEF OrderRow
  <2> QED
    BY <2>1 DEF AllPosted
<1>7. Kind(o) = "OPEN" => exchange'[o].sent <= order[o].size
  BY <1>2 DEF OrderOk, OpeningOk
<1>8. Kind(o) = "OPEN" =>
           /\ st \in Live \cup {"FILLED", "CANCELLED", "FAILED"}
           /\ st \in {"FILLED", "CANCELLED", "FAILED"} => Settled(o)
           /\ exchange'[o].sent <= order[o].size
           /\ provider'[o].rejected => exchange'[o].status = "rejected"
           /\ provider'[o].status \in {"FILLED", "CANCELLED", "FAILED"} =>
                o \in over'.missed \/ order[o].filled = order[o].size \/ AllPosted(o)'
  BY <1>6, <1>7
<1>9. provider'[o].status # "NONE"
  OBVIOUS
<1>10. /\ OrderOk(o)'
       /\ order'[o].owner = order[o].owner /\ order'[o].kind = order[o].kind /\ order'[o].side = order[o].side
       /\ order'[o].size = order[o].size /\ order'[o].filled = order[o].filled /\ order'[o].status = st
  <2>1. Waiting(o)' => Waiting(o)
    BY <1>1, <1>3
  <2> QED
    BY <1>1, <1>4, <1>8, <1>9, <2>1, RowOk
<1>11. Concerns(o)
  <2>1. order[o].filled \in Nat /\ exchange[o].got \in Nat
    BY <1>2 DEF OrderRow, AtExchange
  <2>2. Forth(o)
    BY <1>9, <1>10, <2>1 DEF Forth
  <2>3. SentOk(o)'
    BY <1>2, <1>9 DEF SentOk
  <2> QED
    BY <1>5, <1>10, <2>2, <2>3 DEF Concerns
<1>12. QuietAt(o)
  BY <1>1, <1>10 DEF QuietAt
<1>13. KeepsPlace(o) \/ PlaceOk'
  BY <1>3 DEF KeepsPlace
<1> QED
  BY <1>1, <1>3, <1>11, <1>12, <1>13, QuietStep

\* What a verdict needs of an opening order.
Verdict(o, verdict, row, st) ==
  Kind(o) = "OPEN" =>
    /\ st \in Live \cup {"FILLED", "CANCELLED", "FAILED"}
    /\ st \in {"FILLED", "CANCELLED", "FAILED"} => Settled(o)
    /\ verdict = "TERMINAL" => exchange[o].status = "rejected"
    /\ row \in {"FILLED", "CANCELLED", "FAILED"} =>
         o \in over.missed \/ order[o].filled = order[o].size \/ AllPosted(o)

LEMMA VerdictStep ==
  ASSUME IInv, Typed', NEW r \in Recs, rec[r].pc \notin {"idle", "cancel"},
         NEW verdict, NEW row \in {"PENDING", "FILLED", "CANCELLED", "FAILED"},
         NEW st \in Statuses \ {"NEW"}, Write(r, verdict, row, st), Verdict(rec[r].order, verdict, row, st)
  PROVE  IInv'
<1>o. PICK o : o = rec[r].order
  OBVIOUS
<1>1. o \in Orders /\ provider[o].status # "NONE" /\ order[o].status # "NEW"
  BY <1>o, VisitedOrder
<1>2. PICK rejected \in BOOLEAN : rejected = (verdict = "TERMINAL")
  OBVIOUS
<1>3. PICK id : id = (provider[o].id \/ verdict \notin {"UNKNOWN", "TERMINAL"})
  OBVIOUS
<1>4. provider' = [provider EXCEPT ![o] = [status |-> row, rejected |-> rejected, id |-> id]]
  BY <1>o, <1>2, <1>3 DEF Write
<1>5. /\ \A x \in Orders \ {o} : provider'[x] = provider[x]
      /\ provider'[o].status = row /\ provider'[o].rejected = rejected
  <2>1. provider'[o] = [status |-> row, rejected |-> rejected, id |-> id] /\ \A x \in Orders \ {o} : provider'[x] = provider[x]
    BY <1>1, <1>4 DEF IInv, Books, Typed
  <2> QED
    BY <2>1
<1>6. UNCHANGED <<exchange, applied, position, ledger, over>> /\ Done(r) /\ order' = [order EXCEPT ![o].status = st]
  BY <1>o DEF Write
<1>7. rejected => verdict = "TERMINAL"
  BY <1>2
<1>8. Written(r, o, st, row, rejected)
  BY <1>o, <1>1, <1>5, <1>6, <1>7 DEF Written, Verdict
<1> QED
  BY <1>8, WrittenStep

LEMMA WriteLiveStep ==
  ASSUME IInv, Typed', NEW r \in Recs, RecWriteLive(r)
  PROVE  IInv'
<1>1. PICK o : o = rec[r].order
  OBVIOUS
<1>2. rec[r].pc = "apply"
  BY DEF RecWriteLive
<1>3. o \in Orders /\ order[o].status # "NEW"
  BY <1>1, <1>2, VisitedOrder
<1>4. OrderOk(o) /\ order[o] \in OrderRow
  BY <1>3, OrderFacts
<1>s. /\ order[o].status \in Statuses \ {"NEW"} /\ "FILLED" \in Statuses \ {"NEW"}
      /\ "PARTIALLY_FILLED" \in Statuses \ {"NEW"} /\ "OPEN" \in Statuses \ {"NEW"}
  BY <1>3, <1>4 DEF OrderRow, Statuses, Live
<1>5. CASE order[o].filled >= order[o].size /\ Write(r, "FULL", "FILLED", "FILLED")
  <2>1. order[o].filled = order[o].size
    <3>1. order[o].filled \in Nat /\ order[o].size \in Nat
      BY <1>4 DEF OrderRow
    <3>2. order[o].filled <= order[o].size
      BY <1>3 DEF IInv, Books, SizesOk
    <3> QED
      BY <1>5, <3>1, <3>2
  <2> QED
    <3>1. Verdict(rec[r].order, "FULL", "FILLED", "FILLED")
      BY <1>1, <2>1 DEF Verdict, Settled
    <3> QED
      BY <1>2, <1>s, <1>5, <3>1, VerdictStep
<1>6. CASE Write(r, "UNKNOWN", "PENDING", order[o].status)
  <2>1. Kind(o) = "OPEN" =>
          /\ order[o].status \in Live \cup {"FILLED", "CANCELLED", "FAILED"}
          /\ order[o].status \in {"FILLED", "CANCELLED", "FAILED"} => Settled(o)
    BY <1>3, <1>4 DEF OrderOk, OpeningOk
  <2> QED
    <3>1. Verdict(rec[r].order, "UNKNOWN", "PENDING", order[o].status)
      BY <1>1, <2>1 DEF Verdict
    <3> QED
      BY <1>2, <1>s, <1>6, <3>1, VerdictStep
<1>7. CASE Write(r, "OPEN", "PENDING", "PARTIALLY_FILLED") \/ Write(r, "OPEN", "PENDING", "OPEN")
  <2>1. "PARTIALLY_FILLED" \in Live /\ "OPEN" \in Live
    BY DEF Live
  <2> QED
    <3>1. Verdict(rec[r].order, "OPEN", "PENDING", "PARTIALLY_FILLED") /\ Verdict(rec[r].order, "OPEN", "PENDING", "OPEN")
      BY <2>1 DEF Verdict
    <3> QED
      BY <1>2, <1>s, <1>7, <3>1, VerdictStep
<1> QED
  BY <1>1, <1>5, <1>6, <1>7 DEF RecWriteLive

LEMMA WriteEndStep ==
  ASSUME IInv, Typed', NEW r \in Recs, RecWriteEnd(r)
  PROVE  IInv'
<1>1. PICK o : o = rec[r].order
  OBVIOUS
<1>2. rec[r].pc = "write"
  BY DEF RecWriteEnd
<1>3. VisitOk(r)
  BY DEF IInv, States
<1>4. rec[r].snap \in {"FILLED", "CANCELLED", "REJECTED", "TERMINAL"}
  BY <1>2, <1>3 DEF VisitOk
<1>5. Kind(o) = "OPEN" => /\ Settled(o) /\ (o \in over.missed \/ AllPosted(o))
                          /\ rec[r].snap = "TERMINAL" => exchange[o].status = "rejected"
  BY <1>1, <1>2, <1>3 DEF VisitOk
<1>6. PICK verdict \in {"FILLED", "CANCELLED", "REJECTED", "TERMINAL"} : verdict = rec[r].snap
  BY <1>4
<1>7. PICK row \in {"FILLED", "CANCELLED", "FAILED"} : \E st \in {"CANCELLED", "FAILED"} : Write(r, verdict, row, st)
  <2>1. CASE verdict = "FILLED"
    BY <1>6, <2>1 DEF RecWriteEnd
  <2>2. CASE verdict = "CANCELLED"
    BY <1>6, <2>2 DEF RecWriteEnd
  <2>3. CASE verdict = "REJECTED"
    BY <1>6, <2>3 DEF RecWriteEnd
  <2>4. CASE verdict = "TERMINAL"
    BY <1>6, <2>4 DEF RecWriteEnd
  <2> QED
    BY <2>1, <2>2, <2>3, <2>4
<1>8. PICK st \in {"CANCELLED", "FAILED"} : Write(r, verdict, row, st)
  BY <1>7
<1>9. st \in Statuses \ {"NEW"}
  BY DEF Statuses
<1> QED
  <2>1. Verdict(rec[r].order, verdict, row, st)
    BY <1>1, <1>5, <1>6 DEF Verdict
  <2> QED
    BY <1>2, <1>8, <1>9, <2>1, VerdictStep

LEMMA ErrorStep ==
  ASSUME IInv, Typed', NEW r \in Recs, RecError(r)
  PROVE  IInv'
<1>t. Typed
  BY DEF IInv, Books
<1>1. PICK o : o = rec[r].order
  OBVIOUS
<1>2. rec[r].pc = "error" /\ UNCHANGED <<exchange, applied, position, ledger, over>>
  BY DEF RecError
<1>3. o \in Orders /\ order[o].status # "NEW" /\ provider[o].status # "NONE"
  BY <1>1, <1>2, VisitedOrder
<1>4. OrderOk(o) /\ order[o] \in OrderRow /\ provider[o] \in ProviderRow /\ SentOk(o) /\ exchange[o] \in AtExchange
  BY <1>3, OrderFacts
<1>5. VisitOk(r)
  BY DEF IInv, States
<1>6. PICK t \in BOOLEAN : t = Terminal(rec[r].why)
  <2>1. (rec[r].why \in {"reduce-only", "order size"}) \in BOOLEAN
    OBVIOUS
  <2> QED
    BY <2>1 DEF Terminal
<1>7. Kind(o) = "OPEN" => ~t
  BY <1>1, <1>2, <1>5, <1>6 DEF VisitOk, Terminal
<1>8. ASSUME NEW st \in {"PENDING", "FILLED"}, NEW u \in BOOLEAN,
             provider' = [provider EXCEPT ![o].status = st, ![o].rejected = u]
      PROVE  /\ \A x \in Orders \ {o} : provider'[x] = provider[x]
             /\ provider'[o].status = st /\ provider'[o].rejected = u
  <2>1. provider'[o] = [provider[o] EXCEPT !.status = st, !.rejected = u] /\ \A x \in Orders \ {o} : provider'[x] = provider[x]
    BY <1>t, <1>3, <1>8 DEF Typed
  <2> QED
    BY <1>4, <2>1 DEF ProviderRow
<1>9. CASE /\ Superseded(r)
           /\ provider' = [provider EXCEPT ![o].status = "FILLED", ![o].rejected = FALSE]
           /\ order' = [order EXCEPT ![o].status = "CANCELLED"]
           /\ Done(r)
  <2>1. Kind(o) # "OPEN"
    BY <1>1, <1>9 DEF Superseded, ReduceOnly
  <2>2. "CANCELLED" \in Statuses \ {"NEW"}
    BY DEF Statuses
  <2>3. /\ \A x \in Orders \ {o} : provider'[x] = provider[x]
        /\ provider'[o].status = "FILLED" /\ provider'[o].rejected = FALSE
    BY <1>8, <1>9
  <2> QED
    <3>1. Written(r, o, "CANCELLED", "FILLED", FALSE)
      BY <1>1, <1>2, <1>3, <1>9, <2>1, <2>2, <2>3 DEF Written
    <3> QED
      BY <3>1, WrittenStep
<1>10. CASE /\ provider' = [provider EXCEPT ![o].status = "PENDING", ![o].rejected = t]
            /\ order' = IF r = "place" THEN [order EXCEPT ![o].status = "PROVIDER_PENDING"] ELSE order
            /\ Done(r)
  <2>1. PICK st \in Statuses \ {"NEW"} : order' = [order EXCEPT ![o].status = st] /\ st \in {order[o].status, "PROVIDER_PENDING"}
    <3>1. CASE r = "place"
      <4>1. "PROVIDER_PENDING" \in Statuses \ {"NEW"}
        BY DEF Statuses, Live
      <4> QED
        BY <1>10, <3>1, <4>1
    <3>2. CASE r # "place"
      <4>1. order[o].status \in Statuses \ {"NEW"}
        BY <1>3, <1>4 DEF OrderRow
      <4>2. [order EXCEPT ![o].status = order[o].status] = order
        <5>1. [order[o] EXCEPT !.status = order[o].status] = order[o]
          BY <1>4 DEF OrderRow
        <5>2. [order EXCEPT ![o] = order[o]] = order
          BY <1>t, <1>3 DEF Typed
        <5> QED
          BY <5>1, <5>2
      <4> QED
        BY <1>10, <3>2, <4>1, <4>2
    <3> QED
      BY <3>1, <3>2
  <2>2. Kind(o) = "OPEN" =>
          /\ st \in Live \cup {"FILLED", "CANCELLED", "FAILED"}
          /\ st \in {"FILLED", "CANCELLED", "FAILED"} => Settled(o)
    BY <1>3, <1>4, <2>1 DEF OrderOk, OpeningOk, Live
  <2>3. /\ \A x \in Orders \ {o} : provider'[x] = provider[x]
        /\ provider'[o].status = "PENDING" /\ provider'[o].rejected = t
    BY <1>8, <1>10
  <2> QED
    <3>1. Written(r, o, st, "PENDING", t)
      BY <1>1, <1>2, <1>3, <1>7, <1>10, <2>1, <2>2, <2>3 DEF Written
    <3> QED
      BY <3>1, WrittenStep
<1>11. CASE /\ t /\ provider' = [provider EXCEPT ![o].status = "PENDING", ![o].rejected = t]
            /\ Step(r, [rec[r] EXCEPT !.pc = "release", !.snap = "TERMINAL", !.base = order[o].filled])
            /\ UNCHANGED <<order, place, queue>>
  <2>1. /\ \A x \in Orders \ {o} : provider'[x] = provider[x]
        /\ provider'[o].status = "PENDING" /\ provider'[o].rejected = t
    BY <1>8, <1>11
  <2>2. Kind(o) # "OPEN"
    BY <1>7, <1>11
  <2>3. \A x \in Orders \ {o} : Same(x)
    BY <1>2, <1>11, <2>1 DEF Same, Waiting
  <2>4. order[o].filled \in Nat /\ exchange[o].got \in Nat
    BY <1>4 DEF OrderRow, AtExchange
  <2>5. Concerns(o)
    <3>1. Forth(o)
      BY <1>2, <1>11, <2>1, <2>4 DEF Forth
    <3>2. OrderOk(o)' /\ SentOk(o)'
      BY <1>2, <1>3, <1>4, <1>11, <2>1, <2>2 DEF OrderOk, NewOk, SentOk, Kind
    <3> QED
      BY <1>2, <2>3, <3>1, <3>2 DEF Concerns
  <2>6. QuietAt(o) /\ KeepsPlace(o)
    BY <1>2, <1>11, <2>2 DEF QuietAt, KeepsPlace, Kind
  <2>7. \A q \in Recs \ {r} : rec'[q] = rec[q]
    BY <1>t, <1>11 DEF Step, Typed
  <2>8. VisitOk(r)'
    <3>1. PICK base \in Nat : base = order[o].filled
      BY <2>4
    <3>2. PICK x \in Visit : x = rec[r]
      BY <1>t DEF Typed
    <3>3. PICK v : v = [x EXCEPT !.pc = "release", !.snap = "TERMINAL", !.base = base]
      OBVIOUS
    <3>4. v.pc = "release" /\ v.snap = "TERMINAL" /\ v.order = o /\ v.base = base /\ v.n = x.n
      BY <1>1, <3>2, <3>3 DEF Visit
    <3>5. rec'[r] = v
      BY <1>t, <1>11, <3>1, <3>2, <3>3 DEF Step, Typed
    <3>6. v.n <= exchange[o].got /\ v.base <= order[o].filled
      BY <1>1, <1>2, <1>5, <3>1, <3>2, <3>4 DEF VisitOk
    <3> QED
      BY <1>2, <1>3, <1>11, <2>1, <2>2, <3>4, <3>5, <3>6 DEF VisitOk, Kind
  <2> QED
    BY <1>3, <2>5, <2>6, <2>7, <2>8, QuietStep
<1> QED
  BY <1>1, <1>6, <1>9, <1>10, <1>11 DEF RecError

-----------------------------------------------------------------------------
(* Cancellations and crashes *)

LEMMA CancelAskStep ==
  ASSUME IInv, Typed', NEW o \in Orders, CancelAsk(o)
  PROVE  IInv'
<1>t. Typed
  BY DEF IInv, Books
<1>1. UNCHANGED <<order, provider, exchange, applied, position, ledger, over, place, queue>>
      /\ order[o].status \in Cancellable
  BY DEF CancelAsk
<1>2. PICK id \in BOOLEAN : id = (provider[o].status # "NONE")
  OBVIOUS
<1>3. PICK v : v = [Idle EXCEPT !.pc = "cancel", !.order = o, !.id = id]
  OBVIOUS
<1>4. v.pc = "cancel" /\ v.order = o /\ v.base = 0 /\ v.id = id /\ v.snap = "NONE" /\ v.n = 0 /\ v.why = "NONE"
  BY <1>3 DEF Idle
<1>5. Step("user", v)
  BY <1>2, <1>3 DEF CancelAsk
<1>6. Kind(o) = "OPEN" => provider[o].status # "NONE"
  <2>1. OrderOk(o)
    BY OrderFacts
  <2> QED
    BY <1>1, <2>1 DEF OrderOk, OpeningOk, Cancellable
<1>7. 0 <= order[o].filled /\ 0 <= exchange[o].got
  <2>1. order[o].filled \in Nat /\ exchange[o].got \in Nat
    BY <1>t, OrderTypes DEF AtExchange
  <2> QED
    BY <2>1
<1>8. rec'["user"] = v => VisitOk("user")'
  BY <1>1, <1>2, <1>4, <1>6, <1>7 DEF VisitOk, Kind, Cancellable
<1> QED
  BY <1>1, <1>5, <1>8, GoesOn DEF Recs

LEMMA CancelAtProviderStep ==
  ASSUME IInv, Typed', CancelAtProvider
  PROVE  IInv'
<1>t. Typed
  BY DEF IInv, Books
<1>1. PICK o : o = rec["user"].order
  OBVIOUS
<1>2. /\ rec["user"].pc = "cancel" /\ rec["user"].id
      /\ UNCHANGED <<order, applied, position, ledger, queue, place, over>>
      /\ provider' = [provider EXCEPT ![o].status = "PENDING", ![o].rejected = FALSE]
  BY <1>1 DEF CancelAtProvider
<1>3. o \in Orders /\ order[o].status # "NEW" /\ provider[o].status # "NONE"
  BY <1>1, <1>2, VisitedOrder DEF Recs
<1>4. OrderOk(o) /\ SentOk(o) /\ order[o] \in OrderRow /\ provider[o] \in ProviderRow /\ exchange[o] \in AtExchange
  BY <1>3, OrderFacts
<1>5. /\ \A x \in Orders \ {o} : provider'[x] = provider[x]
      /\ provider'[o].status = "PENDING" /\ provider'[o].rejected = FALSE
  <2>1. provider'[o] = [provider[o] EXCEPT !.status = "PENDING", !.rejected = FALSE] /\ \A x \in Orders \ {o} : provider'[x] = provider[x]
    BY <1>t, <1>2, <1>3 DEF Typed
  <2> QED
    BY <1>4, <2>1 DEF ProviderRow
<1>6. /\ \A x \in Orders \ {o} : exchange'[x] = exchange[x]
      /\ exchange'[o].got = exchange[o].got /\ exchange'[o].sent = exchange[o].sent
      /\ \/ exchange'[o] = exchange[o]
         \/ exchange[o].status = "open" /\ exchange'[o].status \in {"filled", "canceled"}
  <2>1. PICK st \in {"filled", "canceled"} : st = IF exchange[o].got > 0 THEN "filled" ELSE "canceled"
    OBVIOUS
  <2>2. exchange' = exchange \/ (exchange[o].status = "open" /\ exchange' = [exchange EXCEPT ![o].status = st])
    BY <1>1, <2>1 DEF CancelAtProvider
  <2>3. CASE exchange' = [exchange EXCEPT ![o].status = st] /\ exchange[o].status = "open"
    <3>1. exchange'[o] = [exchange[o] EXCEPT !.status = st] /\ \A x \in Orders \ {o} : exchange'[x] = exchange[x]
      BY <1>t, <1>3, <2>3 DEF Typed
    <3>2. exchange'[o].got = exchange[o].got /\ exchange'[o].sent = exchange[o].sent /\ exchange'[o].status = st
      BY <1>4, <3>1 DEF AtExchange
    <3> QED
      BY <2>3, <3>1, <3>2
  <2> QED
    BY <2>2, <2>3
<1>7. PICK st \in Statuses \ {"NEW"} : st = order[o].status
  BY <1>3, <1>4 DEF OrderRow
<1>8. order'[o] = [order[o] EXCEPT !.status = st]
  <2>1. [order[o] EXCEPT !.status = st] = order[o]
    BY <1>4, <1>7 DEF OrderRow
  <2> QED
    BY <1>2, <2>1
<1>9. Waiting(o)' => Waiting(o)
  BY <1>2 DEF Waiting
<1>10. Kind(o) = "OPEN" =>
           /\ st \in Live \cup {"FILLED", "CANCELLED", "FAILED"}
           /\ st \in {"FILLED", "CANCELLED", "FAILED"} => Settled(o)
           /\ exchange'[o].sent <= order[o].size
           /\ provider'[o].rejected => exchange'[o].status = "rejected"
           /\ provider'[o].status \in {"FILLED", "CANCELLED", "FAILED"} =>
                o \in over'.missed \/ order[o].filled = order[o].size \/ AllPosted(o)'
  BY <1>3, <1>4, <1>5, <1>6, <1>7 DEF OrderOk, OpeningOk
<1>11. OrderOk(o)'
  <2>1. provider'[o].status # "NONE" /\ applied' = applied /\ ledger' = ledger
    BY <1>2, <1>5
  <2> QED
    BY <1>3, <1>7, <1>8, <1>9, <1>10, <2>1, RowOk
<1>12. \A x \in Orders \ {o} : Same(x)
  BY <1>2, <1>5, <1>6 DEF Same, Waiting
<1>13. Concerns(o) /\ QuietAt(o) /\ KeepsPlace(o)
  <2>1. order[o].filled \in Nat /\ exchange[o].got \in Nat /\ exchange[o].sent \in Nat
    BY <1>4 DEF OrderRow, AtExchange
  <2>2. Forth(o)
    BY <1>2, <1>5, <1>6, <2>1 DEF Forth, Ended
  <2>3. SentOk(o)'
    BY <1>4, <1>5, <1>6, <2>1 DEF SentOk
  <2>4. KeepsPlace(o)
    BY <1>2, <1>3, <1>6 DEF KeepsPlace
  <2> QED
    BY <1>2, <1>11, <1>12, <2>2, <2>3, <2>4 DEF Concerns, QuietAt
<1>14. PICK v : Step("user", v) /\ \/ v.pc = "idle"
                                   \/ /\ v.pc = "cancelled" /\ v.order = o /\ v.base = 0 /\ v.n = 0
                                      /\ v.snap = "NONE" /\ v.why = "NONE"
  <2>1. CASE Step("user", Idle)
    BY <2>1 DEF Idle
  <2>2. CASE Step("user", [Idle EXCEPT !.pc = "cancelled", !.order = o])
    <3>1. PICK v : v = [Idle EXCEPT !.pc = "cancelled", !.order = o]
      OBVIOUS
    <3>2. v.pc = "cancelled" /\ v.order = o /\ v.base = 0 /\ v.n = 0 /\ v.snap = "NONE" /\ v.why = "NONE"
      BY <3>1 DEF Idle
    <3> QED
      BY <2>2, <3>1, <3>2
  <2> QED
    BY <1>1, <2>1, <2>2 DEF CancelAtProvider
<1>15. rec'["user"] = v /\ \A q \in Recs \ {"user"} : rec'[q] = rec[q]
  BY <1>t, <1>14 DEF Step, Typed, Recs
<1>16. VisitOk("user")'
  <2>1. 0 <= order[o].filled /\ 0 <= exchange'[o].got
    <3>1. order[o].filled \in Nat /\ exchange[o].got \in Nat
      BY <1>4 DEF OrderRow, AtExchange
    <3> QED
      BY <1>6, <3>1
  <2> QED
    BY <1>2, <1>3, <1>5, <1>14, <1>15, <2>1 DEF VisitOk
<1> QED
  BY <1>3, <1>13, <1>15, <1>16, QuietStep

\* An order that opens nothing, and has no provider row or not: its status is written.
LEMMA EndsStep ==
  ASSUME IInv, Typed', NEW o \in Orders, Kind(o) # "OPEN", NEW st \in {"CANCELLED", "FAILED"},
         order' = [order EXCEPT ![o].status = st], \A x \in Orders \ {o} : provider'[x] = provider[x],
         provider'[o].status = "NONE" <=> provider[o].status = "NONE",
         UNCHANGED <<exchange, applied, position, ledger, over, place>>,
         queue' = queue \/ (queue' = queue \ {o} /\ place.pc = "free"),
         \A q \in Recs : rec'[q] = rec[q] \/ VisitOk(q)'
  PROVE  IInv'
<1>t. Typed
  BY DEF IInv, Books
<1>1. OrderOk(o) /\ SentOk(o) /\ order[o] \in OrderRow /\ exchange[o] \in AtExchange
  BY OrderFacts
<1>2. /\ order'[o].owner = order[o].owner /\ order'[o].kind = order[o].kind
      /\ order'[o].filled = order[o].filled /\ order'[o].status = st /\ order'[o].size = order[o].size
  <2>1. order'[o] = [order[o] EXCEPT !.status = st]
    BY <1>t DEF Typed
  <2> QED
    BY <1>1, <2>1 DEF OrderRow
<1>3. \A x \in Orders \ {o} : Same(x)
  <2>1. \A x \in Orders \ {o} : order'[x] = order[x]
    BY <1>t DEF Typed
  <2> QED
    BY <2>1 DEF Same, Waiting
<1>4. Concerns(o)
  <2>1. order[o].filled \in Nat /\ exchange[o].got \in Nat
    BY <1>1 DEF OrderRow, AtExchange
  <2>2. Forth(o)
    BY <1>2, <2>1 DEF Forth, Kind
  <2>3. OrderOk(o)' /\ SentOk(o)'
    BY <1>1, <1>2 DEF OrderOk, NewOk, SentOk, Kind
  <2> QED
    BY <1>3, <2>2, <2>3 DEF Concerns
<1>5. QuietAt(o)
  BY <1>2 DEF QuietAt, Kind
<1>6. KeepsPlace(o) \/ PlaceOk'
  BY DEF KeepsPlace, PlaceOk
<1> QED
  BY <1>4, <1>5, <1>6, QuietStep

LEMMA CancelWriteStep ==
  ASSUME IInv, Typed', CancelWrite
  PROVE  IInv'
<1>t. Typed
  BY DEF IInv, Books
<1>1. PICK o : o = rec["user"].order
  OBVIOUS
<1>2. /\ rec["user"].pc = "cancel" /\ ~rec["user"].id /\ Step("user", Idle)
      /\ UNCHANGED <<provider, exchange, applied, position, queue, place, over>>
      /\ order' = [order EXCEPT ![o].status = "CANCELLED"]
      /\ ledger' = IF ReduceOnly(o) THEN ledger ELSE PostTo(ledger, <<"fail", o>>, Owner(o), -order[o].size)
  BY <1>1 DEF CancelWrite
<1>3. o \in Orders
  BY <1>1, <1>2, VisitedOrder DEF Recs
<1>4. Kind(o) # "OPEN"
  BY <1>1, <1>2 DEF IInv, States, VisitOk, Recs
<1>5. ledger' = ledger
  BY <1>2, <1>4 DEF ReduceOnly
<1>6. \A q \in Recs : rec'[q] = rec[q] \/ VisitOk(q)'
  BY <1>t, <1>2 DEF Step, Typed, VisitOk, Idle
<1> QED
  BY <1>2, <1>3, <1>4, <1>5, <1>6, EndsStep

\* failAndRelease of an order that has nothing reserved.
LEMMA PlaceRefusedStep ==
  ASSUME IInv, Typed', NEW o \in Orders, PlaceBegin(o), ReduceOnly(o), order' = [order EXCEPT ![o].status = "FAILED"],
         provider' = IF provider[o].status = "NONE" THEN provider ELSE [provider EXCEPT ![o].status = "FAILED"],
         ledger' = ledger, queue' = queue \ {o}, UNCHANGED place
  PROVE  IInv'
<1>t. Typed
  BY DEF IInv, Books
<1>1. UNCHANGED <<exchange, applied, position, rec, over>> /\ place.pc = "free"
  BY DEF PlaceBegin
<1>2. Kind(o) # "OPEN"
  BY DEF ReduceOnly
<1>3. /\ \A x \in Orders \ {o} : provider'[x] = provider[x]
      /\ provider'[o].status = "NONE" <=> provider[o].status = "NONE"
  <2>1. CASE provider[o].status = "NONE"
    BY <2>1
  <2>2. CASE provider[o].status # "NONE"
    <3>1. provider'[o] = [provider[o] EXCEPT !.status = "FAILED"] /\ \A x \in Orders \ {o} : provider'[x] = provider[x]
      BY <1>t, <2>2 DEF Typed
    <3>2. provider'[o].status = "FAILED"
      BY <1>t, <3>1, OrderTypes DEF ProviderRow
    <3> QED
      BY <2>2, <3>1, <3>2
  <2> QED
    BY <2>1, <2>2
<1> QED
  BY <1>1, <1>2, <1>3, EndsStep

LEMMA CrashStep ==
  ASSUME IInv, Typed', Crash
  PROVE  IInv'
<1>t. Typed
  BY DEF IInv, Books
<1>1. /\ UNCHANGED <<provider, exchange, applied, position, ledger, over>>
      /\ place' = Free /\ queue' = {} /\ rec' = [r \in Recs |-> Idle]
      /\ order' = [o \in Orders |-> IF order[o].status = "ASKED" THEN [order[o] EXCEPT !.status = "GONE"] ELSE order[o]]
  BY DEF Crash
<1>2. PlaceOk' /\ \A r \in Recs : VisitOk(r)'
  BY <1>1 DEF PlaceOk, VisitOk, Free, Idle
<1>3. ASSUME NEW x \in Orders
      PROVE  Same(x) \/ Apart(x)
  <2>1. CASE order[x].status # "ASKED"
    <3>1. order'[x] = order[x]
      BY <1>1, <2>1
    <3> QED
      BY <1>1, <3>1 DEF Same, Waiting
  <2>2. CASE order[x].status = "ASKED"
    <3>1. order'[x] = [order[x] EXCEPT !.status = "GONE"]
      BY <1>1, <2>2
    <3>2. OrderOk(x) /\ order[x] \in OrderRow /\ exchange[x] \in AtExchange
      BY OrderFacts
    <3>3. /\ order'[x].owner = order[x].owner /\ order'[x].kind = order[x].kind
          /\ order'[x].filled = order[x].filled /\ order'[x].status = "GONE" /\ order'[x].size = order[x].size
      BY <3>1, <3>2 DEF OrderRow
    <3>4. Kind(x) # "OPEN"
      BY <2>2, <3>2 DEF OrderOk, OpeningOk, Live
    <3>5. order[x].filled \in Nat /\ exchange[x].got \in Nat
      BY <3>2 DEF OrderRow, AtExchange
    <3> QED
      BY <1>1, <3>3, <3>4, <3>5 DEF Apart, Forth, Kind
  <2> QED
    BY <2>1, <2>2
<1>4. CASE Orders = {}
  <2>1. \A x \in Orders : (x \in queue' => x \in queue) /\ (Waiting(x)' => Waiting(x))
    BY <1>4
  <2>2. order' = order
    BY <1>1, <1>4, <1>t DEF Typed
  <2> QED
    BY <1>1, <1>2, <2>1, <2>2, CallStep
<1>5. ASSUME NEW o \in Orders
      PROVE  IInv'
  <2>1. OrderOk(o) /\ SentOk(o) /\ order[o] \in OrderRow /\ exchange[o] \in AtExchange
    BY OrderFacts
  <2>2. order[o].filled \in Nat /\ exchange[o].got \in Nat
    BY <2>1 DEF OrderRow, AtExchange
  <2>3. Forth(o) /\ OrderOk(o)' /\ SentOk(o)' /\ QuietAt(o)
    <3>1. CASE Same(o)
      <4>1. Forth(o) /\ SentOk(o)' /\ QuietAt(o)
        BY <1>1, <2>1, <2>2, <3>1 DEF Same, Forth, SentOk, QuietAt
      <4> QED
        BY <2>1, <3>1, <4>1, SameStays
    <3>2. CASE Apart(o)
      BY <1>1, <2>1, <3>2 DEF Apart, OrderOk, NewOk, SentOk, QuietAt, Forth, Kind
    <3> QED
      BY <1>3, <3>1, <3>2
  <2>4. Concerns(o)
    BY <1>1, <1>3, <2>3 DEF Concerns
  <2> QED
    BY <1>2, <2>3, <2>4, QuietStep
<1> QED
  BY <1>4, <1>5

-----------------------------------------------------------------------------
(* Steps that reserve or release *)

\* One posting for an opening order, and no fill.
PostsFor(o, name, n) ==
  /\ applied' = applied /\ position' = position
  /\ order'[o].filled = order[o].filled /\ order'[o].size = order[o].size
  /\ ledger' = PostTo(ledger, <<name, o>>, Owner(o), n) /\ over.released \subseteq over'.released
  /\ \/ o \in over'.released
     \/ (IF <<name, o>> \in ledger.posted THEN 0 ELSE n) = Reserved(o)' - Reserved(o)

LEMMA PostFacts ==
  ASSUME Typed, NEW o \in Orders, NEW name \in {"reserve", "release", "fail"}, NEW n \in Int,
         ledger' = PostTo(ledger, <<name, o>>, Owner(o), n)
  PROVE  /\ ledger.posted \subseteq ledger'.posted
         /\ \A k : k # <<name, o>> => (k \in ledger'.posted <=> k \in ledger.posted)
         /\ n # 0 => <<name, o>> \in ledger'.posted
         /\ \A w \in Users \ {Owner(o)} : ledger'.held[w] = ledger.held[w]
         /\ ledger'.held[Owner(o)] - ledger.held[Owner(o)] = IF <<name, o>> \in ledger.posted THEN 0 ELSE n
<1>1. IsLedger(ledger) /\ Owner(o) \in Users
  BY OrderTypes DEF Typed, IsLedger
<1>2. Posting(ledger, <<name, o>>, Owner(o), n, ledger')
  BY <1>1, PostChange
<1>3. /\ ledger.posted \subseteq ledger'.posted
      /\ \A k : k # <<name, o>> => (k \in ledger'.posted <=> k \in ledger.posted)
      /\ n # 0 => <<name, o>> \in ledger'.posted
      /\ \A w \in Users \ {Owner(o)} : ledger'.held[w] = ledger.held[w]
  BY <1>2 DEF Posting
<1>4. /\ <<name, o>> \notin ledger.posted => ledger'.held[Owner(o)] = ledger.held[Owner(o)] + n
      /\ <<name, o>> \in ledger.posted => ledger'.held[Owner(o)] = ledger.held[Owner(o)]
  BY <1>2 DEF Posting
<1>5. ledger.held[Owner(o)] \in Int
  BY <1>1 DEF IsLedger
<1>6. ledger'.held[Owner(o)] - ledger.held[Owner(o)] = IF <<name, o>> \in ledger.posted THEN 0 ELSE n
  BY <1>4, <1>5
<1> QED
  BY <1>3, <1>6

LEMMA PostStep ==
  ASSUME IInv, Typed', NEW o \in Orders, NEW name \in {"reserve", "release", "fail"}, NEW n \in Int,
         PostsFor(o, name, n), Concerns(o), KeepsPlace(o) \/ PlaceOk', \A r \in Recs : rec'[r] = rec[r] \/ VisitOk(r)'
  PROVE  IInv'
<1>t. Typed /\ SizesOk /\ KeysOk /\ ExchangeOk /\ States /\ MarginIsAccounted
  BY DEF IInv, Books
<1>1. /\ applied' = applied /\ position' = position /\ over.released \subseteq over'.released
      /\ order'[o].filled = order[o].filled /\ order'[o].size = order[o].size
      /\ ledger' = PostTo(ledger, <<name, o>>, Owner(o), n)
  BY DEF PostsFor
<1>2. /\ \A k : k # <<name, o>> => (k \in ledger'.posted <=> k \in ledger.posted)
      /\ \A w \in Users \ {Owner(o)} : ledger'.held[w] = ledger.held[w]
      /\ ledger'.held[Owner(o)] - ledger.held[Owner(o)] = IF <<name, o>> \in ledger.posted THEN 0 ELSE n
  BY <1>t, <1>1, PostFacts
<1>3. SizesOk'
  <2> SUFFICES ASSUME NEW x \in Orders
               PROVE  /\ order'[x].filled <= order'[x].size
                      /\ order'[x].filled = SumOver([f \in FillsOf(x)' |-> applied'[f]])
    BY DEF SizesOk
  <2>1. FillsOf(x)' = FillsOf(x)
    BY <1>1 DEF FillsOf
  <2>2. order'[x].filled = order[x].filled /\ order'[x].size = order[x].size
    BY <1>1 DEF Concerns, Same, Apart
  <2> QED
    BY <1>t, <1>1, <2>1, <2>2 DEF SizesOk
<1>4. KeysOk'
  BY <1>t, <1>1, <1>2 DEF KeysOk
<1>5. Onward /\ States' /\ ExchangeOk'
  BY <1>t, <1>3, StatesStep
<1>6. \/ o \in over'.released
      \/ ledger'.held[Owner(o)] - ledger.held[Owner(o)]
           = (Abs(position'[Owner(o)]) - Abs(position[Owner(o)])) + (Reserved(o)' - Reserved(o))
  <2>1. CASE o \notin over'.released
    <3>1. PICK a \in Int : a = Abs(position[Owner(o)])
      <4>1. position[Owner(o)] \in Int
        BY <1>t, OrderTypes DEF Typed
      <4> QED
        BY <4>1 DEF Abs
    <3>2. PICK d \in Int : d = (IF <<name, o>> \in ledger.posted THEN 0 ELSE n)
      OBVIOUS
    <3>3. d = Reserved(o)' - Reserved(o) /\ ledger'.held[Owner(o)] - ledger.held[Owner(o)] = d
      BY <1>2, <2>1, <3>2 DEF PostsFor
    <3>4. Abs(position'[Owner(o)]) = a
      BY <1>1, <3>1 DEF Concerns, Forth, Owner
    <3> QED
      BY <3>1, <3>2, <3>3, <3>4
  <2> QED
    BY <2>1
<1>7. MarginIsAccounted'
  <2>1. \A x \in Orders \ {o} : Same(x) \/ Apart(x)
    BY DEF Concerns
  <2>2. \A w \in Users \ {Owner(o)} : ledger'.held[w] = ledger.held[w] /\ position'[w] = position[w]
    BY <1>1, <1>2
  <2> QED
    BY <1>t, <1>1, <1>5, <1>6, <2>1, <2>2, MarginStep
<1> QED
  BY <1>t, <1>3, <1>4, <1>5, <1>7 DEF IInv, Books

\* Another order is not concerned by what is posted for one.
LEMMA PostApart ==
  ASSUME Typed, NEW o \in Orders, NEW name \in {"reserve", "release", "fail"}, NEW n \in Int,
         ledger' = PostTo(ledger, <<name, o>>, Owner(o), n), applied' = applied, over.missed \subseteq over'.missed,
         \A x \in Orders \ {o} : /\ order'[x] = order[x] /\ provider'[x] = provider[x] /\ exchange'[x] = exchange[x]
                                 /\ (x \in queue' => x \in queue) /\ (Waiting(x)' => Waiting(x))
  PROVE  \A x \in Orders \ {o} : Same(x)
<1>1. \A k : k # <<name, o>> => (k \in ledger'.posted <=> k \in ledger.posted)
  BY PostFacts
<1> QED
  BY <1>1 DEF Same

LEMMA CreateOpenStep ==
  ASSUME IInv, Typed', NEW o \in Orders, CreateOpen(o)
  PROVE  IInv'
<1>t. Typed
  BY DEF IInv, Books
<1>1. UNCHANGED <<provider, exchange, applied, position, place, rec, over>> /\ queue' = queue \cup {o}
  BY DEF CreateOpen
<1>2. Kind(o) = "OPEN" /\ order[o].status = "NEW"
  BY DEF CreateOpen
<1>3. OpeningOk(o) /\ NewOk(o) /\ SentOk(o) /\ order[o] \in OrderRow /\ exchange[o] \in AtExchange
  BY <1>2, OrderFacts DEF OrderOk
<1>4. PICK size \in Nat \ {0} : size = order[o].size
  BY <1>3 DEF OrderRow
<1>n. PICK n \in Int : n = size
  BY <1>4
<1>5. ledger' = PostTo(ledger, <<"reserve", o>>, Owner(o), n)
  BY <1>4, <1>n DEF CreateOpen
<1>6. PICK born : order' = [order EXCEPT ![o].status = "ROUTED", ![o].born = born]
  BY DEF CreateOpen
<1>7. /\ order'[o].owner = order[o].owner /\ order'[o].kind = order[o].kind /\ order'[o].side = order[o].side
      /\ order'[o].filled = 0 /\ order[o].filled = 0 /\ order'[o].status = "ROUTED" /\ order'[o].size = size
  <2>1. order'[o] = [order[o] EXCEPT !.status = "ROUTED", !.born = born]
    BY <1>t, <1>6 DEF Typed
  <2> QED
    BY <1>2, <1>3, <1>4, <2>1 DEF OrderRow, NewOk
<1>8. \A x \in Orders \ {o} : Same(x)
  <2>1. \A x \in Orders \ {o} : order'[x] = order[x]
    BY <1>t, <1>6 DEF Typed
  <2>2. \A x \in Orders \ {o} : (x \in queue' => x \in queue) /\ (Waiting(x)' => Waiting(x))
    BY <1>1 DEF Waiting
  <2> QED
    BY <1>t, <1>1, <1>5, <2>1, <2>2, PostApart
<1>9. ledger.posted \subseteq ledger'.posted /\ \A k : k # <<"reserve", o>> => (k \in ledger'.posted <=> k \in ledger.posted)
  BY <1>t, <1>5, PostFacts
<1>10. /\ <<"release", o>> \notin ledger'.posted /\ <<"fail", o>> \notin ledger'.posted /\ <<"reserve", o>> \notin ledger.posted
       /\ provider[o].status = "NONE"
  BY <1>2, <1>3, <1>9 DEF OpeningOk, NewOk
<1>11. OrderOk(o)'
  <2>1. OpeningOk(o)'
    <3>1. \A k \in Nat : <<o, k>> \in DOMAIN applied' <=> k \in 1 .. order'[o].filled
      BY <1>1, <1>3, <1>7 DEF OpeningOk
    <3>2. exchange'[o].sent <= order'[o].size
      BY <1>1, <1>3, <1>4, <1>7 DEF OpeningOk
    <3> QED
      BY <1>1, <1>3, <1>7, <1>10, <3>1, <3>2 DEF OpeningOk, Live
  <2> QED
    BY <1>7, <2>1 DEF OrderOk, NewOk
<1>12. Concerns(o)
  <2>1. exchange[o].got \in Nat
    BY <1>3 DEF AtExchange
  <2>2. Forth(o)
    BY <1>1, <1>4, <1>7, <2>1 DEF Forth, Kind
  <2>3. SentOk(o)'
    BY <1>1, <1>3 DEF SentOk
  <2> QED
    BY <1>1, <1>8, <1>9, <1>11, <2>2, <2>3 DEF Concerns
<1>13. KeepsPlace(o)
  BY <1>1, <1>2 DEF KeepsPlace
<1>14. PostsFor(o, "reserve", n)
  <2>1. Reserved(o) = 0
    BY <1>2 DEF Reserved, Live
  <2>2. Reserved(o)' = size
    BY <1>2, <1>4, <1>7, <1>10 DEF Reserved, Live, Kind
  <2> QED
    BY <1>1, <1>4, <1>n, <1>5, <1>7, <1>10, <2>1, <2>2 DEF PostsFor
<1> QED
  BY <1>1, <1>4, <1>12, <1>13, <1>14, PostStep

\* failAndRelease of an opening order.
LEMMA PlaceFailedStep ==
  ASSUME IInv, Typed', NEW o \in Orders, PlaceBegin(o), ~ReduceOnly(o), order' = [order EXCEPT ![o].status = "FAILED"],
         provider' = IF provider[o].status = "NONE" THEN provider ELSE [provider EXCEPT ![o].status = "FAILED"],
         ledger' = PostTo(ledger, <<"fail", o>>, Owner(o), -order[o].size), queue' = queue \ {o}, UNCHANGED place
  PROVE  IInv'
<1>t. Typed
  BY DEF IInv, Books
<1>1. UNCHANGED <<exchange, applied, position, place, rec, over>> /\ place.pc = "free" /\ o \in queue
  BY DEF PlaceBegin
<1>2. Kind(o) = "OPEN"
  BY DEF ReduceOnly
<1>3. OpeningOk(o) /\ NewOk(o) /\ SentOk(o) /\ order[o] \in OrderRow /\ exchange[o] \in AtExchange
  BY <1>2, OrderFacts DEF OrderOk
<1>4. provider[o].status = "NONE" /\ order[o].status = "ROUTED" /\ order[o].filled = 0
      /\ <<"release", o>> \notin ledger.posted /\ <<"fail", o>> \notin ledger.posted
  BY <1>1, <1>3 DEF OpeningOk, Waiting
<1>5. PICK size \in Nat \ {0} : size = order[o].size
  BY <1>3 DEF OrderRow
<1>6. PICK n \in Int : n = -size /\ n # 0
  BY <1>5
<1>7. ledger' = PostTo(ledger, <<"fail", o>>, Owner(o), n) /\ provider' = provider
  BY <1>4, <1>5, <1>6
<1>8. /\ order'[o].owner = order[o].owner /\ order'[o].kind = order[o].kind /\ order'[o].side = order[o].side
      /\ order'[o].filled = 0 /\ order'[o].status = "FAILED" /\ order'[o].size = size
  <2>1. order'[o] = [order[o] EXCEPT !.status = "FAILED"]
    BY <1>t DEF Typed
  <2> QED
    BY <1>3, <1>4, <1>5, <2>1 DEF OrderRow
<1>9. \A x \in Orders \ {o} : Same(x)
  <2>1. \A x \in Orders \ {o} : order'[x] = order[x]
    BY <1>t DEF Typed
  <2>2. \A x \in Orders \ {o} : (x \in queue' => x \in queue) /\ (Waiting(x)' => Waiting(x))
    BY <1>1 DEF Waiting
  <2> QED
    BY <1>t, <1>1, <1>6, <1>7, <2>1, <2>2, PostApart
<1>10. /\ ledger.posted \subseteq ledger'.posted /\ <<"fail", o>> \in ledger'.posted
       /\ \A k : k # <<"fail", o>> => (k \in ledger'.posted <=> k \in ledger.posted)
  BY <1>t, <1>6, <1>7, PostFacts
<1>11. OrderOk(o)'
  <2>1. OpeningOk(o)'
    <3>1. \A k \in Nat : <<o, k>> \in DOMAIN applied' <=> k \in 1 .. order'[o].filled
      BY <1>1, <1>3, <1>4, <1>8 DEF OpeningOk
    <3>2. exchange'[o].sent <= order'[o].size
      BY <1>1, <1>3, <1>5, <1>8 DEF OpeningOk
    <3>3. Settled(o)' /\ ~Waiting(o)'
      BY <1>1, <1>10 DEF Settled, Waiting
    <3>4. <<"release", o>> \notin ledger'.posted
      BY <1>4, <1>10
    <3> QED
      BY <1>1, <1>3, <1>4, <1>7, <1>8, <3>1, <3>2, <3>3, <3>4 DEF OpeningOk, Live
  <2> QED
    BY <1>8, <2>1 DEF OrderOk, NewOk
<1>12. Concerns(o)
  <2>1. exchange[o].got \in Nat
    BY <1>3 DEF AtExchange
  <2>2. Forth(o)
    BY <1>1, <1>4, <1>5, <1>7, <1>8, <2>1 DEF Forth, Kind
  <2>3. SentOk(o)'
    BY <1>1, <1>3, <1>7 DEF SentOk
  <2> QED
    BY <1>1, <1>9, <1>10, <1>11, <2>2, <2>3 DEF Concerns
<1>13. PlaceOk'
  BY <1>1 DEF PlaceOk
<1>14. PostsFor(o, "fail", n)
  <2>1. Reserved(o) = size
    BY <1>2, <1>4, <1>5 DEF Reserved, Live
  <2>2. Reserved(o)' = 0
    BY <1>10 DEF Reserved
  <2>3. n = 0 - size
    BY <1>6
  <2> QED
    BY <1>1, <1>4, <1>5, <1>7, <1>8, <2>1, <2>2, <2>3 DEF PostsFor
<1> QED
  BY <1>1, <1>6, <1>12, <1>13, <1>14, PostStep

\* What a release writes, with the row that was read.
LEMMA ReleaseFacts ==
  ASSUME IInv, NEW r \in Recs, RecRelease(r), NEW o, o = rec[r].order
  PROVE  /\ o \in Orders /\ provider[o].status # "NONE" /\ order[o].status # "NEW"
         /\ UNCHANGED <<order, provider, exchange, applied, position, queue, place>>
         /\ Step(r, [rec[r] EXCEPT !.pc = "write"])
         /\ ledger' = IF ReduceOnly(o) THEN ledger ELSE PostTo(ledger, <<"release", o>>, Owner(o), -(order[o].size - rec[r].base))
         /\ over.released \subseteq over'.released /\ over.missed \subseteq over'.missed
         /\ ReduceOnly(o) => over'.released = over.released
         /\ ~ReduceOnly(o) /\ order[o].size - rec[r].base > 0 /\ rec[r].base # order[o].filled
              /\ <<"release", o>> \notin ledger.posted => o \in over'.released
         /\ rec[r].snap # "TERMINAL" /\ rec[r].n < exchange[o].got => o \in over'.missed
         /\ \/ rec[r].pc = "release" /\ rec[r].snap = "TERMINAL"
            \/ rec[r].pc = "apply" /\ Unapplied(r) = {} /\ rec[r].snap \in {"FILLED", "CANCELLED", "REJECTED"}
<1>1. rec[r].pc \in {"release", "apply"}
  BY DEF RecRelease
<1>2. o \in Orders /\ provider[o].status # "NONE" /\ order[o].status # "NEW"
  BY <1>1, VisitedOrder
<1>3. rec[r].pc = "release" => rec[r].snap = "TERMINAL"
  BY DEF IInv, States, VisitOk
<1>4. PICK unused : unused = order[o].size - rec[r].base
  OBVIOUS
<1>5. over' = [released |-> over.released \cup (IF ~ReduceOnly(o) /\ unused > 0 /\ rec[r].base # order[o].filled
                                                  /\ <<"release", o>> \notin ledger.posted THEN {o} ELSE {}),
               missed   |-> over.missed \cup (IF rec[r].snap # "TERMINAL" /\ rec[r].n < exchange[o].got THEN {o} ELSE {})]
  BY <1>4 DEF RecRelease, Unused
<1>6. /\ over.released \subseteq over'.released /\ over.missed \subseteq over'.missed
      /\ ReduceOnly(o) => over'.released = over.released
      /\ ~ReduceOnly(o) /\ unused > 0 /\ rec[r].base # order[o].filled /\ <<"release", o>> \notin ledger.posted => o \in over'.released
      /\ rec[r].snap # "TERMINAL" /\ rec[r].n < exchange[o].got => o \in over'.missed
  BY <1>5
<1> QED
  BY <1>2, <1>3, <1>4, <1>6 DEF RecRelease, Unused

\* The row written after a release.
LEMMA ReleaseVisit ==
  ASSUME IInv, Typed', NEW r \in Recs, RecRelease(r), NEW o \in Orders, o = rec[r].order,
         Kind(o) = "OPEN" => Settled(o)' /\ (o \in over'.missed \/ AllPosted(o)')
  PROVE  \A q \in Recs : rec'[q] = rec[q] \/ VisitOk(q)'
<1>1. /\ UNCHANGED <<order, provider, exchange>> /\ provider[o].status # "NONE" /\ order[o].status # "NEW"
      /\ Step(r, [rec[r] EXCEPT !.pc = "write"])
      /\ rec[r].snap \in {"FILLED", "CANCELLED", "REJECTED", "TERMINAL"} /\ rec[r].pc \in {"release", "apply"}
  BY ReleaseFacts
<1>2. PICK x \in Visit : x = rec[r]
  BY DEF IInv, Books, Typed
<1>3. PICK v : v = [x EXCEPT !.pc = "write"]
  OBVIOUS
<1>4. v.pc = "write" /\ v.order = o /\ v.base = x.base /\ v.id = x.id /\ v.snap = x.snap /\ v.n = x.n /\ v.why = x.why
  BY <1>2, <1>3 DEF Visit
<1>5. rec'[r] = v /\ \A q \in Recs \ {r} : rec'[q] = rec[q]
  BY <1>1, <1>2, <1>3 DEF Step, IInv, Books, Typed
<1>6. VisitOk(r)
  BY DEF IInv, States
<1>7. VisitOk(r)'
  BY <1>1, <1>2, <1>4, <1>5, <1>6 DEF VisitOk, Kind
<1> QED
  BY <1>5, <1>7

LEMMA ReleaseNothingStep ==
  ASSUME IInv, Typed', NEW r \in Recs, RecRelease(r), ReduceOnly(rec[r].order)
  PROVE  IInv'
<1>1. PICK o : o = rec[r].order
  OBVIOUS
<1>2. /\ o \in Orders /\ UNCHANGED <<order, provider, exchange, applied, position, queue, place, ledger>>
      /\ over'.released = over.released /\ over.missed \subseteq over'.missed /\ order[o].status # "NEW"
  BY <1>1, ReleaseFacts
<1>3. Kind(o) # "OPEN"
  BY <1>1 DEF ReduceOnly
<1>4. OrderOk(o) /\ SentOk(o) /\ order[o] \in OrderRow /\ exchange[o] \in AtExchange
  BY <1>2, OrderFacts
<1>5. \A x \in Orders : Same(x)
  BY <1>2 DEF Same, Waiting
<1>6. Forth(o)
  <2>1. order[o].filled \in Nat /\ exchange[o].got \in Nat
    BY <1>4 DEF OrderRow, AtExchange
  <2> QED
    BY <1>2, <2>1 DEF Forth
<1>7. OrderOk(o)' /\ SentOk(o)'
  BY <1>2, <1>4, <1>5, SameStays DEF SentOk
<1>8. Concerns(o) /\ QuietAt(o) /\ KeepsPlace(o)
  BY <1>2, <1>5, <1>6, <1>7 DEF Concerns, QuietAt, KeepsPlace
<1>9. \A q \in Recs : rec'[q] = rec[q] \/ VisitOk(q)'
  BY <1>1, <1>2, <1>3, ReleaseVisit
<1> QED
  BY <1>2, <1>8, <1>9, QuietStep

LEMMA ReleaseStep ==
  ASSUME IInv, Typed', NEW r \in Recs, RecRelease(r), ~ReduceOnly(rec[r].order)
  PROVE  IInv'
<1>t. Typed
  BY DEF IInv, Books
<1>1. PICK o : o = rec[r].order
  OBVIOUS
<1>2. /\ o \in Orders /\ UNCHANGED <<order, provider, exchange, applied, position, queue, place>>
      /\ over.released \subseteq over'.released /\ over.missed \subseteq over'.missed
      /\ order[o].status # "NEW" /\ provider[o].status # "NONE"
  BY <1>1, ReleaseFacts
<1>3. Kind(o) = "OPEN"
  BY <1>1 DEF ReduceOnly
<1>4. OrderOk(o) /\ OpeningOk(o) /\ SentOk(o) /\ order[o] \in OrderRow /\ exchange[o] \in AtExchange /\ VisitOk(r)
  BY <1>2, <1>3, OrderFacts DEF OrderOk, IInv, States
<1>5. PICK x \in Visit : x = rec[r]
  BY <1>t DEF Typed
<1>6. PICK size \in Nat, filled \in Nat : size = order[o].size /\ filled = order[o].filled
  BY <1>4 DEF OrderRow
<1>7. PICK base \in Nat : base = x.base
  BY DEF Visit
<1>8. rec[r].pc \in {"release", "apply"}
  BY ReleaseFacts
<1>9. base <= filled /\ filled <= size
  <2>1. base <= filled
    BY <1>1, <1>4, <1>5, <1>6, <1>7, <1>8 DEF VisitOk
  <2>2. filled <= size
    BY <1>2, <1>6 DEF IInv, Books, SizesOk
  <2> QED
    BY <2>1, <2>2
<1>10. PICK n \in Int : n = -(size - base)
  BY <1>9
<1>11. ledger' = PostTo(ledger, <<"release", o>>, Owner(o), n)
  BY <1>1, <1>3, <1>5, <1>6, <1>7, <1>10, ReleaseFacts
<1>12. /\ ledger.posted \subseteq ledger'.posted /\ (n # 0 => <<"release", o>> \in ledger'.posted)
       /\ \A k : k # <<"release", o>> => (k \in ledger'.posted <=> k \in ledger.posted)
  BY <1>t, <1>2, <1>11, PostFacts
<1>13. \A y \in Orders \ {o} : Same(y)
  <2>1. \A y \in Orders \ {o} : (y \in queue' => y \in queue) /\ (Waiting(y)' => Waiting(y))
    BY <1>2 DEF Waiting
  <2> QED
    BY <1>t, <1>2, <1>11, <2>1, PostApart
<1>14. Settled(o)'
  <2>1. CASE n # 0
    BY <1>12, <2>1 DEF Settled
  <2>2. CASE n = 0
    <3>1. filled = size
      BY <1>9, <1>10, <2>2
    <3> QED
      BY <1>2, <1>6, <3>1 DEF Settled
  <2> QED
    BY <2>1, <2>2
<1>15. o \in over'.missed \/ AllPosted(o)'
  <2>1. PICK got \in Nat, seen \in Nat : got = exchange[o].got /\ seen = x.n
    BY <1>4 DEF AtExchange, Visit
  <2>2. CASE x.snap = "TERMINAL"
    <3>1. exchange[o].status = "rejected"
      BY <1>1, <1>3, <1>4, <1>5, <1>8, <2>2 DEF VisitOk
    <3>2. got = 0 /\ got <= filled
      BY <1>4, <2>1, <3>1 DEF SentOk
    <3> QED
      BY <1>2, <1>6, <2>1, <3>1, <3>2 DEF AllPosted, Ended
  <2>3. CASE x.snap \in {"FILLED", "CANCELLED", "REJECTED"} /\ seen < got
    BY <1>1, <1>5, <2>1, <2>3, ReleaseFacts
  <2>4. CASE x.snap \in {"FILLED", "CANCELLED", "REJECTED"} /\ ~(seen < got)
    <3>1. exchange[o].status \in Ended
      BY <1>1, <1>4, <1>5, <1>8, <2>4 DEF VisitOk, Ended
    <3>2. Unapplied(r) = {}
      BY <1>1, <1>5, <2>4, ReleaseFacts
    <3>3. seen # 0 => <<o, seen>> \in DOMAIN applied
      <4>1. seen # 0 => seen \in 1 .. rec[r].n
        BY <1>5, <2>1
      <4> QED
        BY <1>1, <3>2, <4>1 DEF Unapplied
    <3>4. seen # 0 => seen \in 1 .. filled
      BY <1>4, <1>6, <3>3 DEF OpeningOk
    <3>5. got <= filled
      BY <2>4, <3>4
    <3> QED
      BY <1>2, <1>6, <2>1, <3>1, <3>5 DEF AllPosted
  <2> QED
    BY <1>5, <2>2, <2>3, <2>4, ReleaseFacts
<1>16. OrderOk(o)'
  <2>1. OpeningOk(o)'
    <3>1. Waiting(o)' <=> Waiting(o)
      BY <1>2 DEF Waiting
    <3>2. AllPosted(o)' <=> AllPosted(o)
      BY <1>2 DEF AllPosted
    <3>3. /\ <<"fail", o>> \in ledger'.posted <=> <<"fail", o>> \in ledger.posted
          /\ <<"reserve", o>> \in ledger'.posted <=> <<"reserve", o>> \in ledger.posted
      BY <1>12
    <3> QED
      BY <1>2, <1>4, <1>14, <3>1, <3>2, <3>3 DEF OpeningOk
  <2> QED
    BY <1>2, <2>1 DEF OrderOk, NewOk
<1>17. Concerns(o) /\ KeepsPlace(o)
  <2>1. order[o].filled \in Nat /\ exchange[o].got \in Nat
    BY <1>4 DEF OrderRow, AtExchange
  <2>2. Forth(o)
    BY <1>2, <2>1 DEF Forth
  <2>3. SentOk(o)'
    BY <1>2, <1>4 DEF SentOk
  <2> QED
    BY <1>2, <1>12, <1>13, <1>16, <2>2, <2>3 DEF Concerns, KeepsPlace
<1>18. \A q \in Recs : rec'[q] = rec[q] \/ VisitOk(q)'
  BY <1>1, <1>2, <1>14, <1>15, ReleaseVisit
<1>19. PostsFor(o, "release", n)
  <2>1. \/ o \in over'.released
        \/ (IF <<"release", o>> \in ledger.posted THEN 0 ELSE n) = Reserved(o)' - Reserved(o)
    <3>1. CASE <<"release", o>> \in ledger.posted
      <4>1. Reserved(o)' = 0 /\ Reserved(o) = 0
        BY <1>12, <3>1 DEF Reserved
      <4> QED
        BY <3>1, <4>1
    <3>2. CASE <<"release", o>> \notin ledger.posted /\ base # filled
      <4>1. size - base > 0
        BY <1>9, <3>2
      <4> QED
        BY <1>1, <1>3, <1>5, <1>6, <1>7, <3>2, <4>1, ReleaseFacts DEF ReduceOnly
    <3>3. CASE <<"release", o>> \notin ledger.posted /\ base = filled /\ n = 0
      <4>1. ledger' = ledger
        BY <1>11, <3>3 DEF PostTo
      <4>2. Reserved(o)' = Reserved(o)
        BY <1>2, <4>1 DEF Reserved, Kind
      <4>3. Reserved(o) \in Int
        BY <1>t, <1>2, ReservedType
      <4> QED
        BY <3>3, <4>2, <4>3
    <3>4. CASE <<"release", o>> \notin ledger.posted /\ base = filled /\ n # 0
      <4>1. <<"fail", o>> \notin ledger.posted
        BY <1>2, <1>4 DEF OpeningOk
      <4>2. filled # size
        BY <1>10, <3>4
      <4>3. order[o].status \in Live
        BY <1>2, <1>4, <1>6, <3>4, <4>1, <4>2 DEF OpeningOk, Settled
      <4>4. Reserved(o) = size - filled
        BY <1>3, <1>6, <3>4, <4>1, <4>3 DEF Reserved
      <4>5. Reserved(o)' = 0
        BY <1>12, <3>4 DEF Reserved
      <4> QED
        BY <1>10, <3>4, <4>4, <4>5
    <3> QED
      BY <3>1, <3>2, <3>3, <3>4
  <2> QED
    BY <1>2, <1>11, <2>1 DEF PostsFor
<1> QED
  BY <1>2, <1>17, <1>18, <1>19, PostStep

-----------------------------------------------------------------------------
(* Steps that store a fill *)

LEMMA CloseArith ==
  ASSUME NEW p \in Int, NEW side \in {1, -1}, NEW n \in Nat, p * side < 0, n <= Abs(p)
  PROVE  Abs(p + side * n) - Abs(p) = -n
<1>1. CASE side = 1
  BY <1>1 DEF Abs
<1>2. CASE side = -1
  BY <1>2 DEF Abs
<1> QED
  BY <1>1, <1>2

LEMMA OpenArith ==
  ASSUME NEW p \in Int, NEW side \in {1, -1}
  PROVE  Abs(p + side * 1) - Abs(p) = 1 - 2 * Against(1, p, side * 1)
<1>1. CASE side = 1
  BY <1>1 DEF Abs, Against
<1>2. CASE side = -1
  BY <1>2 DEF Abs, Against
<1> QED
  BY <1>1, <1>2

\* A fill of what is left of an order: part of a position is closed, or one unit
\* of an opening order is filled, the next one.
FillsNext(o, k, n) ==
  /\ ApplyFill(o, <<o, k>>, n) /\ <<o, k>> \notin DOMAIN applied
  /\ n <= order[o].size - order[o].filled /\ order[o].status # "NEW"
  /\ Kind(o) # "OPEN" => Closes(o, n, position[Owner(o)])
  /\ Kind(o) = "OPEN" => n = 1 /\ k = order[o].filled + 1 /\ provider[o].status # "NONE"

LEMMA FillKeys ==
  ASSUME IInv, NEW o \in Orders, NEW k \in Nat, NEW n \in Nat \ {0}, FillsNext(o, k, n)
  PROVE  /\ KeysOk' /\ ledger.posted \subseteq ledger'.posted
         /\ \A x \in Orders, name \in {"reserve", "release", "fail"} :
              <<name, x>> \in ledger'.posted <=> <<name, x>> \in ledger.posted
         /\ \A w \in Users \ {Owner(o)} : ledger'.held[w] = ledger.held[w]
         /\ ledger'.held[Owner(o)] = ledger.held[Owner(o)]
              - (IF ReduceOnly(o) THEN n ELSE 2 * Against(n, position[Owner(o)], order[o].side * n))
<1>1. Typed /\ KeysOk
  BY DEF IInv, Books
<1>2. ApplyFill(o, <<o, k>>, n) /\ <<o, k>> \notin DOMAIN applied
  BY DEF FillsNext
<1>3. {<<"close", <<o, k>>>>, <<"netted", <<o, k>>>>} \cap ledger.posted = {}
  BY <1>1, <1>2 DEF KeysOk
<1>4. /\ ledger.posted \subseteq ledger'.posted
      /\ \A key : key \notin {<<"close", <<o, k>>>>, <<"netted", <<o, k>>>>} => (key \in ledger'.posted <=> key \in ledger.posted)
      /\ \A w \in Users \ {Owner(o)} : ledger'.held[w] = ledger.held[w]
      /\ ledger'.held[Owner(o)] = ledger.held[Owner(o)]
              - (IF ReduceOnly(o) THEN n ELSE 2 * Against(n, position[Owner(o)], order[o].side * n))
  BY <1>1, <1>2, <1>3, FillPostings
<1>5. DOMAIN applied' = DOMAIN applied \cup {<<o, k>>}
  BY <1>2 DEF ApplyFill
<1>6. KeysOk'
  <2> SUFFICES ASSUME NEW x \in Orders, NEW j \in Nat, <<x, j>> \notin DOMAIN applied'
               PROVE  {<<"close", <<x, j>>>>, <<"netted", <<x, j>>>>} \cap ledger'.posted = {}
    BY DEF KeysOk
  <2>1. <<x, j>> # <<o, k>> /\ <<x, j>> \notin DOMAIN applied
    BY <1>5
  <2>2. <<"close", <<x, j>>>> \notin ledger.posted /\ <<"netted", <<x, j>>>> \notin ledger.posted
    BY <1>1, <2>1 DEF KeysOk
  <2>3. /\ <<"close", <<x, j>>>> \notin {<<"close", <<o, k>>>>, <<"netted", <<o, k>>>>}
        /\ <<"netted", <<x, j>>>> \notin {<<"close", <<o, k>>>>, <<"netted", <<o, k>>>>}
    BY <2>1
  <2> QED
    BY <1>4, <2>2, <2>3
<1>7. ASSUME NEW x \in Orders, NEW name \in {"reserve", "release", "fail"}
      PROVE  <<name, x>> \in ledger'.posted <=> <<name, x>> \in ledger.posted
  BY <1>4
<1> QED
  BY <1>4, <1>6, <1>7

LEMMA FillSizes ==
  ASSUME IInv, Typed', NEW o \in Orders, NEW k \in Nat, NEW n \in Nat \ {0}, FillsNext(o, k, n)
  PROVE  SizesOk'
<1>t. Typed /\ SizesOk
  BY DEF IInv, Books
<1>1. /\ ApplyFill(o, <<o, k>>, n) /\ <<o, k>> \notin DOMAIN applied
      /\ n <= order[o].size - order[o].filled
  BY DEF FillsNext
<1>2. applied' = [x \in DOMAIN applied \cup {<<o, k>>} |-> IF x = <<o, k>> THEN n ELSE applied[x]]
  BY <1>1 DEF ApplyFill
<1>3. order[o] \in OrderRow
  BY <1>t DEF Typed
<1>4. PICK size \in Nat, filled \in Nat : size = order[o].size /\ filled = order[o].filled
  BY <1>3 DEF OrderRow
<1>5. order'[o].filled = filled + n /\ order'[o].size = size
  <2>1. PICK st : st = IF order[o].filled + n >= order[o].size THEN "FILLED" ELSE "PARTIALLY_FILLED"
    OBVIOUS
  <2>2. order'[o] = [order[o] EXCEPT !.filled = order[o].filled + n, !.status = st]
    BY <1>t, <1>1, <2>1, FillRows
  <2> QED
    BY <1>3, <1>4, <2>2 DEF OrderRow
<1>6. \A x \in Orders \ {o} : order'[x].filled = order[x].filled /\ order'[x].size = order[x].size
  <2>1. ASSUME NEW x \in Orders \ {o}
        PROVE  order'[x].filled = order[x].filled /\ order'[x].size = order[x].size
    <3>1. order'[x] = order[x] \/ order'[x] = [order[x] EXCEPT !.status = "CANCELLED"]
      BY <1>t, <1>1, FillRows
    <3>2. order[x] \in OrderRow
      BY <1>t DEF Typed
    <3> QED
      BY <3>1, <3>2 DEF OrderRow
  <2> QED
    BY <2>1
<1> SUFFICES ASSUME NEW x \in Orders
             PROVE  /\ order'[x].filled <= order'[x].size
                    /\ order'[x].filled = SumOver([f \in FillsOf(x)' |-> applied'[f]])
  BY DEF SizesOk
<1>7. order[x].filled <= order[x].size /\ order[x].filled = SumOver([f \in FillsOf(x) |-> applied[f]])
  BY <1>t DEF SizesOk
<1>8. PICK a : a = [f \in FillsOf(x) |-> applied[f]]
  OBVIOUS
<1>9. PICK b : b = [f \in FillsOf(x)' |-> applied'[f]]
  OBVIOUS
<1>10. CASE x # o
  <2>1. FillsOf(x)' = FillsOf(x)
    BY <1>2, <1>10 DEF FillsOf
  <2>2. \A f \in FillsOf(x) : applied'[f] = applied[f]
    BY <1>1, <1>2 DEF FillsOf
  <2>3. a = b
    BY <1>8, <1>9, <2>1, <2>2
  <2> QED
    BY <1>6, <1>7, <1>8, <1>9, <1>10, <2>3
<1>11. CASE x = o
  <2>1. FillsOf(o)' = FillsOf(o) \cup {<<o, k>>} /\ <<o, k>> \notin FillsOf(o)
    BY <1>1, <1>2 DEF FillsOf
  <2>2. DOMAIN a = FillsOf(o) /\ DOMAIN b = FillsOf(o) \cup {<<o, k>>}
    BY <1>8, <1>9, <1>11, <2>1
  <2>3. b[<<o, k>>] = n /\ \A f \in FillsOf(o) : b[f] = a[f] /\ a[f] \in Int
    <3>1. applied'[<<o, k>>] = n
      BY <1>2
    <3>2. ASSUME NEW f \in FillsOf(o)
          PROVE  applied'[f] = applied[f] /\ applied[f] \in Int
      <4>1. f \in DOMAIN applied /\ f # <<o, k>>
        BY <1>1 DEF FillsOf
      <4> QED
        BY <1>2, <1>t, <4>1 DEF Typed
    <3> QED
      BY <1>8, <1>9, <1>11, <2>1, <3>1, <3>2
  <2>4. Summable(a) /\ Summable(b)
    <3>1. IsFiniteSet(FillsOf(o))
      BY <1>t, FS_Subset DEF FillsOf, Typed
    <3>2. IsFiniteSet(FillsOf(o) \cup {<<o, k>>})
      BY <3>1, FS_AddElement
    <3> QED
      BY <2>2, <2>3, <3>1, <3>2 DEF Summable
  <2>5. SumOver(b) = SumOver(a) + n
    <3>1. /\ <<o, k>> \in DOMAIN b /\ <<o, k>> \notin DOMAIN a /\ DOMAIN b = DOMAIN a \cup {<<o, k>>}
          /\ \A f \in DOMAIN a : b[f] = a[f]
      BY <2>1, <2>2, <2>3
    <3>2. SumOver(b) = SumOver(a) + b[<<o, k>>]
      BY <2>4, <3>1, SumInsert
    <3> QED
      BY <2>3, <3>2
  <2>6. SumOver(a) = filled
    BY <1>4, <1>7, <1>8, <1>11
  <2>7. filled + n <= size
    BY <1>1, <1>4
  <2> QED
    BY <1>5, <1>9, <1>11, <2>5, <2>6, <2>7
<1> QED
  BY <1>10, <1>11

LEMMA FillMargin ==
  ASSUME IInv, Typed', NEW o \in Orders, NEW k \in Nat, NEW n \in Nat \ {0}, FillsNext(o, k, n)
  PROVE  /\ over.released \subseteq over'.released /\ over'.missed = over.missed
         /\ \A w \in Users \ {Owner(o)} : ledger'.held[w] = ledger.held[w] /\ position'[w] = position[w]
         /\ \/ o \in over'.released
            \/ ledger'.held[Owner(o)] - ledger.held[Owner(o)]
                 = (Abs(position'[Owner(o)]) - Abs(position[Owner(o)])) + (Reserved(o)' - Reserved(o))
<1>t. Typed
  BY DEF IInv, Books
<1>1. ApplyFill(o, <<o, k>>, n) /\ n <= order[o].size - order[o].filled /\ order[o].status # "NEW"
  BY DEF FillsNext
<1>2. PICK u \in Users : u = Owner(o)
  BY <1>t, OrderTypes
<1>3. PICK p \in Int, h \in Int : p = position[u] /\ h = ledger.held[u]
  BY <1>t DEF Typed
<1>4. PICK side \in {1, -1}, size \in Nat, filled \in Nat :
        side = order[o].side /\ size = order[o].size /\ filled = order[o].filled
  BY <1>t DEF Typed, OrderRow
<1>5. position' = [position EXCEPT ![u] = p + side * n]
  BY <1>1, <1>2, <1>3, <1>4 DEF ApplyFill
<1>6. position'[u] = p + side * n /\ \A w \in Users \ {u} : position'[w] = position[w]
  BY <1>t, <1>2, <1>5 DEF Typed
<1>7. /\ \A w \in Users \ {u} : ledger'.held[w] = ledger.held[w]
      /\ ledger'.held[u] = h - (IF ReduceOnly(o) THEN n ELSE 2 * Against(n, p, side * n))
  BY <1>2, <1>3, <1>4, FillKeys
<1>8. over' = IF ~ReduceOnly(o) /\ <<"release", o>> \in ledger.posted
                THEN [over EXCEPT !.released = over.released \cup {o}] ELSE over
  BY <1>1 DEF ApplyFill
<1>9. /\ over.released \subseteq over'.released /\ over'.missed = over.missed
      /\ ~ReduceOnly(o) /\ <<"release", o>> \in ledger.posted => o \in over'.released
  BY <1>t, <1>8 DEF Typed
<1>10. \/ o \in over'.released
       \/ ledger'.held[u] - h = (Abs(position'[u]) - Abs(p)) + (Reserved(o)' - Reserved(o))
  <2>r. PICK st : st = IF order[o].filled + n >= order[o].size THEN "FILLED" ELSE "PARTIALLY_FILLED"
    OBVIOUS
  <2>1. order'[o] = [order[o] EXCEPT !.filled = order[o].filled + n, !.status = st]
    BY <1>t, <1>1, <2>r, FillRows
  <2>2. /\ order'[o].filled = filled + n /\ order'[o].size = size /\ order'[o].kind = order[o].kind
        /\ order'[o].status = st /\ st = (IF filled + n >= size THEN "FILLED" ELSE "PARTIALLY_FILLED")
    BY <1>t, <1>4, <2>r, <2>1 DEF Typed, OrderRow
  <2>3. CASE ReduceOnly(o)
    <3>1. Kind(o) # "OPEN" /\ Kind(o)' # "OPEN"
      BY <2>2, <2>3 DEF ReduceOnly, Kind
    <3>2. Reserved(o) = 0 /\ Reserved(o)' = 0
      BY <3>1 DEF Reserved
    <3>3. p * side < 0 /\ n <= Abs(p)
      BY <1>2, <1>3, <1>4, <3>1 DEF FillsNext, Closes
    <3>4. Abs(p + side * n) - Abs(p) = -n
      BY <3>3, CloseArith
    <3>5. ledger'.held[u] - h = -n
      BY <1>7, <2>3
    <3> QED
      BY <1>6, <3>2, <3>4, <3>5
  <2>4. CASE ~ReduceOnly(o) /\ <<"release", o>> \notin ledger.posted
    <3>1. Kind(o) = "OPEN" /\ Kind(o)' = "OPEN"
      BY <2>2, <2>4 DEF ReduceOnly, Kind
    <3>2. n = 1 /\ provider[o].status # "NONE" /\ OpeningOk(o)
      BY <3>1, OrderFacts DEF FillsNext, OrderOk
    <3>3. <<"fail", o>> \notin ledger.posted
      BY <3>2 DEF OpeningOk
    <3>4. filled + 1 <= size
      BY <1>1, <1>4, <3>2
    <3>5. order[o].status \in Live
      BY <1>1, <1>4, <2>4, <3>2, <3>3, <3>4 DEF OpeningOk, Settled
    <3>6. Reserved(o) = size - filled
      BY <1>4, <2>4, <3>1, <3>3, <3>5 DEF Reserved
    <3>7. {<<"release", o>>, <<"fail", o>>} \cap ledger'.posted = {}
      <4>1. <<"release", o>> \notin ledger'.posted
        BY <2>4, FillKeys
      <4>2. <<"fail", o>> \notin ledger'.posted
        BY <3>3, FillKeys
      <4> QED
        BY <4>1, <4>2
    <3>8. Reserved(o)' = size - (filled + 1)
      <4>1. CASE filled + 1 >= size
        <5>1. Reserved(o)' = 0
          BY <2>2, <3>2, <4>1 DEF Reserved, Live
        <5> QED
          BY <3>4, <4>1, <5>1
      <4>2. CASE ~(filled + 1 >= size)
        <5>1. order'[o].status \in Live
          BY <2>2, <3>2, <4>2 DEF Live
        <5> QED
          BY <2>2, <3>1, <3>2, <3>7, <5>1 DEF Reserved
      <4> QED
        BY <4>1, <4>2
    <3>9. PICK a \in Nat : a = Against(1, p, side * 1)
      <4>1. side * 1 \in Int
        OBVIOUS
      <4> QED
        BY <4>1, AgainstType
    <3>10. ledger'.held[u] - h = -(2 * a)
      BY <1>7, <2>4, <3>2, <3>9
    <3>11. Abs(p + side * 1) - Abs(p) = 1 - 2 * a
      BY <3>9, OpenArith
    <3>12. Abs(position'[u]) - Abs(p) = 1 - 2 * a
      BY <1>6, <3>2, <3>11
    <3>13. Reserved(o)' - Reserved(o) = -1
      BY <3>6, <3>8
    <3> QED
      BY <3>10, <3>12, <3>13
  <2> QED
    BY <1>9, <2>3, <2>4
<1> QED
  BY <1>2, <1>3, <1>6, <1>7, <1>9, <1>10

LEMMA FillConcerns ==
  ASSUME IInv, Typed', NEW o \in Orders, NEW k \in Nat, NEW n \in Nat \ {0}, FillsNext(o, k, n),
         UNCHANGED <<provider, exchange>>,
         \A x \in Orders : (x \in queue' => x \in queue) /\ (Waiting(x)' => Waiting(x))
  PROVE  Concerns(o)
<1>t. Typed
  BY DEF IInv, Books
<1>1. /\ ApplyFill(o, <<o, k>>, n) /\ <<o, k>> \notin DOMAIN applied
      /\ n <= order[o].size - order[o].filled /\ order[o].status # "NEW"
  BY DEF FillsNext
<1>2. DOMAIN applied' = DOMAIN applied \cup {<<o, k>>}
  BY <1>1 DEF ApplyFill
<1>3. /\ ledger.posted \subseteq ledger'.posted
      /\ \A x \in Orders, name \in {"reserve", "release", "fail"} :
              <<name, x>> \in ledger'.posted <=> <<name, x>> \in ledger.posted
  BY FillKeys
<1>4. over'.missed = over.missed
  BY FillMargin
<1>5. ASSUME NEW x \in Orders \ {o}
      PROVE  Same(x) \/ Apart(x)
  <2>1. order[x] \in OrderRow /\ exchange[x] \in AtExchange
    BY OrderFacts
  <2>2. CASE order'[x] = order[x]
    <3>1. \A j \in Nat : <<x, j>> \in DOMAIN applied' <=> <<x, j>> \in DOMAIN applied
      BY <1>2
    <3> QED
      BY <1>3, <1>4, <2>2, <3>1 DEF Same
  <2>3. CASE Kind(x) = "TRIGGER" /\ order'[x] = [order[x] EXCEPT !.status = "CANCELLED"]
    <3>1. /\ order'[x].owner = order[x].owner /\ order'[x].kind = order[x].kind
          /\ order'[x].filled = order[x].filled /\ order'[x].status = "CANCELLED" /\ order'[x].size = order[x].size
      BY <2>1, <2>3 DEF OrderRow
    <3>2. order[x].filled \in Nat /\ exchange[x].got \in Nat
      BY <2>1 DEF OrderRow, AtExchange
    <3> QED
      BY <2>3, <3>1, <3>2 DEF Apart, Forth, Kind
  <2> QED
    BY <1>t, <1>1, <2>2, <2>3, FillRows
<1>6. OrderOk(o) /\ SentOk(o) /\ order[o] \in OrderRow /\ exchange[o] \in AtExchange
  BY OrderFacts
<1>7. PICK size \in Nat, filled \in Nat : size = order[o].size /\ filled = order[o].filled
  BY <1>6 DEF OrderRow
<1>r. PICK st \in {"FILLED", "PARTIALLY_FILLED"} :
        st = IF order[o].filled + n >= order[o].size THEN "FILLED" ELSE "PARTIALLY_FILLED"
  OBVIOUS
<1>8. order'[o] = [order[o] EXCEPT !.filled = order[o].filled + n, !.status = st]
  BY <1>t, <1>1, <1>r, FillRows
<1>9. /\ order'[o].filled = filled + n /\ order'[o].size = size /\ order'[o].kind = order[o].kind
      /\ order'[o].owner = order[o].owner /\ order'[o].side = order[o].side /\ order'[o].status = st
  BY <1>6, <1>7, <1>8 DEF OrderRow
<1>10. filled + n <= size /\ (st = "FILLED" => filled + n >= size)
  BY <1>1, <1>7, <1>r
<1>11. Forth(o)
  <2>1. exchange[o].got \in Nat
    BY <1>6 DEF AtExchange
  <2> QED
    BY <1>7, <1>9, <2>1 DEF Forth
<1>12. ASSUME Kind(o) = "OPEN"
       PROVE  OpeningOk(o)'
  <2>1. OpeningOk(o) /\ n = 1 /\ k = filled + 1 /\ provider[o].status # "NONE"
    BY <1>6, <1>7, <1>12 DEF OrderOk, FillsNext
  <2>2. st = "FILLED" => Settled(o)'
    BY <1>9, <1>10 DEF Settled
  <2>3. \A j \in Nat : <<o, j>> \in DOMAIN applied' <=> j \in 1 .. order'[o].filled
    <3>1. \A j \in Nat : <<o, j>> \in DOMAIN applied <=> j \in 1 .. filled
      BY <1>7, <2>1 DEF OpeningOk
    <3>2. \A j \in Nat : j \in 1 .. filled + 1 <=> j \in 1 .. filled \/ j = filled + 1
      OBVIOUS
    <3> QED
      BY <1>2, <1>9, <2>1, <3>1, <3>2
  <2>4. ~Waiting(o)' /\ <<"fail", o>> \notin ledger'.posted
    BY <1>3, <2>1 DEF OpeningOk
  <2>5. provider[o].status \in {"FILLED", "CANCELLED", "FAILED"} => o \in over'.missed \/ AllPosted(o)'
    <3>1. filled # size
      BY <1>10, <2>1
    <3>2. AllPosted(o) => AllPosted(o)'
      <4>1. exchange[o].got \in Nat
        BY <1>6 DEF AtExchange
      <4> QED
        BY <1>7, <1>9, <4>1 DEF AllPosted
    <3> QED
      BY <1>4, <1>7, <2>1, <3>1, <3>2 DEF OpeningOk
  <2> QED
    BY <1>7, <1>9, <2>1, <2>2, <2>3, <2>4, <2>5 DEF OpeningOk, Live
<1>13. OrderOk(o)' /\ SentOk(o)'
  BY <1>6, <1>9, <1>12 DEF OrderOk, NewOk, SentOk, Kind
<1> QED
  BY <1>3, <1>4, <1>5, <1>11, <1>13 DEF Concerns

LEMMA FillStep ==
  ASSUME IInv, Typed', NEW o \in Orders, NEW k \in Nat, NEW n \in Nat \ {0}, FillsNext(o, k, n),
         UNCHANGED <<provider, exchange, rec>>,
         \A x \in Orders : (x \in queue' => x \in queue) /\ (Waiting(x)' => Waiting(x)),
         PlaceOk' \/ (place' = place /\ queue' = queue)
  PROVE  IInv'
<1>t. Typed /\ SizesOk /\ KeysOk /\ ExchangeOk /\ States /\ MarginIsAccounted
  BY DEF IInv, Books
<1>1. SizesOk' /\ KeysOk'
  BY FillSizes, FillKeys
<1>2. Concerns(o)
  BY FillConcerns
<1>3. KeepsPlace(o) \/ PlaceOk'
  BY DEF KeepsPlace, FillsNext
<1>4. Onward /\ States' /\ ExchangeOk'
  BY <1>t, <1>1, <1>2, <1>3, StatesStep
<1>5. MarginIsAccounted'
  <2>1. /\ over.released \subseteq over'.released
        /\ \A w \in Users \ {Owner(o)} : ledger'.held[w] = ledger.held[w] /\ position'[w] = position[w]
        /\ \/ o \in over'.released
           \/ ledger'.held[Owner(o)] - ledger.held[Owner(o)]
                = (Abs(position'[Owner(o)]) - Abs(position[Owner(o)])) + (Reserved(o)' - Reserved(o))
    BY FillMargin
  <2>2. \A x \in Orders \ {o} : Same(x) \/ Apart(x)
    BY <1>2 DEF Concerns
  <2> QED
    BY <1>t, <1>4, <2>1, <2>2, MarginStep
<1> QED
  BY <1>t, <1>1, <1>4, <1>5 DEF IInv, Books

LEMMA ApplyStep ==
  ASSUME IInv, Typed', NEW r \in Recs, RecApply(r)
  PROVE  IInv'
<1>t. Typed
  BY DEF IInv, Books
<1>1. PICK o : o = rec[r].order
  OBVIOUS
<1>2. rec[r].pc = "apply" /\ o \in Orders /\ UNCHANGED <<provider, exchange, queue, place, budget>>
  BY <1>t, <1>1, ApplyCases
<1>3. ASSUME NEW k \in Nat, Stores(r, o, k)
      PROVE  IInv'
  <2>1. /\ k \in Unapplied(r) /\ \A j \in Unapplied(r) : k <= j
        /\ order[o].size - order[o].filled >= 1 /\ (ReduceOnly(o) => Closes(o, 1, position[Owner(o)]))
        /\ ApplyFill(o, <<o, k>>, 1) /\ UNCHANGED rec
    BY <1>3 DEF Stores
  <2>2. order[o].status # "NEW" /\ provider[o].status # "NONE"
    BY <1>1, <1>2, VisitedOrder
  <2>3. <<o, k>> \notin DOMAIN applied
    BY <1>1, <2>1 DEF Unapplied
  <2>4. Kind(o) = "OPEN" => k = order[o].filled + 1
    <3> SUFFICES ASSUME Kind(o) = "OPEN"
                 PROVE  k = order[o].filled + 1
      OBVIOUS
    <3>1. order[o].filled < k
      BY <1>1, <1>2, <2>1, Unfilled
    <3>2. PICK m \in Nat : m = order[o].filled
      BY <1>t, <1>2, OrderTypes
    <3>3. k \in 1 .. rec[r].n /\ rec[r].n \in Nat
      BY <1>t, <2>1 DEF Unapplied, Typed, Visit
    <3>4. <<o, m + 1>> \notin DOMAIN applied
      <4>1. OpeningOk(o)
        BY <1>2, OrderFacts DEF OrderOk
      <4>2. m + 1 \in Nat /\ m + 1 \notin 1 .. m
        OBVIOUS
      <4> QED
        BY <3>2, <4>1, <4>2 DEF OpeningOk
    <3>5. m + 1 \in 1 .. rec[r].n
      BY <3>1, <3>2, <3>3
    <3>6. m + 1 \in Unapplied(r)
      BY <1>1, <3>4, <3>5 DEF Unapplied
    <3> QED
      BY <2>1, <3>1, <3>2, <3>6
  <2>5. FillsNext(o, k, 1)
    <3>1. 1 <= order[o].size - order[o].filled
      <4>1. order[o].size \in Nat /\ order[o].filled \in Nat
        BY <1>t, <1>2, OrderTypes
      <4> QED
        BY <2>1, <4>1
    <3> QED
      BY <2>1, <2>2, <2>3, <2>4, <3>1 DEF FillsNext, ReduceOnly
  <2>6. \A x \in Orders : (x \in queue' => x \in queue) /\ (Waiting(x)' => Waiting(x))
    BY <1>2 DEF Waiting
  <2>7. 1 \in Nat \ {0} /\ place' = place /\ queue' = queue /\ UNCHANGED <<provider, exchange, rec>>
    BY <1>2, <2>1
  <2> QED
    BY <1>2, <2>5, <2>6, <2>7, FillStep
<1>4. CASE Refuses(r)
  BY <1>4, RefuseStep
<1> QED
  BY <1>t, <1>1, <1>3, <1>4, ApplyCases

LEMMA CoverPartStep ==
  ASSUME IInv, Typed', PlaceCover, NEW n \in Nat \ {0}, CoversPart(place.order, n)
  PROVE  IInv'
<1>t. Typed
  BY DEF IInv, Books
<1>1. PICK o \in Orders : o = place.order
  BY <1>t, CoverCases
<1>2. place.pc = "cover" /\ UNCHANGED <<provider, exchange, rec, budget>>
  BY <1>t, CoverCases
<1>3. o \in queue /\ Kind(o) # "OPEN"
  BY <1>1, <1>2 DEF IInv, States, PlaceOk, ReduceOnly
<1>4. order[o].status # "NEW"
  BY <1>3, OrderFacts DEF OrderOk, NewOk
<1>5. FillsNext(o, 0, n)
  BY <1>1, <1>3, <1>4 DEF CoversPart, FillsNext
<1>6. /\ PlaceOk'
      /\ \A x \in Orders : (x \in queue' => x \in queue) /\ (Waiting(x)' => Waiting(x))
  <2>1. CASE Leave
    BY <1>t, <2>1, LeaveStays
  <2>2. CASE place' = [place EXCEPT !.pc = "row", !.left = order[o].size - order[o].filled - n] /\ UNCHANGED queue
    <3>1. place'.order = o /\ place'.pc = "row"
      BY <1>t, <1>1, <2>2 DEF Typed, Placement
    <3>2. \A x \in Orders : (x \in queue' => x \in queue) /\ (Waiting(x)' => Waiting(x))
      BY <1>1, <1>2, <2>2, <3>1 DEF Waiting
    <3>3. Kind(o)' = Kind(o)
      <4>1. Concerns(o)
        BY <1>2, <1>5, <3>2, FillConcerns
      <4> QED
        BY <4>1 DEF Concerns, Forth, Kind
    <3>4. PlaceOk'
      BY <1>3, <2>2, <3>1, <3>3 DEF PlaceOk
    <3> QED
      BY <3>2, <3>4
  <2> QED
    BY <1>1, <2>1, <2>2 DEF CoversPart
<1>7. 0 \in Nat
  OBVIOUS
<1> QED
  BY <1>2, <1>5, <1>6, <1>7, FillStep

-----------------------------------------------------------------------------
(* Every step *)

LEMMA CallsStep ==
  ASSUME IInv, Typed', NEW o \in Orders,
         \/ CreateOpen(o) \/ CloseAsk(o) \/ CloseCreate(o) \/ LiquidationRefused(o)
         \/ CreateTrigger(o) \/ FireTrigger(o) \/ PlaceBegin(o)
         \/ ExchangeFill(o) \/ ExchangeEnd(o) \/ WorkerBegins(o) \/ CancelAsk(o)
  PROVE  IInv'
<1>1. CASE CreateOpen(o)
  BY <1>1, CreateOpenStep
<1>2. CASE CloseAsk(o)
  BY <1>2, CloseAskStep
<1>3. CASE CloseCreate(o) \/ LiquidationRefused(o)
  BY <1>3, AskedStep
<1>4. CASE CreateTrigger(o)
  BY <1>4, CreateTriggerStep
<1>5. CASE FireTrigger(o)
  BY <1>5, FireTriggerStep
<1>6. CASE PlaceBegin(o)
  <2>1. CASE /\ UNCHANGED <<order, provider, ledger, queue>>
             /\ place' = [Free EXCEPT !.order = o, !.left = order[o].size, !.pc = IF ReduceOnly(o) THEN "see" ELSE "row"]
    BY <1>6, <2>1, PlaceTaken
  <2>2. CASE /\ order' = [order EXCEPT ![o].status = "FAILED"]
             /\ provider' = IF provider[o].status = "NONE" THEN provider ELSE [provider EXCEPT ![o].status = "FAILED"]
             /\ ledger' = IF ReduceOnly(o) THEN ledger ELSE PostTo(ledger, <<"fail", o>>, Owner(o), -order[o].size)
             /\ queue' = queue \ {o} /\ UNCHANGED place
    <3>1. CASE ReduceOnly(o)
      BY <1>6, <2>2, <3>1, PlaceRefusedStep
    <3>2. CASE ~ReduceOnly(o)
      BY <1>6, <2>2, <3>2, PlaceFailedStep
    <3> QED
      BY <3>1, <3>2
  <2> QED
    BY <1>6, <2>1, <2>2 DEF PlaceBegin
<1>7. CASE ExchangeFill(o) \/ ExchangeEnd(o)
  BY <1>7, ExchangeStep
<1>8. CASE WorkerBegins(o)
  BY <1>8, BeginsStep
<1>9. CASE CancelAsk(o)
  BY <1>9, CancelAskStep
<1> QED
  BY <1>1, <1>2, <1>3, <1>4, <1>5, <1>6, <1>7, <1>8, <1>9

LEMMA PlacingStep ==
  ASSUME IInv, Typed', Placing \/ Cancelling
  PROVE  IInv'
<1>t. Typed
  BY DEF IInv, Books
<1>1. CASE PlaceSee
  BY <1>1, PlaceSeeStep
<1>2. CASE PlaceCover
  <2>1. CASE CoversNothing(place.order)
    BY <1>2, <2>1, CoverNothingStep
  <2>2. ASSUME NEW n \in Nat \ {0}, CoversPart(place.order, n)
        PROVE  IInv'
    BY <1>2, <2>2, CoverPartStep
  <2> QED
    BY <1>t, <1>2, <2>1, <2>2, CoverCases
<1>3. CASE PlaceRow
  BY <1>3, PlaceRowStep
<1>4. CASE PlaceSend
  BY <1>4, PlaceSendStep
<1>5. CASE PlaceSync
  <2>1. place.order \in Orders
    BY <1>t, <1>5 DEF PlaceSync, Typed
  <2> QED
    BY <1>5, <2>1, BeginsStep
<1>6. CASE CancelAtProvider
  BY <1>6, CancelAtProviderStep
<1>7. CASE CancelWrite
  BY <1>7, CancelWriteStep
<1>8. CASE CancelSync
  <2>1. rec["user"].order \in Orders
    BY <1>t, <1>8 DEF CancelSync, Typed, Recs
  <2> QED
    BY <1>8, <2>1, BeginsStep
<1> QED
  BY <1>1, <1>2, <1>3, <1>4, <1>5, <1>6, <1>7, <1>8 DEF Placing, Cancelling

LEMMA ReconcileStep ==
  ASSUME IInv, Typed', NEW r \in Recs, Reconcile(r) \/ RecAskFails(r)
  PROVE  IInv'
<1>1. CASE RecAsk(r) \/ RecAskFails(r)
  BY <1>1, AskStep
<1>2. CASE RecApply(r)
  BY <1>2, ApplyStep
<1>3. CASE RecRelease(r)
  <2>1. CASE ReduceOnly(rec[r].order)
    BY <1>3, <2>1, ReleaseNothingStep
  <2>2. CASE ~ReduceOnly(rec[r].order)
    BY <1>3, <2>2, ReleaseStep
  <2> QED
    BY <2>1, <2>2
<1>4. CASE RecWriteLive(r)
  BY <1>4, WriteLiveStep
<1>5. CASE RecWriteEnd(r)
  BY <1>5, WriteEndStep
<1>6. CASE RecError(r)
  BY <1>6, ErrorStep
<1> QED
  BY <1>1, <1>2, <1>3, <1>4, <1>5, <1>6 DEF Reconcile

LEMMA StutterBooks ==
  ASSUME Books, UNCHANGED vars
  PROVE  Books'
<1>1. Typed'
  BY DEF Books, Typed, vars
<1>2. SizesOk'
  <2>1. \A o \in Orders : FillsOf(o)' = FillsOf(o) /\ order'[o] = order[o] /\ applied' = applied
    BY DEF FillsOf, vars
  <2> QED
    BY <2>1 DEF Books, SizesOk
<1>3. KeysOk' /\ ExchangeOk'
  BY DEF Books, KeysOk, ExchangeOk, SentOk, vars
<1> QED
  BY <1>1, <1>2, <1>3 DEF Books

LEMMA InvStep ==
  ASSUME IInv, [Next]_vars
  PROVE  IInv'
<1>1. CASE Next
  <2>1. Typed'
    <3>1. Typed /\ KeysOk /\ \A r \in Recs : VisitOk(r)
      BY DEF IInv, Books, States
    <3> QED
      BY <1>1, <3>1, TypeStep
  <2> QED
    BY <1>1, <2>1, CallsStep, PlacingStep, ReconcileStep, CrashStep DEF Next
<1>2. CASE UNCHANGED vars
  <2>1. Books'
    BY <1>2, StutterBooks DEF IInv
  <2>2. UNCHANGED <<order, provider, exchange, applied, position, ledger, over, place, queue>> /\ rec' = rec
    BY <1>2 DEF vars
  <2>3. \A x \in Orders : (x \in queue' => x \in queue) /\ (Waiting(x)' => Waiting(x))
    BY <2>2 DEF Waiting
  <2> QED
    BY <2>1, <2>2, <2>3, CallStep DEF Books
<1> QED
  BY <1>1, <1>2

LEMMA InvAlways == Spec => []IInv
<1>1. Init => IInv
  BY InitBooks DEF IInv
<1>2. IInv /\ [Next]_vars => IInv'
  BY InvStep
<1> QED
  BY <1>1, <1>2, PTL DEF Spec

-----------------------------------------------------------------------------
(* Theorems *)

\* Types, and the books of the fills: however the call that places an order, the
\* worker, a cancellation and crashes interleave, no order is filled beyond its size
\* and filledSize is the sum of the fills stored (applyFill).
THEOREM TypeCorrect == Spec => []TypeOK
<1>1. IInv => TypeOK
  <2> SUFFICES ASSUME IInv
               PROVE  TypeOK
    OBVIOUS
  <2>1. Typed /\ SizesOk
    BY DEF IInv, Books
  <2>2. ASSUME NEW o \in Orders
        PROVE  /\ order[o].status \in Statuses /\ order[o].filled \in 0 .. order[o].size
               /\ order[o].filled = SumOver([f \in {g \in DOMAIN applied : g[1] = o} |-> applied[f]])
               /\ provider[o].status \in {"NONE", "PENDING", "FILLED", "CANCELLED", "FAILED"}
    <3>1. order[o] \in OrderRow /\ provider[o] \in ProviderRow
      BY <2>1, OrderTypes
    <3>2. order[o].filled <= order[o].size /\ order[o].filled = SumOver([f \in FillsOf(o) |-> applied[f]])
      BY <2>1 DEF SizesOk
    <3>3. order[o].filled \in 0 .. order[o].size
      BY <3>1, <3>2 DEF OrderRow
    <3> QED
      BY <3>1, <3>2, <3>3 DEF OrderRow, ProviderRow, FillsOf
  <2>3. position \in [Users -> Int] /\ ledger.held \in [Users -> Int] /\ queue \subseteq Orders
    BY <2>1 DEF Typed
  <2> QED
    BY <2>2, <2>3 DEF TypeOK
<1> QED
  BY <1>1, InvAlways, PTL

\* USER_PERP_MARGIN holds the margin of the open position and of the reserves on
\* their way, whoever settles an order (placeAbookOrder, reconcileProviderOrder in
\* any process, failAndRelease) and however often; except for users of whose orders
\* releaseUnfilledProviderMargin released by a row older than its fills.
THEOREM MarginIsAccountedAlways == Spec => []MarginIsAccounted
<1>1. IInv => MarginIsAccounted
  BY DEF IInv
<1> QED
  BY <1>1, InvAlways, PTL

\* An opening order is not closed with fills of the exchange unposted
\* (reconcileProviderOrder), unless the snapshot was newer than the fills.
THEOREM FillsArePostedAlways == Spec => []FillsArePosted
<1>1. IInv => FillsArePosted
  <2> SUFFICES ASSUME IInv, NEW o \in Orders \ over.missed, Kind(o) = "OPEN",
                      provider[o].status \in {"FILLED", "CANCELLED", "FAILED"},
                      NEW k \in 1 .. exchange[o].got
               PROVE  <<o, k>> \in DOMAIN applied
    BY DEF FillsArePosted
  <2>1. OpeningOk(o) /\ SentOk(o) /\ order[o] \in OrderRow /\ exchange[o] \in AtExchange
    BY OrderFacts DEF OrderOk
  <2>2. PICK got \in Nat, sent \in Nat : got = exchange[o].got /\ sent = exchange[o].sent
    BY <2>1 DEF AtExchange
  <2>3. PICK size \in Nat, filled \in Nat : size = order[o].size /\ filled = order[o].filled
    BY <2>1 DEF OrderRow
  <2>4. got <= sent /\ sent <= size
    BY <2>1, <2>2, <2>3 DEF SentOk, OpeningOk
  <2>5. filled = size \/ got <= filled
    BY <2>1, <2>2, <2>3 DEF OpeningOk, AllPosted
  <2>6. k \in 1 .. filled
    BY <2>2, <2>4, <2>5
  <2> QED
    BY <2>1, <2>3, <2>6 DEF OpeningOk
<1> QED
  BY <1>1, InvAlways, PTL

\* A close that fills what the coverage allows, or less, does not widen the gap.
LEMMA NearerArith ==
  ASSUME NEW gap \in Int, NEW left \in Nat, NEW n \in Nat \ {0}, NEW side \in {1, -1},
         n <= left, n <= Covered(gap, side * left)
  PROVE  Abs(gap - side * n) <= Abs(gap)
<1>1. PICK signed \in Int : signed = side * left
  OBVIOUS
<1>2. CASE Abs(gap - signed) <= Abs(gap)
  <2>1. CASE side = 1
    BY <1>1, <1>2, <2>1 DEF Abs
  <2>2. CASE side = -1
    BY <1>1, <1>2, <2>2 DEF Abs
  <2> QED
    BY <2>1, <2>2
<1>3. CASE ~(Abs(gap - signed) <= Abs(gap))
  <2>1. Covered(gap, signed) # 0
    BY <1>1
  <2>2. gap * signed > 0
    BY <1>3, <2>1 DEF Covered
  <2>3. n <= Abs(gap)
    <3>1. Covered(gap, signed) <= Abs(gap)
      BY <1>3, <2>2 DEF Covered, Abs
    <3>2. Covered(gap, signed) \in Int /\ Abs(gap) \in Int
      BY CoveredBound DEF Abs
    <3> QED
      BY <1>1, <3>1, <3>2
  <2>4. CASE side = 1
    <3>1. gap * left > 0
      BY <1>1, <2>2, <2>4
    <3>2. gap > 0
      BY <3>1
    <3> QED
      BY <2>3, <2>4, <3>2 DEF Abs
  <2>5. CASE side = -1
    <3>1. gap * (-left) > 0
      BY <1>1, <2>2, <2>5
    <3>2. gap < 0
      BY <3>1
    <3> QED
      BY <2>3, <2>5, <3>2 DEF Abs
  <2> QED
    BY <2>4, <2>5
<1> QED
  BY <1>2, <1>3

LEMMA CoverStep ==
  ASSUME IInv, Typed', PlaceCover
  PROVE  Abs(place.seen - SumOver(position')) <= Abs(place.seen - SumOver(position))
<1>t. Typed
  BY DEF IInv, Books
<1>1. PICK o \in Orders : o = place.order
  BY <1>t, CoverCases
<1>2. PICK seen \in Int, sum \in Int : seen = place.seen /\ sum = SumOver(position)
  BY <1>t, PositionsAdd DEF Typed, Placement
<1>3. PICK gap \in Int : gap = seen - sum
  BY <1>2
<1>4. CASE CoversNothing(o)
  <2>1. position' = position
    BY <1>4 DEF CoversNothing
  <2>2. Abs(gap) <= Abs(gap)
    BY DEF Abs
  <2> QED
    BY <1>2, <1>3, <2>1, <2>2
<1>5. ASSUME NEW n \in Nat \ {0}, CoversPart(o, n)
      PROVE  Abs(place.seen - SumOver(position')) <= Abs(place.seen - SumOver(position))
  <2>1. PICK side \in {1, -1}, size \in Nat, filled \in Nat :
          side = order[o].side /\ size = order[o].size /\ filled = order[o].filled
    BY <1>t DEF Typed, OrderRow
  <2>2. n <= size - filled /\ n <= Covered(gap, side * (size - filled))
    BY <1>2, <1>3, <1>5, <2>1 DEF CoversPart
  <2>3. PICK left \in Nat : left = size - filled
    BY <2>1, <2>2
  <2>4. Abs(gap - side * n) <= Abs(gap)
    BY <2>2, <2>3, NearerArith
  <2>5. PICK u \in Users : u = Owner(o)
    BY <1>t, OrderTypes
  <2>6. PICK p \in Int : p = position[u]
    BY <1>t DEF Typed
  <2>7. position' = [position EXCEPT ![u] = p + side * n]
    BY <1>5, <2>1, <2>5, <2>6 DEF CoversPart, ApplyFill
  <2>8. PICK after : after = position'
    OBVIOUS
  <2>9. /\ DOMAIN after = DOMAIN position /\ u \in DOMAIN position
        /\ after[u] = p + side * n /\ \A w \in DOMAIN position \ {u} : after[w] = position[w]
    BY <1>t, <2>7, <2>8 DEF Typed
  <2>10. Summable(position)
    BY <1>t, PositionsAdd
  <2>11. Summable(after)
    <3>1. side * n \in Int
      OBVIOUS
    <3>2. \A w \in DOMAIN after : after[w] \in Int
      BY <2>6, <2>9, <2>10, <3>1 DEF Summable
    <3> QED
      BY <2>9, <2>10, <3>2 DEF Summable
  <2>12. SumOver(after) = SumOver(position) + (after[u] - position[u])
    BY <2>9, <2>10, <2>11, SumChange
  <2>13. PICK d \in Int : d = side * n
    OBVIOUS
  <2>14. SumOver(after) = sum + d
    BY <1>2, <2>6, <2>9, <2>12, <2>13
  <2>15. seen - SumOver(after) = gap - d
    BY <1>3, <2>14
  <2> QED
    BY <1>2, <1>3, <2>4, <2>8, <2>13, <2>15
<1> QED
  BY <1>t, <1>1, <1>4, <1>5, CoverCases

\* applyExistingProviderHedgeCoverage: what is filled internally never moves the
\* users' positions away from what the exchange held when it was asked.
THEOREM NettingNarrows == Spec => NettingNarrowsTheGap
<1>1. IInv /\ [Next]_vars =>
        [PlaceCover => Abs(place.seen - SumOver(position')) <= Abs(place.seen - SumOver(position))]_vars
  <2> SUFFICES ASSUME IInv, [Next]_vars, PlaceCover
               PROVE  Abs(place.seen - SumOver(position')) <= Abs(place.seen - SumOver(position))
    OBVIOUS
  <2>1. Typed'
    BY InvStep DEF IInv, Books
  <2> QED
    BY <2>1, CoverStep
<1> QED
  BY <1>1, InvAlways, PTL DEF Spec, NettingNarrowsTheGap

-----------------------------------------------------------------------------
(* The B-book *)

CONSTANTS BookCalls, Slots, Lots, OrderCap, MarketCap, MaxAsks
VARIABLES bookPos, bookRow, gate, ask, trigger, stray, monitor, bookRaced, asks

Book == INSTANCE BBook WITH Traders <- Users, Calls <- BookCalls, pos <- bookPos, row <- bookRow, raced <- bookRaced

TriggerRow == [status : {"NONE", "OPEN", "FILLED", "CANCELLED"}, delta : Int]

\* The types of what the theorems are about.
BookTypes ==
  /\ bookPos \in [Users -> Int]
  /\ bookRow \in [long : Nat, short : Nat]
  /\ DOMAIN ask = BookCalls
  /\ \A c \in BookCalls :
       ask[c].pc # "none" => ask[c].user \in Users /\ ask[c].delta \in Int /\ ask[c].kind \in {"open", "close"}
  /\ trigger \in [Users -> [Slots -> TriggerRow]]
  /\ monitor \in [pc : {"idle", "read"}, long : Nat, short : Nat]

BookInv == Book!BBookAssumption /\ BookTypes /\ Book!RowIsPositions

LEMMA FloorType == \A n \in Int : Book!Floor(n) \in Nat
  BY DEF Book!Floor

LEMMA BookTotal ==
  ASSUME NEW f, DOMAIN f = Users
  PROVE  Book!Total(f) = SumOver(f)
<1>1. Book!Total(f) = Part(f, Users)
  BY Zenon DEF Book!Total, Book!MapThenSumSet, Book!MapThenFoldSet, Part, Fold, Sums, Pick
<1> QED
  BY <1>1, SumOverPart

LEMMA TotalType ==
  ASSUME IsFiniteSet(Users), NEW f \in [Users -> Nat]
  PROVE  Book!Total(f) \in Nat
<1> DEFINE zero == [u \in Users |-> 0]
<1>1. Summable(f) /\ Summable(zero) /\ DOMAIN zero = DOMAIN f /\ \A u \in DOMAIN zero : zero[u] <= f[u]
  BY DEF Summable
<1>2. SumOver(zero) = 0
  BY <1>1, SumZero DEF Summable
<1>3. SumOver(f) \in Int
  BY <1>1, SumType
<1> HIDE DEF zero
<1>4. SumOver(zero) <= SumOver(f)
  BY <1>1, SumGrows
<1>5. Book!Total(f) = SumOver(f)
  BY BookTotal
<1> QED
  BY <1>2, <1>3, <1>4, <1>5

LEMMA TotalsType ==
  ASSUME BookTypes, IsFiniteSet(Users)
  PROVE  Book!Longs \in Nat /\ Book!Shorts \in Nat
<1>1. /\ [u \in Users |-> Book!Floor(bookPos[u])] \in [Users -> Nat]
      /\ [u \in Users |-> Book!Floor(-bookPos[u])] \in [Users -> Nat]
  BY FloorType DEF BookTypes
<1> QED
  BY <1>1, TotalType DEF Book!Longs, Book!Shorts

\* One position changes: the total changes by as much.
LEMMA TotalChange ==
  ASSUME IsFiniteSet(Users), NEW f \in [Users -> Int], NEW g \in [Users -> Int], NEW u \in Users,
         \A v \in Users \ {u} : g[v] = f[v]
  PROVE  /\ Book!Total(f) \in Int
         /\ Book!Total(g) = Book!Total(f) + (g[u] - f[u])
<1>1. Summable(f) /\ Summable(g) /\ DOMAIN f = Users /\ DOMAIN g = Users
  BY DEF Summable
<1>2. SumOver(g) = SumOver(f) + (g[u] - f[u])
  BY <1>1, SumChange
<1> QED
  BY <1>1, <1>2, SumType, BookTotal

\* What is long less what is short is the sum of the positions.
LEMMA NetIsTotal ==
  ASSUME BookTypes, IsFiniteSet(Users)
  PROVE  Book!Longs - Book!Shorts = Book!Total(bookPos)
<1> DEFINE L == [u \in Users |-> Book!Floor(bookPos[u])]
           S == [u \in Users |-> Book!Floor(-bookPos[u])]
<1>1. \A n \in Int : Book!Floor(n) = n + Book!Floor(-n)
  BY DEF Book!Floor
<1>2. \A u \in Users : L[u] \in Int /\ S[u] \in Int /\ bookPos[u] \in Int /\ L[u] = bookPos[u] + S[u]
  BY <1>1, FloorType DEF BookTypes
<1>3. Summable(L) /\ Summable(S) /\ Summable(bookPos) /\ DOMAIN bookPos = Users
  BY <1>2 DEF Summable, BookTypes
<1>4. DOMAIN L = Users /\ DOMAIN S = Users
  OBVIOUS
<1>5. Book!Longs = Book!Total(L) /\ Book!Shorts = Book!Total(S)
  BY DEF Book!Longs, Book!Shorts
<1> HIDE DEF L, S
<1>6. SumOver(L) = SumOver(bookPos) + SumOver(S)
  BY <1>2, <1>3, <1>4, SumAdds
<1>7. SumOver(S) \in Int /\ SumOver(bookPos) \in Int
  BY <1>3, SumType
<1> QED
  BY <1>3, <1>4, <1>5, <1>6, <1>7, BookTotal

\* The sign of a product.
LEMMA ProductSign ==
  ASSUME NEW p \in Int, NEW d \in Int
  PROVE  /\ p * d < 0 <=> (p < 0 /\ d > 0) \/ (p > 0 /\ d < 0)
         /\ p * d >= 0 <=> p = 0 \/ d = 0 \/ (p < 0 /\ d < 0) \/ (p > 0 /\ d > 0)
  BY Z3

\* updateExposure, for one fill.
LEMMA RowFollows ==
  ASSUME NEW r \in [long : Nat, short : Nat], NEW p \in Int, NEW d \in Int,
         Book!Floor(p) <= r.long, Book!Floor(-p) <= r.short
  PROVE  Book!RowAfter(r, p, d) =
           [long  |-> r.long + Book!Floor(p + d) - Book!Floor(p),
            short |-> r.short + Book!Floor(-(p + d)) - Book!Floor(-p)]
<1> DEFINE closed == IF p * d >= 0 THEN 0 ELSE IF Book!Size(d) < Book!Size(p) THEN Book!Size(d) ELSE Book!Size(p)
           once(s, long, n) == IF long THEN [s EXCEPT !.long = Book!Floor(@ + n)] ELSE [s EXCEPT !.short = Book!Floor(@ + n)]
<1>1. closed \in Nat /\ Book!Size(d) - closed \in Nat
  BY DEF Book!Size
<1>2. closed = IF (p < 0 /\ d > 0) \/ (p > 0 /\ d < 0)
               THEN IF Book!Size(d) < Book!Size(p) THEN Book!Size(d) ELSE Book!Size(p) ELSE 0
  BY ProductSign
<1>3. Book!RowAfter(r, p, d) = once(once(r, p > 0, -closed), d > 0, Book!Size(d) - closed)
  BY DEF Book!RowAfter, Book!AddToRow
<1> HIDE DEF closed
<1>4. PICK m \in Nat : m = Book!Size(d) - closed
  BY <1>1
<1>5. once(r, p > 0, -closed) = [long  |-> IF p > 0 THEN Book!Floor(r.long - closed) ELSE r.long,
                                 short |-> IF p > 0 THEN r.short ELSE Book!Floor(r.short - closed)]
  BY <1>1
<1>6. PICK q \in [long : Nat, short : Nat] :
        /\ q = once(r, p > 0, -closed)
        /\ q.long = IF p > 0 THEN Book!Floor(r.long - closed) ELSE r.long
        /\ q.short = IF p > 0 THEN r.short ELSE Book!Floor(r.short - closed)
  BY <1>1, <1>5, FloorType
<1>7. once(q, d > 0, m) = [long  |-> IF d > 0 THEN Book!Floor(q.long + m) ELSE q.long,
                           short |-> IF d > 0 THEN q.short ELSE Book!Floor(q.short + m)]
  BY <1>4
<1>8. Book!RowAfter(r, p, d) = once(q, d > 0, m)
  BY <1>3, <1>4, <1>6
<1> HIDE DEF once
<1>9. /\ (IF d > 0 THEN Book!Floor(q.long + m) ELSE q.long) = r.long + Book!Floor(p + d) - Book!Floor(p)
      /\ (IF d > 0 THEN q.short ELSE Book!Floor(q.short + m)) = r.short + Book!Floor(-(p + d)) - Book!Floor(-p)
  BY <1>1, <1>2, <1>4, <1>6 DEF Book!Floor, Book!Size
<1> QED
  BY <1>7, <1>8, <1>9
\* A position is part of its total.
LEMMA PositionIsCounted ==
  ASSUME BookTypes, IsFiniteSet(Users), NEW u \in Users
  PROVE  Book!Floor(bookPos[u]) <= Book!Longs /\ Book!Floor(-bookPos[u]) <= Book!Shorts
<1>1. ASSUME NEW f \in [Users -> Nat]
      PROVE  f[u] <= Book!Total(f)
  <2> DEFINE g == [f EXCEPT ![u] = 0]
  <2>1. g \in [Users -> Nat] /\ f \in [Users -> Int] /\ g \in [Users -> Int]
    BY <1>1
  <2>2. g[u] = 0 /\ \A v \in Users \ {u} : g[v] = f[v]
    BY <1>1
  <2> HIDE DEF g
  <2>3. Book!Total(f) \in Int /\ Book!Total(g) = Book!Total(f) + (g[u] - f[u])
    BY <2>1, <2>2, TotalChange
  <2>4. Book!Total(g) \in Nat /\ f[u] \in Nat
    BY <1>1, <2>1, TotalType
  <2> QED
    BY <2>2, <2>3, <2>4
<1> DEFINE L == [v \in Users |-> Book!Floor(bookPos[v])]
           S == [v \in Users |-> Book!Floor(-bookPos[v])]
<1>2. L \in [Users -> Nat] /\ S \in [Users -> Nat]
  BY FloorType DEF BookTypes
<1>3. L[u] = Book!Floor(bookPos[u]) /\ S[u] = Book!Floor(-bookPos[u])
  OBVIOUS
<1> HIDE DEF L, S
<1>4. L[u] <= Book!Total(L) /\ S[u] <= Book!Total(S)
  BY <1>1, <1>2
<1> QED
  BY <1>3, <1>4 DEF Book!Longs, Book!Shorts, L, S

\* A fill moves the position, the totals and the row by the same amounts.
LEMMA BookFillStep ==
  ASSUME BookInv, NEW u \in Users, NEW d \in Int, Book!Filled(u, d)
  PROVE  /\ bookPos' \in [Users -> Int] /\ bookPos' = [bookPos EXCEPT ![u] = @ + d]
         /\ Book!Total(bookPos') = Book!Total(bookPos) + d
         /\ bookRow' \in [long : Nat, short : Nat]
         /\ ~bookRaced => bookRow' = [long |-> Book!Longs', short |-> Book!Shorts']
<1>1. /\ bookPos \in [Users -> Int] /\ bookRow \in [long : Nat, short : Nat] /\ IsFiniteSet(Users)
      /\ bookPos' = [bookPos EXCEPT ![u] = @ + d] /\ bookRow' = Book!RowAfter(bookRow, bookPos[u], d)
  <2>1. BookTypes
    BY DEF BookInv
  <2>2. IsFiniteSet(Users)
    BY Attributes
  <2>3. bookPos' = [bookPos EXCEPT ![u] = @ + d] /\ bookRow' = Book!RowAfter(bookRow, bookPos[u], d)
    BY DEF Book!Filled
  <2> QED
    BY <2>1, <2>2, <2>3 DEF BookTypes
<1>2. PICK p \in Int : p = bookPos[u]
  BY <1>1
<1>3. /\ bookPos' \in [Users -> Int] /\ bookPos'[u] = p + d
      /\ \A v \in Users \ {u} : bookPos'[v] = bookPos[v]
  BY <1>1, <1>2
<1>4. Book!Total(bookPos') = Book!Total(bookPos) + d
  <2>1. /\ Book!Total(bookPos) \in Int
        /\ Book!Total(bookPos') = Book!Total(bookPos) + (bookPos'[u] - bookPos[u])
    BY <1>1, <1>3, TotalChange
  <2> QED
    BY <1>2, <1>3, <2>1
<1>5. bookRow' \in [long : Nat, short : Nat]
  <2>1. Book!Size(d) \in Int /\ Book!Size(p) \in Int
    BY DEF Book!Size
  <2> DEFINE closed == IF p * d >= 0 THEN 0 ELSE IF Book!Size(d) < Book!Size(p) THEN Book!Size(d) ELSE Book!Size(p)
             once(s, long, n) == IF long THEN [s EXCEPT !.long = Book!Floor(@ + n)] ELSE [s EXCEPT !.short = Book!Floor(@ + n)]
  <2>2. bookRow' = once(once(bookRow, p > 0, -closed), d > 0, Book!Size(d) - closed)
    BY <1>1, <1>2 DEF Book!RowAfter, Book!AddToRow
  <2>3. -closed \in Int /\ Book!Size(d) - closed \in Int
    BY <2>1
  <2> HIDE DEF closed
  <2>4. PICK m \in Int, n \in Int : m = -closed /\ n = Book!Size(d) - closed
    BY <2>3
  <2>5. once(bookRow, p > 0, m) \in [long : Nat, short : Nat]
    BY <1>1, FloorType
  <2>6. PICK q \in [long : Nat, short : Nat] : q = once(bookRow, p > 0, m)
    BY <2>5
  <2>7. once(q, d > 0, n) \in [long : Nat, short : Nat]
    BY FloorType
  <2> QED
    BY <2>2, <2>4, <2>6, <2>7
<1>6. ASSUME ~bookRaced
      PROVE  bookRow' = [long |-> Book!Longs', short |-> Book!Shorts']
  <2>1. bookRow = [long |-> Book!Longs, short |-> Book!Shorts]
    BY <1>6 DEF BookInv, Book!RowIsPositions
  <2>2. Book!Floor(p) <= bookRow.long /\ Book!Floor(-p) <= bookRow.short
    BY <1>1, <1>2, <2>1, PositionIsCounted DEF BookInv
  <2>3. bookRow' = [long  |-> bookRow.long + Book!Floor(p + d) - Book!Floor(p),
                    short |-> bookRow.short + Book!Floor(-(p + d)) - Book!Floor(-p)]
    BY <1>1, <1>2, <2>2, RowFollows
  <2> DEFINE L == [v \in Users |-> Book!Floor(bookPos[v])]
             S == [v \in Users |-> Book!Floor(-bookPos[v])]
             LL == [v \in Users |-> Book!Floor(bookPos'[v])]
             SS == [v \in Users |-> Book!Floor(-bookPos'[v])]
  <2>4. \A v \in Users : bookPos[v] \in Int /\ -bookPos[v] \in Int /\ bookPos'[v] \in Int /\ -bookPos'[v] \in Int
    BY <1>1, <1>3
  <2>5. L \in [Users -> Int] /\ S \in [Users -> Int] /\ LL \in [Users -> Int] /\ SS \in [Users -> Int]
    BY <2>4, FloorType
  <2>6. /\ L[u] = Book!Floor(p) /\ S[u] = Book!Floor(-p)
        /\ LL[u] = Book!Floor(p + d) /\ SS[u] = Book!Floor(-(p + d))
        /\ \A v \in Users \ {u} : LL[v] = L[v] /\ SS[v] = S[v]
    BY <1>2, <1>3
  <2>7. /\ Book!Longs = Book!Total(L) /\ Book!Shorts = Book!Total(S)
        /\ Book!Longs' = Book!Total(LL) /\ Book!Shorts' = Book!Total(SS)
    BY DEF Book!Longs, Book!Shorts
  <2> HIDE DEF L, S, LL, SS
  <2>8. /\ Book!Total(LL) = Book!Total(L) + (LL[u] - L[u]) /\ Book!Total(L) \in Int
        /\ Book!Total(SS) = Book!Total(S) + (SS[u] - S[u]) /\ Book!Total(S) \in Int
    BY <1>1, <2>5, <2>6, TotalChange
  <2>9. /\ Book!Floor(p) \in Int /\ Book!Floor(-p) \in Int
        /\ Book!Floor(p + d) \in Int /\ Book!Floor(-(p + d)) \in Int
    BY FloorType
  <2> QED
    BY <2>1, <2>3, <2>6, <2>7, <2>8, <2>9
<1> QED
  BY <1>1, <1>3, <1>4, <1>5, <1>6

LEMMA BookStart == Book!BBookAssumption /\ Book!BInit => BookInv
<1> SUFFICES ASSUME Book!BBookAssumption, Book!BInit PROVE BookInv
  OBVIOUS
<1>1. BookTypes
  BY DEF Book!BInit, BookTypes, TriggerRow, Book!NoAsk, Book!NoTrigger
<1>2. Book!Longs = 0 /\ Book!Shorts = 0
  <2> DEFINE L == [u \in Users |-> Book!Floor(bookPos[u])]
             S == [u \in Users |-> Book!Floor(-bookPos[u])]
  <2>1. \A u \in Users : L[u] = 0 /\ S[u] = 0
    <3>1. \A u \in Users : bookPos[u] = 0
      BY DEF Book!BInit
    <3>2. Book!Floor(0) = 0
      BY DEF Book!Floor
    <3>3. \A n \in Int : Book!Floor(n) = n + Book!Floor(-n) /\ Book!Floor(-n) \in Int
      BY DEF Book!Floor
    <3>4. \A n \in Int : Book!Floor(n) = 0 /\ n = 0 => Book!Floor(-n) = 0
      BY <3>3
    <3>5. ASSUME NEW u \in Users
          PROVE  L[u] = 0 /\ S[u] = 0
      <4>1. PICK p \in Int : p = bookPos[u]
        BY <3>1
      <4>2. p = 0 /\ Book!Floor(p) = 0
        BY <3>1, <3>2, <4>1
      <4>3. Book!Floor(-p) = 0
        BY <3>4, <4>2
      <4>4. L[u] = Book!Floor(p) /\ S[u] = Book!Floor(-p)
        BY <4>1
      <4> QED
        BY <4>2, <4>3, <4>4
    <3> QED
      BY <3>5
  <2>2. DOMAIN L = Users /\ DOMAIN S = Users
    OBVIOUS
  <2>3. Book!Longs = Book!Total(L) /\ Book!Shorts = Book!Total(S)
    BY DEF Book!Longs, Book!Shorts
  <2> HIDE DEF L, S
  <2> QED
    BY <2>1, <2>2, <2>3, Attributes, SumZero, BookTotal
<1> QED
  BY <1>1, <1>2 DEF BookInv, Book!BInit, Book!RowIsPositions

\* A step that neither fills nor writes the row.
LEMMA BookRests ==
  ASSUME BookInv, UNCHANGED <<bookPos, bookRow>>, bookRaced => bookRaced'
  PROVE  Book!RowIsPositions'
BY DEF BookInv, Book!RowIsPositions, Book!Longs, Book!Shorts

\* Every action that may move a position or the exposure row.
LEMMA BookStep == BookInv /\ [Book!BNext]_(Book!bvars) => BookInv'
<1> SUFFICES ASSUME BookInv, [Book!BNext]_(Book!bvars) PROVE BookInv'
  OBVIOUS
<1> USE DEF BookInv
<1>a. Book!BBookAssumption'
  BY DEF Book!BBookAssumption
<1>t. BookTypes /\ Book!BBookAssumption /\ Lots \subseteq Nat \ {0} /\ IsFiniteSet(Users)
  BY Attributes DEF Book!BBookAssumption
<1>1. ASSUME NEW c \in BookCalls, Book!OrderTx(c)
      PROVE  BookTypes' /\ Book!RowIsPositions'
  <2>1. /\ ask[c].user \in Users /\ ask[c].delta \in Int
        /\ ask' = [ask EXCEPT ![c] = Book!NoAsk]
        /\ UNCHANGED <<monitor, bookRaced>>
    BY <1>t, <1>1 DEF BookTypes, Book!OrderTx
  <2>2. CASE Book!Filled(ask[c].user, ask[c].delta) /\ trigger' = [trigger EXCEPT ![ask[c].user] = Book!TriggersAfter(ask[c].user, ask[c].delta)]
    <3>1. bookPos' \in [Users -> Int] /\ bookRow' \in [long : Nat, short : Nat]
      BY <2>1, <2>2, BookFillStep
    <3>2. Book!RowIsPositions'
      BY <2>1, <2>2, BookFillStep DEF Book!RowIsPositions
    <3>3. trigger' \in [Users -> [Slots -> TriggerRow]]
      BY <1>t, <2>1, <2>2 DEF BookTypes, TriggerRow, Book!TriggersAfter
    <3> QED
      BY <1>t, <2>1, <3>1, <3>2, <3>3 DEF BookTypes, Book!NoAsk
  <2>3. CASE UNCHANGED <<bookPos, bookRow, trigger>>
    <3>1. Book!RowIsPositions'
      BY <2>1, <2>3, BookRests
    <3> QED
      BY <1>t, <2>1, <2>3, <3>1 DEF BookTypes, Book!NoAsk
  <2> QED
    BY <1>1, <2>2, <2>3 DEF Book!OrderTx
<1>2. ASSUME NEW c \in BookCalls, Book!TriggerTx(c)
      PROVE  BookTypes' /\ Book!RowIsPositions'
  <2>1. Book!RowIsPositions'
    BY <1>2, BookRests DEF Book!TriggerTx
  <2>2. PICK s \in Slots : trigger' = [trigger EXCEPT ![ask[c].user][s] = [status |-> "OPEN", delta |-> ask[c].delta]]
    BY <1>2 DEF Book!TriggerTx
  <2>3. ask[c].user \in Users /\ ask[c].delta \in Int
    BY <1>t, <1>2 DEF BookTypes, Book!TriggerTx
  <2>4. trigger' \in [Users -> [Slots -> TriggerRow]]
    BY <1>t, <2>2, <2>3 DEF BookTypes, TriggerRow
  <2> QED
    BY <1>t, <1>2, <2>1, <2>4 DEF BookTypes, Book!TriggerTx, Book!NoAsk
<1>3. ASSUME NEW c \in BookCalls, NEW u \in Users, Book!AskOpen(c, u)
      PROVE  BookTypes' /\ Book!RowIsPositions'
  <2>1. Book!RowIsPositions'
    BY <1>3, BookRests DEF Book!AskOpen
  <2>2. PICK n \in Lots, side \in {1, -1} :
          ask' = IF Book!Decide(side * n)
                 THEN [ask EXCEPT ![c] = [pc |-> "tx", kind |-> "open", user |-> u, delta |-> side * n]] ELSE ask
    BY <1>3 DEF Book!AskOpen
  <2>3. side * n \in Int
    BY <1>t
  <2> QED
    BY <1>t, <1>3, <2>1, <2>2, <2>3 DEF BookTypes, Book!AskOpen
<1>4. ASSUME NEW c \in BookCalls, NEW u \in Users, Book!AskClose(c, u) \/ Book!AskTrigger(c, u)
      PROVE  BookTypes' /\ Book!RowIsPositions'
  <2>1. Book!RowIsPositions'
    BY <1>4, BookRests DEF Book!AskClose, Book!AskTrigger
  <2>2. PICK n \in Lots, pc \in {"tx", "trigger"} :
          ask' = [ask EXCEPT ![c] = [pc |-> pc, kind |-> "close", user |-> u, delta |-> IF bookPos[u] > 0 THEN -n ELSE n]]
    BY <1>4 DEF Book!AskClose, Book!AskTrigger
  <2>3. (IF bookPos[u] > 0 THEN -n ELSE n) \in Int
    BY <1>t
  <2> QED
    BY <1>t, <1>4, <2>1, <2>2, <2>3 DEF BookTypes, Book!AskClose, Book!AskTrigger
<1>5. ASSUME NEW u \in Users, Book!StrayEnds(u)
      PROVE  BookTypes' /\ Book!RowIsPositions'
  BY <1>t, <1>5, BookRests DEF BookTypes, Book!StrayEnds
<1>6. ASSUME NEW u \in Users, Book!CancelTrigger(u) \/ \E s \in Slots : Book!DropOrphan(u, s)
      PROVE  BookTypes' /\ Book!RowIsPositions'
  <2>1. Book!RowIsPositions'
    BY <1>6, BookRests DEF Book!CancelTrigger, Book!DropOrphan
  <2>2. PICK s \in Slots : trigger' = [trigger EXCEPT ![u][s].status = "CANCELLED"]
    BY <1>6 DEF Book!CancelTrigger, Book!DropOrphan
  <2>3. trigger' \in [Users -> [Slots -> TriggerRow]]
    BY <1>t, <2>2 DEF BookTypes, TriggerRow
  <2> QED
    BY <1>t, <1>6, <2>1, <2>3 DEF BookTypes, Book!CancelTrigger, Book!DropOrphan
<1>7. ASSUME NEW u \in Users, NEW s \in Slots, Book!Fire(u, s)
      PROVE  BookTypes' /\ Book!RowIsPositions'
  <2>1. trigger[u][s].delta \in Int
    BY <1>t DEF BookTypes, TriggerRow
  <2>2. trigger' \in [Users -> [Slots -> TriggerRow]]
    <3>1. PICK end \in {"FILLED", "CANCELLED"} : trigger' = [trigger EXCEPT ![u] =
            [x \in Slots |-> IF x = s THEN [trigger[u][x] EXCEPT !.status = end]
                             ELSE IF trigger[u][x].status = "OPEN" THEN [trigger[u][x] EXCEPT !.status = "CANCELLED"]
                             ELSE trigger[u][x]]]
      BY <1>7 DEF Book!Fire
    <3>2. \A x \in Slots : /\ trigger[u][x] \in TriggerRow
                           /\ [trigger[u][x] EXCEPT !.status = end] \in TriggerRow
                           /\ [trigger[u][x] EXCEPT !.status = "CANCELLED"] \in TriggerRow
      BY <1>t DEF BookTypes, TriggerRow
    <3>3. trigger'[u] \in [Slots -> TriggerRow]
      BY <1>t, <3>1, <3>2 DEF BookTypes
    <3> QED
      BY <1>t, <3>1, <3>3 DEF BookTypes
  <2>3. UNCHANGED <<ask, monitor, bookRaced>>
    BY <1>7 DEF Book!Fire
  <2>4. CASE Book!Filled(u, trigger[u][s].delta)
    <3>1. /\ bookPos' \in [Users -> Int] /\ bookRow' \in [long : Nat, short : Nat]
          /\ Book!RowIsPositions'
      BY <2>1, <2>3, <2>4, BookFillStep DEF Book!RowIsPositions
    <3> QED
      BY <1>t, <2>2, <2>3, <3>1 DEF BookTypes
  <2>5. CASE UNCHANGED <<bookPos, bookRow>>
    <3>1. Book!RowIsPositions'
      BY <2>3, <2>5, BookRests
    <3> QED
      BY <1>t, <2>2, <2>3, <2>5, <3>1 DEF BookTypes
  <2> QED
    BY <1>7, <2>4, <2>5 DEF Book!Fire
<1>8. ASSUME Book!MonitorReads
      PROVE  BookTypes' /\ Book!RowIsPositions'
  <2>1. Book!RowIsPositions'
    BY <1>8, BookRests DEF Book!MonitorReads
  <2> QED
    BY <1>t, <1>8, <2>1, TotalsType DEF BookTypes, Book!MonitorReads
<1>9. ASSUME Book!MonitorWrites
      PROVE  BookTypes' /\ Book!RowIsPositions'
  <2>1. BookTypes'
    BY <1>t, <1>9 DEF BookTypes, Book!MonitorWrites, Book!Written
  <2>2. ASSUME ~bookRaced'
        PROVE  bookRow' = [long |-> Book!Longs', short |-> Book!Shorts']
    <3>1. /\ ~bookRaced /\ bookPos' = bookPos /\ bookRow' = Book!Written(monitor)
          /\ monitor.long + monitor.short > 0 => monitor.long = Book!Longs /\ monitor.short = Book!Shorts
      BY <1>9, <2>2 DEF Book!MonitorWrites
    <3>2. bookRow = [long |-> Book!Longs, short |-> Book!Shorts]
      BY <3>1 DEF Book!RowIsPositions
    <3>3. Book!Longs' = Book!Longs /\ Book!Shorts' = Book!Shorts
      BY <3>1 DEF Book!Longs, Book!Shorts
    <3>4. monitor.long \in Nat /\ monitor.short \in Nat
      BY <1>t DEF BookTypes
    <3> QED
      BY <3>1, <3>2, <3>3, <3>4 DEF Book!Written
  <2> QED
    BY <2>1, <2>2 DEF Book!RowIsPositions
<1>10. ASSUME Book!GateMoves
      PROVE  BookTypes' /\ Book!RowIsPositions'
  BY <1>t, <1>10, BookRests DEF BookTypes, Book!GateMoves
<1>11. ASSUME UNCHANGED Book!bvars
      PROVE  BookTypes' /\ Book!RowIsPositions'
  BY <1>t, <1>11, BookRests DEF BookTypes, Book!bvars
<1> QED
  BY <1>a, <1>1, <1>2, <1>3, <1>4, <1>5, <1>6, <1>7, <1>8, <1>9, <1>10, <1>11 DEF Book!BNext

LEMMA BookAlways == Book!BBookAssumption => (Book!BSpec => []BookInv)
<1> SUFFICES ASSUME Book!BBookAssumption PROVE Book!BSpec => []BookInv
  OBVIOUS
<1> QED
  BY BookStart, BookStep, PTL DEF Book!BSpec

\* updateExposure, monitor: fills, closes, turn-rounds and triggers keep the exposure row
\* what the open positions add up to, until the monitor writes totals that are out of date.
THEOREM RowIsPositionsAlways ==
  ASSUME Book!BBookAssumption PROVE Book!BSpec => []Book!RowIsPositions
<1>1. BookInv => Book!RowIsPositions
  BY DEF BookInv
<1> QED
  BY <1>1, BookAlways, PTL

LEMMA CapStep ==
  ASSUME BookInv, NEW c \in BookCalls, Book!OrderTx(c), bookPos' # bookPos, ~bookRaced
  PROVE  Book!Size(Book!Total(bookPos')) <= MarketCap
<1>1. BookTypes /\ Book!RowIsPositions
  BY DEF BookInv
<1>2. ask[c].user \in Users /\ ask[c].delta \in Int
  BY <1>1 DEF BookTypes, Book!OrderTx
<1>3. Book!Decide(ask[c].delta) /\ Book!Filled(ask[c].user, ask[c].delta)
  BY DEF Book!OrderTx, Book!DecideAgain
<1>4. Book!Total(bookPos') = Book!Total(bookPos) + ask[c].delta
  BY <1>2, <1>3, BookFillStep
<1>5. bookRow.long - bookRow.short = Book!Total(bookPos)
  BY <1>1, Attributes, NetIsTotal DEF Book!RowIsPositions
<1> QED
  BY <1>3, <1>4, <1>5 DEF Book!Decide

\* createOrder's second decision, under the advisory lock: an order that is filled on the
\* B-book leaves the platform's net position within the market's cap.
THEOREM OpensWithinCapEver ==
  ASSUME Book!BBookAssumption PROVE Book!BSpec => Book!OpensWithinCap
<1>1. BookInv /\ [Book!BNext]_(Book!bvars) =>
        [\A c \in BookCalls : Book!OrderTx(c) /\ bookPos' # bookPos /\ ~bookRaced =>
           Book!Size(Book!Total(bookPos')) <= MarketCap]_(Book!bvars)
  BY CapStep
<1> QED
  BY <1>1, BookAlways, PTL DEF Book!BSpec, Book!OpensWithinCap

LEMMA CloseStep ==
  ASSUME BookInv, NEW u \in Users, bookPos'[u] # bookPos[u], [Book!BNext]_(Book!bvars),
         ~(\E c \in BookCalls : ask[c].kind = "open" /\ ask[c].pc = "tx" /\ ask'[c].pc = "none")
  PROVE  bookPos[u] * bookPos'[u] >= 0 /\ Book!Size(bookPos'[u]) < Book!Size(bookPos[u])
<1>t. BookTypes
  BY DEF BookInv
<1>1. ASSUME NEW v \in Users, NEW d \in Int, Book!Filled(v, d), Book!Reduces(v, d)
      PROVE  bookPos[u] * bookPos'[u] >= 0 /\ Book!Size(bookPos'[u]) < Book!Size(bookPos[u])
  <2>1. bookPos' = [bookPos EXCEPT ![v] = @ + d]
    BY <1>1 DEF Book!Filled
  <2>2. u = v
    BY <1>t, <2>1 DEF BookTypes
  <2>3. PICK p \in Int : p = bookPos[u]
    BY <1>t DEF BookTypes
  <2>4. bookPos'[u] = p + d
    BY <1>t, <2>1, <2>2, <2>3 DEF BookTypes
  <2>5. p * d < 0 /\ Book!Size(d) <= Book!Size(p)
    BY <1>1, <2>2, <2>3 DEF Book!Reduces
  <2>6. (p < 0 /\ d > 0) \/ (p > 0 /\ d < 0)
    BY <2>5, ProductSign
  <2>7. p + d = 0 \/ (p < 0 /\ p + d < 0) \/ (p > 0 /\ p + d > 0)
    BY <2>5, <2>6 DEF Book!Size
  <2>8. p * (p + d) >= 0
    <3>1. PICK q \in Int : q = p + d
      OBVIOUS
    <3>2. q = 0 \/ (p < 0 /\ q < 0) \/ (p > 0 /\ q > 0)
      BY <2>7, <3>1
    <3>3. p * q >= 0
      BY <3>2, ProductSign
    <3> QED
      BY <3>1, <3>3
  <2>9. Book!Size(p + d) < Book!Size(p)
    BY <2>5, <2>6 DEF Book!Size
  <2> QED
    BY <2>3, <2>4, <2>8, <2>9
<1>2. bookPos' # bookPos
  OBVIOUS
<1>3. CASE \E c \in BookCalls : Book!OrderTx(c)
  <2>1. PICK c \in BookCalls : Book!OrderTx(c)
    BY <1>3
  <2>2. ask[c].user \in Users /\ ask[c].delta \in Int /\ ask[c].kind \in {"open", "close"} /\ ask[c].pc = "tx"
    BY <1>t, <2>1 DEF BookTypes, Book!OrderTx
  <2>3. ask'[c].pc = "none"
    BY <1>t, <2>1 DEF BookTypes, Book!OrderTx, Book!NoAsk
  <2>4. ask[c].kind = "close"
    BY <2>2, <2>3
  <2>5. Book!Filled(ask[c].user, ask[c].delta) /\ Book!Reduces(ask[c].user, ask[c].delta)
    BY <1>2, <2>1, <2>4 DEF Book!OrderTx
  <2> QED
    BY <1>1, <2>2, <2>5
<1>4. CASE \E v \in Users, s \in Slots : Book!Fire(v, s)
  <2>1. PICK v \in Users, s \in Slots : Book!Fire(v, s)
    BY <1>4
  <2>2. Book!Filled(v, trigger[v][s].delta) /\ Book!Reduces(v, trigger[v][s].delta)
    BY <1>2, <2>1 DEF Book!Fire, Book!FitsPosition
  <2>3. trigger[v][s].delta \in Int
    BY <1>t DEF BookTypes, TriggerRow
  <2> QED
    BY <1>1, <2>2, <2>3
<1> QED
  BY <1>2, <1>3, <1>4 DEF Book!BNext, Book!bvars, Book!TriggerTx, Book!AskOpen, Book!AskClose, Book!AskTrigger,
     Book!StrayEnds, Book!CancelTrigger, Book!DropOrphan, Book!MonitorReads, Book!MonitorWrites, Book!GateMoves

\* closePositionWithFill: a close or trigger sized from an earlier position neither turns
\* the position round nor enlarges it.
THEOREM ClosesOnlyReduceEver ==
  ASSUME Book!BBookAssumption PROVE Book!BSpec => Book!ClosesOnlyReduce
<1>1. BookInv /\ [Book!BNext]_(Book!bvars) =>
        [\A u \in Users :
           bookPos'[u] # bookPos[u] /\ ~(\E c \in BookCalls : ask[c].kind = "open" /\ ask[c].pc = "tx" /\ ask'[c].pc = "none")
             => bookPos[u] * bookPos'[u] >= 0 /\ Book!Size(bookPos'[u]) < Book!Size(bookPos[u])]_(Book!bvars)
  BY CloseStep
<1> QED
  BY <1>1, BookAlways, PTL DEF Book!BSpec, Book!ClosesOnlyReduce

-----------------------------------------------------------------------------
(* The books of the A-book against the exchange *)

CONSTANTS Checkers, Legacy, HedgeMixes
VARIABLES holding, omnibus, unapplied, offset, halted, firstSeen, check, net, misled, left

Hedge == INSTANCE HedgeChecks WITH Traders <- Users, Mixes <- HedgeMixes, late <- unapplied

\* A close that is being netted, and what it has read.
Netting == [pc : {"seen"}, trader : Users, seen : Int, closing : Int, whole : BOOLEAN, alone : BOOLEAN]

HedgeTypes ==
  /\ holding \in [Users -> Int] /\ unapplied \in [Users -> Int] /\ omnibus \in Int
  /\ net = Hedge!Idle \/ net \in Netting

\* While nothing was late when the exchange was asked, and nothing has been filled there since,
\* what it answered is what it holds.
StillAlone ==
  net # Hedge!Idle /\ net.alone => net.seen = omnibus /\ \A u \in Users : unapplied[u] = 0

HedgeInv == Hedge!HedgeAssumption /\ HedgeTypes /\ StillAlone /\ Hedge!OffsetIsResidual

LEMMA HedgeTotal ==
  ASSUME NEW f, DOMAIN f = Users
  PROVE  Hedge!Total(f) = SumOver(f)
<1>1. Hedge!Total(f) = Part(f, Users)
  BY Zenon DEF Hedge!Total, Hedge!MapThenSumSet, Hedge!MapThenFoldSet, Part, Fold, Sums, Pick
<1> QED
  BY <1>1, SumOverPart

LEMMA HedgeTotalChange ==
  ASSUME NEW f \in [Users -> Int], NEW u \in Users, NEW n \in Int
  PROVE  /\ Hedge!Total(f) \in Int
         /\ Hedge!Total([f EXCEPT ![u] = @ + n]) = Hedge!Total(f) + n
<1> DEFINE g == [f EXCEPT ![u] = @ + n]
<1>1. /\ Summable(f) /\ Summable(g) /\ DOMAIN f = Users /\ DOMAIN g = Users
      /\ f[u] \in Int /\ g[u] = f[u] + n /\ \A v \in Users \ {u} : g[v] = f[v]
  BY Attributes DEF Summable
<1> HIDE DEF g
<1>2. SumOver(g) = SumOver(f) + (g[u] - f[u]) /\ SumOver(f) \in Int
  BY <1>1, SumChange, SumType
<1>3. Hedge!Total(g) = Hedge!Total(f) + n /\ Hedge!Total(f) \in Int
  BY <1>1, <1>2, HedgeTotal
<1> QED
  BY <1>3 DEF g

LEMMA HedgeTotalZero ==
  ASSUME NEW f \in [Users -> Int], \A u \in Users : f[u] = 0
  PROVE  Hedge!Total(f) = 0
BY Attributes, SumZero, HedgeTotal

LEMMA HedgeStart == Hedge!HedgeAssumption /\ Hedge!HedgeInit => HedgeInv
<1> SUFFICES ASSUME Hedge!HedgeAssumption, Hedge!HedgeInit PROVE HedgeInv
  OBVIOUS
<1>1. HedgeTypes
  BY DEF Hedge!HedgeInit, Hedge!HedgeAssumption, HedgeTypes
<1>2. Hedge!Total(holding) = 0 /\ Hedge!Total(unapplied) = 0
  BY <1>1, HedgeTotalZero DEF HedgeTypes, Hedge!HedgeInit
<1>3. Hedge!OffsetIsResidual
  BY <1>1, <1>2 DEF Hedge!OffsetIsResidual, Hedge!Residual, Hedge!HedgeInit, HedgeTypes
<1> QED
  BY <1>1, <1>3 DEF HedgeInv, StillAlone, Hedge!HedgeInit

\* A fill at the exchange, and its arrival in a position.
LEMMA FillOrApply ==
  ASSUME HedgeInv, NEW u \in Users,
         (\E side \in {1, -1} : Hedge!Fill(u, side)) \/ Hedge!Apply(u)
  PROVE  HedgeTypes' /\ StillAlone' /\ Hedge!OffsetIsResidual'
<1>t. /\ HedgeTypes /\ StillAlone /\ Hedge!OffsetIsResidual
      /\ Hedge!Total(holding) \in Int /\ Hedge!Total(unapplied) \in Int
  BY HedgeTotalChange DEF HedgeInv, HedgeTypes
<1>1. ASSUME NEW side \in {1, -1}, Hedge!Fill(u, side)
      PROVE  HedgeTypes' /\ StillAlone' /\ Hedge!OffsetIsResidual'
  <2>1. /\ omnibus' = omnibus + side /\ unapplied' = [unapplied EXCEPT ![u] = @ + side]
        /\ net' = IF net = Hedge!Idle THEN net ELSE [net EXCEPT !.alone = FALSE]
        /\ UNCHANGED <<holding, offset, misled>>
    BY <1>1 DEF Hedge!Fill
  <2>2. side \in Int
    OBVIOUS
  <2>3. Hedge!Total(unapplied') = Hedge!Total(unapplied) + side
    BY <1>t, <2>1, <2>2, HedgeTotalChange DEF HedgeTypes
  <2>4. net' = Hedge!Idle \/ (net' \in Netting /\ ~net'.alone)
    BY <1>t, <2>1 DEF HedgeTypes, Netting
  <2>5. HedgeTypes' /\ StillAlone'
    BY <1>t, <2>1, <2>4 DEF HedgeTypes, StillAlone
  <2>6. Hedge!OffsetIsResidual'
    BY <1>t, <2>1, <2>2, <2>3 DEF Hedge!OffsetIsResidual, Hedge!Residual, HedgeTypes
  <2> QED
    BY <2>5, <2>6
<1>2. ASSUME Hedge!Apply(u)
      PROVE  HedgeTypes' /\ StillAlone' /\ Hedge!OffsetIsResidual'
  <2>1. PICK side \in {1, -1} : /\ unapplied[u] # 0 /\ unapplied' = [unapplied EXCEPT ![u] = @ - side]
                                /\ holding' = [holding EXCEPT ![u] = @ + side]
                                /\ UNCHANGED <<omnibus, offset, net, misled>>
    BY <1>2 DEF Hedge!Apply
  <2>2. side \in Int
    OBVIOUS
  <2>3. PICK back \in Int : back = 0 - side
    BY <2>2
  <2>4. unapplied[u] - side = unapplied[u] + back
    BY <1>t, <2>2, <2>3 DEF HedgeTypes
  <2>5. unapplied' = [unapplied EXCEPT ![u] = @ + back]
    BY <2>1, <2>4
  <2>6. Hedge!Total(unapplied') = Hedge!Total(unapplied) + back
    <3>1. Hedge!Total([unapplied EXCEPT ![u] = @ + back]) = Hedge!Total(unapplied) + back
      BY <1>t, <2>3, HedgeTotalChange DEF HedgeTypes
    <3> QED
      BY <2>5, <3>1
  <2>7. Hedge!Total(holding') = Hedge!Total(holding) + side
    <3>1. Hedge!Total([holding EXCEPT ![u] = @ + side]) = Hedge!Total(holding) + side
      BY <1>t, <2>2, HedgeTotalChange DEF HedgeTypes
    <3> QED
      BY <2>1, <3>1
  <2>8. HedgeTypes'
    BY <1>t, <2>1 DEF HedgeTypes
  <2>9. StillAlone'
    BY <1>t, <2>1 DEF StillAlone
  <2>10. Hedge!OffsetIsResidual'
    BY <1>t, <2>1, <2>2, <2>3, <2>6, <2>7 DEF Hedge!OffsetIsResidual, Hedge!Residual, HedgeTypes
  <2> QED
    BY <2>8, <2>9, <2>10
<1> QED
  BY <1>1, <1>2

\* The transaction of a netted close.
LEMMA NetStep ==
  ASSUME HedgeInv, Hedge!Net
  PROVE  HedgeTypes' /\ StillAlone' /\ Hedge!OffsetIsResidual'
<1>t. /\ HedgeTypes /\ StillAlone /\ Hedge!OffsetIsResidual /\ net \in Netting
      /\ Hedge!Total(holding) \in Int /\ Hedge!Total(unapplied) \in Int
  <2>1. HedgeTypes /\ StillAlone /\ Hedge!OffsetIsResidual /\ net # Hedge!Idle
    BY DEF HedgeInv, Hedge!Net
  <2>2. net \in Netting /\ net.trader \in Users
    BY <2>1 DEF HedgeTypes, Netting
  <2> QED
    BY <2>1, <2>2, HedgeTotalChange DEF HedgeTypes
<1> DEFINE gap == net.seen - Hedge!Total(holding)
<1>1. net.trader \in Users /\ net.seen \in Int /\ net.closing \in Int /\ net.alone \in BOOLEAN
  BY <1>t DEF Netting
<1>2. PICK covered \in Int : covered = Hedge!Covered(gap, net.closing, net.whole)
  BY <1>t, <1>1 DEF Hedge!Covered
<1>3. net' = Hedge!Idle /\ UNCHANGED <<omnibus, unapplied>>
  BY DEF Hedge!Net
<1>4. StillAlone'
  BY <1>3 DEF StillAlone, Hedge!Idle
<1>5. CASE UNCHANGED <<holding, offset, misled>>
  BY <1>t, <1>3, <1>4, <1>5 DEF HedgeTypes, Hedge!OffsetIsResidual, Hedge!Residual
<1>6. CASE /\ holding' = [holding EXCEPT ![net.trader] = @ + covered]
           /\ offset' = Hedge!NextResidual(net.seen, Hedge!Total(holding), covered)
           /\ misled' = ~net.alone
  <2>1. HedgeTypes'
    BY <1>t, <1>1, <1>3, <1>6 DEF HedgeTypes
  <2>2. Hedge!Total(holding') = Hedge!Total(holding) + covered
    BY <1>t, <1>1, <1>6, HedgeTotalChange DEF HedgeTypes
  <2>3. ASSUME ~misled'
        PROVE  offset' = Hedge!Residual'
    <3>1. net.alone /\ net # Hedge!Idle
      BY <1>1, <1>6, <2>3 DEF Hedge!Net
    <3>2. net.seen = omnibus /\ Hedge!Total(unapplied) = 0
      BY <1>t, <3>1, HedgeTotalZero DEF StillAlone, HedgeTypes
    <3> QED
      BY <1>t, <1>1, <1>3, <1>6, <2>2, <3>2 DEF Hedge!NextResidual, Hedge!Residual, HedgeTypes
  <2> QED
    BY <1>4, <2>1, <2>3 DEF Hedge!OffsetIsResidual
<1> QED
  BY <1>2, <1>5, <1>6 DEF Hedge!Net

LEMMA HedgeStep == HedgeInv /\ [Hedge!HedgeNext]_(Hedge!hedgeVars) => HedgeInv'
<1> SUFFICES ASSUME HedgeInv, [Hedge!HedgeNext]_(Hedge!hedgeVars) PROVE HedgeInv'
  OBVIOUS
<1>a. Hedge!HedgeAssumption'
  BY DEF HedgeInv, Hedge!HedgeAssumption
<1>t. HedgeTypes /\ StillAlone /\ Hedge!OffsetIsResidual
  BY DEF HedgeInv
<1>1. ASSUME UNCHANGED <<holding, omnibus, unapplied, offset, misled>>, net' = net \/ net' = Hedge!Idle
      PROVE  HedgeTypes' /\ StillAlone' /\ Hedge!OffsetIsResidual'
  BY <1>t, <1>1 DEF HedgeTypes, StillAlone, Hedge!OffsetIsResidual, Hedge!Residual
<1>2. ASSUME NEW u \in Users, (\E side \in {1, -1} : Hedge!Fill(u, side)) \/ Hedge!Apply(u)
      PROVE  HedgeTypes' /\ StillAlone' /\ Hedge!OffsetIsResidual'
  BY <1>2, FillOrApply
<1>3. ASSUME NEW u \in Users, NEW b \in BOOLEAN, NEW n \in 1 .. Hedge!Size(holding[u]), Hedge!NetSee(u, n, b)
      PROVE  HedgeTypes' /\ StillAlone' /\ Hedge!OffsetIsResidual'
  <2>1. /\ net' = [pc |-> "seen", trader |-> u, seen |-> omnibus,
                   closing |-> IF holding[u] > 0 THEN -n ELSE n,
                   whole |-> b, alone |-> \A v \in Users : unapplied[v] = 0]
        /\ UNCHANGED <<holding, omnibus, unapplied, offset, misled>>
    BY <1>3 DEF Hedge!NetSee
  <2>2. net' \in Netting
    BY <1>t, <2>1 DEF HedgeTypes, Netting
  <2>3. StillAlone'
    BY <2>1 DEF StillAlone
  <2> QED
    BY <1>t, <2>1, <2>2, <2>3 DEF HedgeTypes, Hedge!OffsetIsResidual, Hedge!Residual
<1>4. ASSUME Hedge!Net
      PROVE  HedgeTypes' /\ StillAlone' /\ Hedge!OffsetIsResidual'
  BY <1>4, NetStep
<1>5. ASSUME NEW n \in Legacy, Hedge!SetOffset(n)
      PROVE  HedgeTypes' /\ StillAlone' /\ Hedge!OffsetIsResidual'
  BY <1>t, <1>5 DEF HedgeTypes, StillAlone, Hedge!OffsetIsResidual, Hedge!Residual, Hedge!SetOffset
<1>6. ASSUME NEW c \in Checkers, Hedge!Begin(c) \/ Hedge!CheckStep(c) \/ Hedge!CheckFails(c)
      PROVE  UNCHANGED <<holding, omnibus, unapplied, offset, misled, net>>
  BY <1>6 DEF Hedge!Begin, Hedge!CheckStep, Hedge!CheckFails, Hedge!SeeProvider, Hedge!SeeOffset, Hedge!Compare, Hedge!Write
<1>7. ASSUME Hedge!FiveSeconds \/ Hedge!Restart \/ UNCHANGED Hedge!hedgeVars
      PROVE  UNCHANGED <<holding, omnibus, unapplied, offset, misled>> /\ (net' = net \/ net' = Hedge!Idle)
  BY <1>7 DEF Hedge!FiveSeconds, Hedge!Restart, Hedge!hedgeVars
<1> QED
  BY <1>a, <1>1, <1>2, <1>3, <1>4, <1>5, <1>6, <1>7 DEF HedgeInv, Hedge!HedgeNext

\* applyExistingProviderHedgeCoverage: the offset that the check of positions allows for is what
\* the omnibus account holds beyond the users' positions and the fills on their way, unless it
\* was written from readings that fills went between.
THEOREM OffsetIsResidualAlways ==
  ASSUME Hedge!HedgeAssumption PROVE Hedge!HedgeSpec => []Hedge!OffsetIsResidual
<1>1. HedgeInv => Hedge!OffsetIsResidual
  BY DEF HedgeInv
<1> QED
  BY <1>1, HedgeStart, HedgeStep, PTL DEF Hedge!HedgeSpec

=============================================================================
