------------------------ MODULE OrderAggregateProofs ------------------------
(***************************************************************************)
(* Lemmas about OrderAggregate: what rebuilding an order from its events   *)
(* returns, and what the events a method raises do to it.                  *)
(***************************************************************************)
EXTENDS OrderAggregate, SequenceTheorems, WellFoundedInduction, TLAPS

-----------------------------------------------------------------------------
(* Induction over the natural numbers, for a set.                          *)
LEMMA NatSetInduction ==
  ASSUME NEW T, 0 \in T, \A n \in Nat : n \in T => n + 1 \in T
  PROVE  \A n \in Nat : n \in T
<1> DEFINE rest == {n \in Nat : n \notin T}
<1>. SUFFICES ASSUME rest # {} PROVE FALSE
  OBVIOUS
<1>1. \E x \in rest : \A y \in rest : ~(<<y, x>> \in OpToRel(<, Nat))
  BY NatLessThanWellFounded, WFMin
<1>2. PICK x \in rest : \A y \in rest : ~(y < x)
  BY <1>1 DEF OpToRel
<1>3. x # 0 /\ x - 1 \in Nat /\ x - 1 < x
  BY <1>2
<1>4. x - 1 \notin rest
  BY <1>2, <1>3
<1>. QED
  BY <1>2, <1>3, <1>4

-----------------------------------------------------------------------------
(* The function that Replay(o, b) evaluates: f[1 .. k] is order o after    *)
(* the first k events of b.                                                *)
Folding(o, b, f, n) ==
  f = [s \in SUBSET (1 .. n) |->
         IF s = {} THEN o ELSE Apply(f[s \ {Max(s)}], b[Max(s)])]

LEMMA MaxIs ==
  ASSUME NEW s, s \subseteq Nat, NEW m \in s, \A y \in s : m >= y
  PROVE  Max(s) = m
<1>1. \A x \in s : (\A y \in s : x >= y) => x = m
  OBVIOUS
<1>. QED
  BY <1>1 DEF Max

LEMMA MaxInterval ==
  ASSUME NEW n \in Nat, NEW s \in SUBSET (1 .. (n + 1)), n + 1 \in s
  PROVE  Max(s) = n + 1
<1>1. s \subseteq Nat /\ \A y \in s : n + 1 >= y
  OBVIOUS
<1>. QED
  BY <1>1, MaxIs

LEMMA FoldingExists ==
  ASSUME NEW o, NEW b, NEW n \in Nat
  PROVE  \E f : Folding(o, b, f, n)
<1> DEFINE T == {k \in Nat : \E f : Folding(o, b, f, k)}
<1>1. 0 \in T
  <2> DEFINE f == [s \in SUBSET (1 .. 0) |-> o]
  <2>1. \A s \in SUBSET (1 .. 0) : s = {}
    OBVIOUS
  <2>2. f = [s \in SUBSET (1 .. 0) |->
               IF s = {} THEN o ELSE Apply(f[s \ {Max(s)}], b[Max(s)])]
    BY <2>1, Zenon
  <2>. QED
    BY <2>2 DEF Folding
<1>2. ASSUME NEW k \in Nat, k \in T PROVE k + 1 \in T
  <2>1. PICK f : Folding(o, b, f, k)
    BY <1>2
  <2> DEFINE g == [s \in SUBSET (1 .. (k + 1)) |->
                     IF k + 1 \in s THEN Apply(f[s \ {k + 1}], b[k + 1]) ELSE f[s]]
  <2>2. ASSUME NEW s \in SUBSET (1 .. (k + 1))
        PROVE  g[s] = IF s = {} THEN o ELSE Apply(g[s \ {Max(s)}], b[Max(s)])
    <3>1. CASE k + 1 \in s
      <4>1. Max(s) = k + 1
        BY <3>1, MaxInterval
      <4>2. g[s \ {k + 1}] = f[s \ {k + 1}]
        OBVIOUS
      <4>. QED
        BY <3>1, <4>1, <4>2
    <3>2. CASE k + 1 \notin s
      <4>1. s \in SUBSET (1 .. k)
        BY <3>2
      <4>2. f[s] = IF s = {} THEN o ELSE Apply(f[s \ {Max(s)}], b[Max(s)])
        BY <2>1, <4>1 DEF Folding
      <4>3. g[s] = f[s] /\ g[s \ {Max(s)}] = f[s \ {Max(s)}]
        BY <3>2
      <4>. QED
        BY <4>2, <4>3
    <3>. QED
      BY <3>1, <3>2
  <2>3. Folding(o, b, g, k + 1)
    BY <2>2 DEF Folding
  <2>. QED
    BY <2>3
<1> HIDE DEF T
<1>3. \A k \in Nat : k \in T
  BY <1>1, <1>2, NatSetInduction
<1>. QED
  BY <1>3 DEF T

UpTo(n) == 1 .. n
PartsOf(n) == SUBSET (1 .. n)

LEMMA UpToFacts ==
  /\ UpTo(0) = {}
  /\ \A n \in Nat \ {0} : /\ UpTo(n) # {}
                          /\ Max(UpTo(n)) = n
                          /\ UpTo(n) \ {n} = UpTo(n - 1)
  /\ \A m, n \in Nat : m <= n => UpTo(m) \in PartsOf(n)
<1>1. ASSUME NEW n \in Nat \ {0}
      PROVE  UpTo(n) # {} /\ Max(UpTo(n)) = n /\ UpTo(n) \ {n} = UpTo(n - 1)
  <2>1. n - 1 \in Nat /\ (n - 1) + 1 = n
    OBVIOUS
  <2>2. Max(UpTo(n)) = n
    BY <2>1, MaxInterval, SMTT(30) DEF UpTo
  <2>3. UpTo(n) # {}
    BY DEF UpTo
  <2>4. UpTo(n) \ {n} = UpTo(n - 1)
    BY DEF UpTo
  <2>. QED
    BY <2>2, <2>3, <2>4
<1>2. UpTo(0) = {}
  BY DEF UpTo
<1>3. \A m, n \in Nat : m <= n => UpTo(m) \in PartsOf(n)
  BY DEF UpTo, PartsOf
<1>. QED
  BY <1>1, <1>2, <1>3

LEMMA FoldingStep ==
  ASSUME NEW o, NEW b, NEW f, NEW n, Folding(o, b, f, n), NEW s \in PartsOf(n)
  PROVE  /\ s = {} => f[s] = o
         /\ s # {} => f[s] = Apply(f[s \ {Max(s)}], b[Max(s)])
BY DEF Folding, PartsOf

LEMMA FoldingAtZero ==
  ASSUME NEW o, NEW b, NEW f, NEW n \in Nat, Folding(o, b, f, n)
  PROVE  f[UpTo(0)] = o
<1>1. UpTo(0) \in PartsOf(n) /\ UpTo(0) = {}
  BY UpToFacts
<1>. QED
  BY <1>1 DEF Folding, PartsOf

LEMMA FoldingAt ==
  ASSUME NEW o, NEW b, NEW f, NEW n \in Nat, Folding(o, b, f, n), NEW k \in 1 .. n
  PROVE  f[UpTo(k)] = Apply(f[UpTo(k - 1)], b[k])
<1>1. UpTo(k) \in PartsOf(n) /\ UpTo(k) # {} /\ Max(UpTo(k)) = k
      /\ UpTo(k) \ {k} = UpTo(k - 1)
  BY UpToFacts
<1>2. f[UpTo(k)] = Apply(f[UpTo(k) \ {Max(UpTo(k))}], b[Max(UpTo(k))])
  BY <1>1, FoldingStep
<1>. QED
  BY <1>1, <1>2

Agree(b, c, m) == \A i \in 1 .. m : b[i] = c[i]

LEMMA FoldingUnique ==
  ASSUME NEW o, NEW b, NEW c, NEW f, NEW g, NEW m \in Nat, NEW n \in Nat,
         Folding(o, b, f, m), Folding(o, c, g, n),
         m <= n, Agree(b, c, m)
  PROVE  f[UpTo(m)] = g[UpTo(m)]
<1> DEFINE T == {k \in Nat : k <= m => f[UpTo(k)] = g[UpTo(k)]}
<1>1. 0 \in T
  BY FoldingAtZero
<1>2. ASSUME NEW k \in Nat, k \in T PROVE k + 1 \in T
  <2>. SUFFICES ASSUME k + 1 <= m PROVE f[UpTo(k + 1)] = g[UpTo(k + 1)]
    OBVIOUS
  <2>0. k + 1 \in 1 .. m /\ k + 1 \in 1 .. n /\ (k + 1) - 1 = k
    OBVIOUS
  <2>1. f[UpTo(k + 1)] = Apply(f[UpTo(k)], b[k + 1])
    BY <2>0, FoldingAt
  <2>2. g[UpTo(k + 1)] = Apply(g[UpTo(k)], c[k + 1])
    BY <2>0, FoldingAt
  <2>3. f[UpTo(k)] = g[UpTo(k)] /\ b[k + 1] = c[k + 1]
    BY <1>2 DEF Agree
  <2>. QED
    BY <2>1, <2>2, <2>3
<1> HIDE DEF T
<1>3. \A k \in Nat : k \in T
  BY <1>1, <1>2, NatSetInduction
<1>. QED
  BY <1>3 DEF T

LEMMA ReplayIsFolding ==
  ASSUME NEW S, NEW o, NEW b \in Seq(S)
  PROVE  \E f : Folding(o, b, f, Len(b)) /\ Replay(o, b) = f[UpTo(Len(b))]
<1> DEFINE f == CHOOSE f : Folding(o, b, f, Len(b))
<1>1. Folding(o, b, f, Len(b))
  BY FoldingExists
<1>2. DOMAIN b = 1 .. Len(b)
  OBVIOUS
<1>3. Replay(o, b) = f[UpTo(Len(b))]
  BY <1>2 DEF Replay, FoldLeft, MapThenFoldSet, Folding, UpTo
<1>. QED
  BY <1>1, <1>3

(* An order without events is as it was; one more event is applied to what *)
(* the events before it have made of the order.                            *)
LEMMA ReplayEmpty ==
  ASSUME NEW o
  PROVE  Replay(o, <<>>) = o
<1> DEFINE b == <<>>
<1>1. b \in Seq({}) /\ Len(b) = 0
  OBVIOUS
<1> HIDE DEF b
<1>2. PICK f : Folding(o, b, f, Len(b)) /\ Replay(o, b) = f[UpTo(Len(b))]
  BY <1>1, ReplayIsFolding
<1>3. Replay(o, b) = o
  BY <1>1, <1>2, FoldingAtZero
<1>. QED
  BY <1>3 DEF b

LEMMA ReplayAppend ==
  ASSUME NEW S, NEW o, NEW b \in Seq(S), NEW e \in S
  PROVE  Replay(o, Append(b, e)) = Apply(Replay(o, b), e)
<1> DEFINE n == Len(b)
           c == Append(b, e)
           m == Len(c)
<1>1. /\ c \in Seq(S) /\ m \in Nat /\ n \in Nat /\ m - 1 = n /\ n <= m /\ m \in 1 .. m
      /\ c[m] = e
      /\ Agree(b, c, n)
  BY DEF Agree
<1>2. PICK f : Folding(o, b, f, n) /\ Replay(o, b) = f[UpTo(n)]
  BY ReplayIsFolding
<1>3. PICK g : Folding(o, c, g, m) /\ Replay(o, c) = g[UpTo(m)]
  BY <1>1, ReplayIsFolding
<1> HIDE DEF n, c, m
<1>4. f[UpTo(n)] = g[UpTo(n)]
  <2>1. n \in Nat /\ m \in Nat /\ n <= m /\ Agree(b, c, n)
    BY <1>1
  <2>2. Folding(o, b, f, n) /\ Folding(o, c, g, m)
    BY <1>2, <1>3
  <2>. QED
    BY ONLY <2>1, <2>2, FoldingUnique
<1>5. g[UpTo(m)] = Apply(g[UpTo(m - 1)], c[m])
  BY <1>1, <1>3, FoldingAt
<1>. QED
  BY <1>1, <1>2, <1>3, <1>4, <1>5 DEF c

LEMMA ReplayOne ==
  ASSUME NEW o, NEW e
  PROVE  Replay(o, <<e>>) = Apply(o, e)
<1> DEFINE b == <<>>
<1>1. b \in Seq({e}) /\ <<e>> = Append(b, e)
  OBVIOUS
<1>2. Replay(o, b) = o
  BY ReplayEmpty
<1> HIDE DEF b
<1>3. Replay(o, Append(b, e)) = Apply(Replay(o, b), e)
  BY <1>1, ReplayAppend
<1>. QED
  BY <1>1, <1>2, <1>3

LEMMA ReplayTwo ==
  ASSUME NEW o, NEW d, NEW e
  PROVE  Replay(o, <<d, e>>) = Apply(Apply(o, d), e)
<1> DEFINE b == <<d>>
<1>1. b \in Seq({d, e}) /\ <<d, e>> = Append(b, e)
  OBVIOUS
<1>2. Replay(o, b) = Apply(o, d)
  BY ReplayOne
<1> HIDE DEF b
<1>3. Replay(o, Append(b, e)) = Apply(Replay(o, b), e)
  BY <1>1, ReplayAppend
<1>. QED
  BY <1>1, <1>2, <1>3
-----------------------------------------------------------------------------
(* What each method raises and what becomes of the order.                  *)
LEMMA ConfirmEffect ==
  ASSUME NEW o \in OrderState, NEW b \in Confirm(o)
  PROVE  /\ o.status = "DRAFT"
         /\ \E e : /\ b = <<e>>
                   /\ e.type = "CONFIRMED"
                   /\ Replay(o, b) = [o EXCEPT !.status = "AWAITING_INVENTORY"]
<1> DEFINE e == [Event("CONFIRMED") EXCEPT !.n = o.items]
<1>1. o.status = "DRAFT" /\ b = <<e>>
  BY DEF Confirm, When
<1>2. e.type = "CONFIRMED"
  BY DEF Event
<1>3. Replay(o, b) = Apply(o, e)
  BY <1>1, ReplayOne
<1>4. Apply(o, e) = [o EXCEPT !.status = "AWAITING_INVENTORY"]
  BY <1>2 DEF Apply, OrderState
<1>. QED
  BY <1>1, <1>2, <1>3, <1>4

LEMMA MarkInventoryReservedEffect ==
  ASSUME NEW o \in OrderState, NEW b \in MarkInventoryReserved(o)
  PROVE  /\ o.status = "AWAITING_INVENTORY"
         /\ \E e : /\ b = <<e>>
                   /\ e.type = "INVENTORY_RESERVED"
                   /\ Replay(o, b) = [o EXCEPT !.status = "INVENTORY_RESERVED"]
<1> DEFINE e == Event("INVENTORY_RESERVED")
<1>1. o.status = "AWAITING_INVENTORY" /\ b = <<e>>
  BY DEF MarkInventoryReserved, When
<1>2. e.type = "INVENTORY_RESERVED"
  BY DEF Event
<1>3. Replay(o, b) = Apply(o, e)
  BY <1>1, ReplayOne
<1>4. Apply(o, e) = [o EXCEPT !.status = "INVENTORY_RESERVED"]
  BY <1>2 DEF Apply, OrderState
<1>. QED
  BY <1>1, <1>2, <1>3, <1>4

LEMMA MarkInventoryFailedEffect ==
  ASSUME NEW o \in OrderState, NEW b \in MarkInventoryFailed(o)
  PROVE  /\ o.status = "AWAITING_INVENTORY"
         /\ \E e : /\ b = <<e>>
                   /\ e.type = "INVENTORY_FAILED"
                   /\ Replay(o, b) = [o EXCEPT !.status = "INVENTORY_FAILED"]
<1> DEFINE e == Event("INVENTORY_FAILED")
<1>1. o.status = "AWAITING_INVENTORY" /\ b = <<e>>
  BY DEF MarkInventoryFailed, When
<1>2. e.type = "INVENTORY_FAILED"
  BY DEF Event
<1>3. Replay(o, b) = Apply(o, e)
  BY <1>1, ReplayOne
<1>4. Apply(o, e) = [o EXCEPT !.status = "INVENTORY_FAILED"]
  BY <1>2 DEF Apply, OrderState
<1>. QED
  BY <1>1, <1>2, <1>3, <1>4

LEMMA CancelEffect ==
  ASSUME NEW o \in OrderState, NEW b \in Cancel(o)
  PROVE  /\ o.status \notin {"CANCELLED", "SHIPPED"}
         /\ \E e : /\ b = <<e>>
                   /\ e.type = "CANCELLED"
                   /\ e.payment = o.payment
                   /\ Replay(o, b) = [o EXCEPT !.status = "CANCELLED"]
<1> DEFINE e == [Event("CANCELLED") EXCEPT !.payment = o.payment]
<1>1. o.status \notin {"CANCELLED", "SHIPPED"} /\ b = <<e>>
  BY DEF Cancel, When
<1>2. e.type = "CANCELLED" /\ e.payment = o.payment
  BY DEF Event
<1>3. Replay(o, b) = Apply(o, e)
  BY <1>1, ReplayOne
<1>4. Apply(o, e) = [o EXCEPT !.status = "CANCELLED"]
  BY <1>2 DEF Apply, OrderState
<1>. QED
  BY <1>1, <1>2, <1>3, <1>4

LEMMA MarkPaidEffect ==
  ASSUME NEW o \in OrderState, NEW p, NEW b \in MarkPaid(o, p)
  PROVE  /\ o.status = "INVENTORY_RESERVED"
         /\ \E e : /\ b = <<e>>
                   /\ e.type = "PAID"
                   /\ e.payment = p
                   /\ Replay(o, b) = [o EXCEPT !.status = "PAID", !.payment = p]
<1> DEFINE e == [Event("PAID") EXCEPT !.payment = p]
<1>1. o.status = "INVENTORY_RESERVED" /\ b = <<e>>
  BY DEF MarkPaid, When
<1>2. e.type = "PAID" /\ e.payment = p
  BY DEF Event
<1>3. Replay(o, b) = Apply(o, e)
  BY <1>1, ReplayOne
<1>4. Apply(o, e) = [o EXCEPT !.status = "PAID", !.payment = p]
  BY <1>2 DEF Apply, OrderState
<1>. QED
  BY <1>1, <1>2, <1>3, <1>4

LEMMA ShipEffect ==
  ASSUME NEW o \in OrderState, NEW b \in Ship(o)
  PROVE  /\ o.status = "PAID"
         /\ \E e : /\ b = <<e>>
                   /\ e.type = "SHIPPED"
                   /\ Replay(o, b) = [o EXCEPT !.status = "SHIPPED"]
<1> DEFINE e == Event("SHIPPED")
<1>1. o.status = "PAID" /\ b = <<e>>
  BY DEF Ship, When
<1>2. e.type = "SHIPPED"
  BY DEF Event
<1>3. Replay(o, b) = Apply(o, e)
  BY <1>1, ReplayOne
<1>4. Apply(o, e) = [o EXCEPT !.status = "SHIPPED"]
  BY <1>2 DEF Apply, OrderState
<1>. QED
  BY <1>1, <1>2, <1>3, <1>4

LEMMA PairIsConcat ==
  ASSUME NEW d, NEW e
  PROVE  <<d>> \o <<e>> = <<d, e>>
<1> DEFINE S == {d, e}
           t == <<d>> \o <<e>>
           u == <<d, e>>
<1>1. <<d>> \in Seq(S) /\ <<e>> \in Seq(S) /\ u \in Seq(S)
  OBVIOUS
<1>2. t \in Seq(S) /\ Len(t) = 2 /\ t[1] = d /\ t[2] = e
  BY <1>1, ConcatProperties
<1>3. Len(u) = 2 /\ u[1] = d /\ u[2] = e
  OBVIOUS
<1> HIDE DEF t, u
<1>4. \A i \in 1 .. Len(t) : t[i] = u[i]
  BY <1>2, <1>3
<1>5. t = u
  BY <1>1, <1>2, <1>3, <1>4, SeqEqual
<1>. QED
  BY <1>5 DEF t, u

(* A failed payment is counted; the last permitted one cancels the order.  *)
FailureCounted(o, b) ==
  /\ o.status = "INVENTORY_RESERVED"
  /\ \/ /\ o.failures + 1 < MaxPaymentFailures
        /\ \E f : /\ b = <<f>> /\ f.type = "PAYMENT_FAILED" /\ f.n = o.failures + 1
                 /\ Replay(o, b) = [o EXCEPT !.failures = o.failures + 1]
     \/ /\ o.failures + 1 >= MaxPaymentFailures
        /\ \E f, c :
             /\ b = <<f, c>> /\ f.type = "PAYMENT_FAILED" /\ f.n = o.failures + 1
             /\ c.type = "CANCELLED" /\ c.payment = o.payment
             /\ Replay(o, b) = [o EXCEPT !.failures = o.failures + 1, !.status = "CANCELLED"]

LEMMA RecordPaymentFailedEffect ==
  ASSUME NEW o \in OrderState, NEW p, NEW b \in RecordPaymentFailed(o, p)
  PROVE  FailureCounted(o, b)
<1> DEFINE f == [Event("PAYMENT_FAILED") EXCEPT !.payment = p, !.n = o.failures + 1]
           d == [o EXCEPT !.failures = o.failures + 1]
           c == [Event("CANCELLED") EXCEPT !.payment = d.payment]
<1>1. o.status = "INVENTORY_RESERVED"
  BY DEF RecordPaymentFailed
<1>2. f.type = "PAYMENT_FAILED" /\ f.n = o.failures + 1
  BY DEF Event
<1>3. Apply(o, f) = d
  BY <1>2 DEF Apply, OrderState
<1>4. o.failures \in Nat /\ MaxPaymentFailures \in Nat
  BY MaxPaymentFailuresAssumption DEF OrderState
<1>5. CASE o.failures + 1 < MaxPaymentFailures
  <2>1. b = <<f>>
    BY <1>1, <1>2, <1>5 DEF RecordPaymentFailed
  <2>2. Replay(o, b) = d
    BY <1>3, <2>1, ReplayOne
  <2>. QED
    BY <1>1, <1>2, <1>5, <2>1, <2>2 DEF FailureCounted
<1>6. CASE o.failures + 1 >= MaxPaymentFailures
  <2>1. PICK cancel \in Cancel(Apply(o, f)) : b = <<f>> \o cancel
    BY <1>1, <1>2, <1>4, <1>6 DEF RecordPaymentFailed
  <2>2. d.status = "INVENTORY_RESERVED" /\ d.payment = o.payment
    BY <1>1 DEF OrderState
  <2>3. cancel = <<c>>
    BY <1>3, <2>1, <2>2 DEF Cancel, When
  <2>4. b = <<f, c>>
    BY <2>1, <2>3, PairIsConcat
  <2>5. c.type = "CANCELLED" /\ c.payment = o.payment
    BY <2>2 DEF Event
  <2>6. Apply(d, c) = [o EXCEPT !.failures = o.failures + 1, !.status = "CANCELLED"]
    BY <2>5 DEF Apply, OrderState
  <2>7. Replay(o, b) = Apply(d, c)
    BY <1>3, <2>4, ReplayTwo
  <2>. HIDE DEF f, d, c
  <2>8. Replay(o, b) = [o EXCEPT !.failures = o.failures + 1, !.status = "CANCELLED"]
    BY <2>6, <2>7
  <2>. QED
    BY <1>1, <1>2, <1>6, <2>4, <2>5, <2>8 DEF FailureCounted
<1>. QED
  BY <1>4, <1>5, <1>6

=============================================================================
