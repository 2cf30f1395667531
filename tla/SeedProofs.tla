----------------------------- MODULE SeedProofs -----------------------------
(***************************************************************************)
(* The seed load never breaks a key, at any of its scales.  Every INSERT   *)
(* is shown to be sound: it writes the planned rows, keys apart, and       *)
(* refers to keys that Known promises of earlier tables, or to its own     *)
(* earlier rows.  Tables that are referred to are shown to be filled with  *)
(* the promised keys, so every reference meets a row.  The UPDATEs, the    *)
(* deliberate mess and the balance of the journals follow.                 *)
(***************************************************************************)
EXTENDS SeedPlan, FiniteSetTheorems, WellFoundedInduction, TLAPS

-----------------------------------------------------------------------------
(* A bulk block's batches are its rows                                     *)

(* A set of numbers has a least one: how the proofs below go up a sequence *)
(* batch by batch.                                                         *)
LEMMA LeastNatural ==
  ASSUME NEW S \in SUBSET Nat, S # {}
  PROVE  \E n \in S : \A m \in S : n <= m
<1>1. IsWellFoundedOn(OpToRel(<, Nat), Nat)
  BY NatLessThanWellFounded
<1>2. PICK x \in S : \A y \in S : ~(<<y, x>> \in OpToRel(<, Nat))
  BY <1>1, WFMin
<1>3. ASSUME NEW y \in S PROVE x <= y
  <2>1. ~(<<y, x>> \in {ss \in Nat \X Nat : ss[1] < ss[2]})
    BY <1>2 DEF OpToRel
  <2>2. x \in Nat /\ y \in Nat
    OBVIOUS
  <2>3. ~(y < x)
    BY <2>1, <2>2
  <2> QED
    BY <2>2, <2>3
<1> QED
  BY <1>3

Smaller(m, n) == IF m <= n THEN m ELSE n

(* q is the number of the last batch.                                      *)
LEMMA Batches ==
  ASSUME NEW rows \in Nat \ {0}, NEW size \in Nat \ {0}, NEW q, q = (rows - 1) \div size
  PROVE  q \in Nat /\ q * size < rows /\ rows <= (q + 1) * size
OBVIOUS

(* Where a batch after the first begins.                                   *)
LEMMA Positions ==
  ASSUME NEW rows \in Nat \ {0}, NEW size \in Nat \ {0}, NEW n \in Nat, n * size < rows,
         NEW b \in 2..(1 + n)
  PROVE  /\ b * size \in Nat /\ (b - 1) * size \in Nat
         /\ b * size = (b - 1) * size + size
         /\ (b - 1) * size < rows
<1>1. (b - 1) * size <= n * size
  OBVIOUS
<1> QED
  BY <1>1

(* The rows after lo and up to hi.                                         *)
Stretch(f, lo, hi) == [i \in 1..(hi - lo) |-> f[lo + i]]

(* Two stretches that meet are one.                                        *)
LEMMA Joined ==
  ASSUME NEW lo \in Nat, NEW hi \in Nat, lo <= hi, NEW f
  PROVE  Stretch(f, 0, lo) \o Stretch(f, lo, hi) = Stretch(f, 0, hi)
BY DEF Stretch

(* What is grown one batch at a time is what FlattenSeq makes of the       *)
(* batches: of the places where they differ, there is no least one.        *)
LEMMA Flattened ==
  ASSUME NEW n \in Nat \ {0}, NEW part, NEW seqs, 
         seqs = [b \in 1..n |-> seqs[b]], part = [b \in 1..n |-> part[b]],
         part[1] = seqs[1],
         \A b \in 2..n : part[b] = part[b - 1] \o seqs[b]
  PROVE  FlattenSeq(seqs) = part[n]
<1> DEFINE Fits(h) == h = [b \in 1..Len(seqs) |-> IF b = 1 THEN seqs[b] ELSE h[b - 1] \o seqs[b]]
           flatten == CHOOSE h : Fits(h)
<1>1. Len(seqs) = n
  OBVIOUS
<1>2. Fits(part)
  <2> DEFINE again == [b \in 1..n |-> IF b = 1 THEN seqs[b] ELSE part[b - 1] \o seqs[b]]
  <2>1. \A b \in 1..n : part[b] = again[b]
    <3> SUFFICES ASSUME NEW b \in 1..n PROVE part[b] = again[b]
      OBVIOUS
    <3>1. b = 1 \/ b \in 2..n
      OBVIOUS
    <3> QED
      BY <3>1
  <2> HIDE DEF again
  <2>2. part = [b \in 1..n |-> again[b]]
    BY <2>1
  <2>3. part = again
    BY <2>2 DEF again
  <2> QED
    BY <1>1, <2>3 DEF again
<1>3. Fits(flatten)
  BY <1>2
<1>4. FlattenSeq(seqs) = flatten[n]
  BY <1>1 DEF FlattenSeq
<1> HIDE DEF flatten
<1>5. ASSUME NEW b \in 1..n, flatten[b] # part[b] PROVE FALSE
  <2> DEFINE S == {c \in 1..n : flatten[c] # part[c]}
  <2>1. S \in SUBSET Nat /\ S # {}
    BY <1>5
  <2>2. PICK c \in S : \A m \in S : c <= m
    BY <2>1, LeastNatural
  <2>3. c # 1
    BY <1>1, <1>3
  <2>4. c - 1 \in 1..n /\ c \in 2..n /\ ~(c <= c - 1)
    BY <2>3
  <2>5. flatten[c - 1] = part[c - 1]
    BY <2>2, <2>4
  <2>6. flatten[c] = flatten[c - 1] \o seqs[c]
    BY <1>1, <1>3, <2>4
  <2> QED
    BY <2>4, <2>5, <2>6
<1> QED
  BY <1>4, <1>5

(* Its batches.                                                            *)
Batched(f, n, size, q) ==
  [b \in 1..(1 + q) |-> Stretch(f, (b - 1) * size, Smaller(b * size, n))]

(* Cut into batches, the rows come back as they were.                      *)
LEMMA Bulked ==
  ASSUME NEW size \in Nat \ {0}, NEW n \in Nat \ {0}, NEW f,
         NEW q \in Nat, q * size < n, n <= (q + 1) * size
  PROVE  FlattenSeq(Batched(f, n, size, q)) = Stretch(f, 0, n)
<1> DEFINE seqs == Batched(f, n, size, q)
<1>a. seqs = [b \in 1..(1 + q) |-> seqs[b]]
  BY DEF Batched
<1>b. \A b \in 1..(1 + q) : seqs[b] = Stretch(f, (b - 1) * size, Smaller(b * size, n))
  BY DEF Batched
<1> HIDE DEF seqs
<1> DEFINE part == [b \in 1..(1 + q) |-> Stretch(f, 0, Smaller(b * size, n))]
<1>1. \A b \in 1..(1 + q) : part[b] = Stretch(f, 0, Smaller(b * size, n))
  OBVIOUS
<1>2. part = [b \in 1..(1 + q) |-> part[b]]
  OBVIOUS
<1> HIDE DEF part
<1>3. 1 \in 1..(1 + q) /\ (1 - 1) * size = 0
  OBVIOUS
<1>4. part[1] = seqs[1]
  BY <1>1, <1>3, <1>b
<1>5. ASSUME NEW b \in 2..(1 + q)
      PROVE  part[b] = part[b - 1] \o seqs[b]
  <2>1. b - 1 \in 1..q /\ b \in 1..(1 + q) /\ b - 1 \in 1..(1 + q)
    OBVIOUS
  <2>2. (b - 1) * size \in Nat /\ (b - 1) * size < n /\ b * size \in Nat
        /\ b * size = (b - 1) * size + size
    BY Positions
  <2>3. Smaller((b - 1) * size, n) = (b - 1) * size
    BY <2>2 DEF Smaller
  <2>4. Smaller(b * size, n) \in Nat /\ (b - 1) * size <= Smaller(b * size, n)
    BY <2>2 DEF Smaller
  <2>5. part[b - 1] = Stretch(f, 0, (b - 1) * size)
    BY <1>1, <2>1, <2>3
  <2>6. part[b] = Stretch(f, 0, Smaller(b * size, n))
    BY <1>1, <2>1
  <2>7. seqs[b] = Stretch(f, (b - 1) * size, Smaller(b * size, n))
    BY <1>b, <2>1
  <2> DEFINE lo == (b - 1) * size
             hi == Smaller(b * size, n)
  <2>8. lo \in Nat /\ hi \in Nat /\ lo <= hi
    BY <2>2, <2>4
  <2>9. /\ part[b - 1] = Stretch(f, 0, lo) /\ seqs[b] = Stretch(f, lo, hi)
        /\ part[b] = Stretch(f, 0, hi)
    BY <2>5, <2>6, <2>7
  <2> HIDE DEF lo, hi
  <2>10. Stretch(f, 0, lo) \o Stretch(f, lo, hi) = Stretch(f, 0, hi)
    BY <2>8, Joined
  <2> QED
    BY <2>9, <2>10
<1>6. part[1 + q] = Stretch(f, 0, n)
  <2>1. (1 + q) * size \in Nat /\ (q + 1) * size = (1 + q) * size
    OBVIOUS
  <2>2. Smaller((1 + q) * size, n) = n
    BY <2>1 DEF Smaller
  <2> QED
    BY <1>1, <2>2
<1>7. \A b \in 2..(1 + q) : part[b] = part[b - 1] \o seqs[b]
  BY <1>5
<1>8. 1 + q \in Nat \ {0}
  OBVIOUS
<1>9. FlattenSeq(seqs) = part[1 + q]
  BY <1>a, <1>2, <1>4, <1>7, <1>8, Flattened
<1> QED
  BY <1>6, <1>9 DEF seqs

(* bulk_block: the batches are, one after the other, the rows.             *)
LEMMA BulkIs ==
  ASSUME NEW n \in Nat \ {0}, NEW f, f = [r \in 1..n |-> f[r]]
  PROVE  Bulk(f) = f
<1> DEFINE size == BatchSize[Scale]
           q == (n - 1) \div size
           left(b) == Len(f) - (b - 1) * size
           seqs == [b \in 1..(1 + (Len(f) - 1) \div size) |->
                     [i \in 1..(IF left(b) < size THEN left(b) ELSE size) |-> f[(b - 1) * size + i]]]
<1>1. size \in Nat \ {0}
  BY ScaleAssumption DEF BatchSize
<1>2. Len(f) = n
  OBVIOUS
<1> HIDE DEF size
<1>3. q \in Nat /\ q * size < n /\ n <= (q + 1) * size
  BY <1>1, Batches
<1>4. Bulk(f) = FlattenSeq(seqs)
  BY DEF Bulk, size
<1>5. \A b \in 1..(1 + (Len(f) - 1) \div size) :
         seqs[b] = Stretch(f, (b - 1) * size, (b - 1) * size + (IF left(b) < size THEN left(b) ELSE size))
  <2> SUFFICES ASSUME NEW b \in 1..(1 + (Len(f) - 1) \div size), NEW k, k = (b - 1) * size,
                      NEW m, m = (IF n - k < size THEN n - k ELSE size)
               PROVE  [i \in 1..m |-> f[k + i]] = Stretch(f, k, k + m)
    BY <1>2
  <2>1. b \in Int
    BY <1>1, <1>2, <1>3
  <2>2. k \in Int
    BY <1>1, <2>1
  <2>3. m \in Int
    BY <1>1, <2>2
  <2> QED
    BY <2>2, <2>3 DEF Stretch
<1>6. seqs = [b \in 1..(1 + q) |-> seqs[b]]
  BY <1>2
<1>7. \A b \in 1..(1 + q) : seqs[b] = Stretch(f, (b - 1) * size, Smaller(b * size, n))
  <2> SUFFICES ASSUME NEW b \in 1..(1 + q)
               PROVE  (b - 1) * size + (IF left(b) < size THEN left(b) ELSE size) = Smaller(b * size, n)
    BY <1>2, <1>5
  <2>1. (b - 1) * size \in Int /\ b * size = (b - 1) * size + size
    BY <1>1, <1>3
  <2> QED
    BY <1>1, <1>2, <2>1 DEF Smaller
<1> HIDE DEF seqs, q, left
<1>8. seqs = Batched(f, n, size, q)
  BY <1>6, <1>7 DEF Batched
<1>9. Stretch(f, 0, n) = f
  BY DEF Stretch
<1> QED
  BY <1>1, <1>3, <1>4, <1>8, <1>9, Bulked

-----------------------------------------------------------------------------
(* How many rows there are, and where                                      *)

(* The factor of the scale.                                                *)
Factor == ScaleFactor[Scale]

(* build_row_plan: the rows planned at every scale.                        *)
LEMMA Sizes ==
  /\ Factor \in Nat \ {0}
  /\ Planned.currency = 24
  /\ Planned.country = 40
  /\ Planned.exchange_rate = 2920
  /\ Planned.calendar_day = 1096
  /\ Planned.tax_rate = 160
  /\ Planned.region = 525
  /\ Planned.warehouse = 120
  /\ Planned.product_category = 246
  /\ Planned.loyalty_tier = 5
  /\ Planned.carrier = 12
  /\ Planned.return_reason = 24
  /\ Planned.gl_account = 180
  /\ Planned.gl_period = 36
  /\ Planned.app_parameter = 40
  /\ Planned.price_list = 48
  /\ Planned.promotion = 60
  /\ Planned.address = 1200 * Factor
  /\ Planned.store = 140 * Factor
  /\ Planned.employee = 420 * Factor
  /\ Planned.brand = 60 * Factor
  /\ Planned.product = 1100 * Factor
  /\ Planned.product_variant = 2400 * Factor
  /\ Planned.supplier = 120 * Factor
  /\ Planned.supplier_product = 1600 * Factor
  /\ Planned.customer = 2000 * Factor
  /\ Planned.customer_address = 2400 * Factor
  /\ Planned.loyalty_account = 1400 * Factor
  /\ Planned.loyalty_transaction = 2800 * Factor
  /\ Planned.price_list_item = 2000 * Factor
  /\ Planned.promotion_product = 300 * Factor
  /\ Planned.coupon = 600 * Factor
  /\ Planned.sales_order = 2400 * Factor
  /\ Planned.sales_order_line = 5600 * Factor
  /\ Planned.order_payment = 2600 * Factor
  /\ Planned.shipment = 1600 * Factor
  /\ Planned.shipment_line = 2800 * Factor
  /\ Planned.inventory_location = 800 * Factor
  /\ Planned.inventory_stock = 3200 * Factor
  /\ Planned.inventory_movement = 4000 * Factor
  /\ Planned.purchase_order = 600 * Factor
  /\ Planned.purchase_order_line = 1800 * Factor
  /\ Planned.goods_receipt = 1200 * Factor
  /\ Planned.return_request = 280 * Factor
  /\ Planned.return_line = 400 * Factor
  /\ Planned.gl_journal = 800 * Factor
  /\ Planned.gl_journal_line = 2400 * Factor
<1>1. Factor \in Nat \ {0}
  BY ScaleAssumption DEF Factor, ScaleFactor
<1>2. /\ Planned.currency = 24
      /\ Planned.country = 40
      /\ Planned.exchange_rate = 2920
      /\ Planned.calendar_day = 1096
      /\ Planned.tax_rate = 160
      /\ Planned.region = 525
      /\ Planned.warehouse = 120
      /\ Planned.product_category = 246
      /\ Planned.loyalty_tier = 5
      /\ Planned.carrier = 12
      /\ Planned.return_reason = 24
      /\ Planned.gl_account = 180
      /\ Planned.gl_period = 36
      /\ Planned.app_parameter = 40
      /\ Planned.price_list = 48
      /\ Planned.promotion = 60
  BY DEF Planned, Fixed, Scalable
<1>3. /\ Planned.address = 1200 * Factor
      /\ Planned.store = 140 * Factor
      /\ Planned.employee = 420 * Factor
      /\ Planned.brand = 60 * Factor
      /\ Planned.product = 1100 * Factor
      /\ Planned.product_variant = 2400 * Factor
      /\ Planned.supplier = 120 * Factor
      /\ Planned.supplier_product = 1600 * Factor
      /\ Planned.customer = 2000 * Factor
      /\ Planned.customer_address = 2400 * Factor
  BY DEF Planned, Fixed, Scalable, Factor
<1>4. /\ Planned.loyalty_account = 1400 * Factor
      /\ Planned.loyalty_transaction = 2800 * Factor
      /\ Planned.price_list_item = 2000 * Factor
      /\ Planned.promotion_product = 300 * Factor
      /\ Planned.coupon = 600 * Factor
      /\ Planned.sales_order = 2400 * Factor
      /\ Planned.sales_order_line = 5600 * Factor
      /\ Planned.order_payment = 2600 * Factor
      /\ Planned.shipment = 1600 * Factor
      /\ Planned.shipment_line = 2800 * Factor
  BY DEF Planned, Fixed, Scalable, Factor
<1>5. /\ Planned.inventory_location = 800 * Factor
      /\ Planned.inventory_stock = 3200 * Factor
      /\ Planned.inventory_movement = 4000 * Factor
      /\ Planned.purchase_order = 600 * Factor
      /\ Planned.purchase_order_line = 1800 * Factor
      /\ Planned.goods_receipt = 1200 * Factor
      /\ Planned.return_request = 280 * Factor
      /\ Planned.return_line = 400 * Factor
      /\ Planned.gl_journal = 800 * Factor
      /\ Planned.gl_journal_line = 2400 * Factor
  BY DEF Planned, Fixed, Scalable, Factor
<1> QED
  BY <1>1, <1>2, <1>3, <1>4, <1>5

(* The statement that inserts a table's rows.                              *)
Place ==
  [ currency |-> 1, country |-> 2, exchange_rate |-> 3,
    calendar_day |-> 4, tax_rate |-> 5, loyalty_tier |-> 6,
    carrier |-> 7, return_reason |-> 8, app_parameter |-> 9,
    gl_account |-> 10, gl_period |-> 11, region |-> 12, address |-> 13,
    warehouse |-> 14, store |-> 15, employee |-> 16,
    product_category |-> 19, brand |-> 20, product |-> 21,
    product_variant |-> 22, supplier |-> 23, supplier_product |-> 25,
    customer |-> 26, customer_address |-> 27, loyalty_account |-> 28,
    loyalty_transaction |-> 29, price_list |-> 30, promotion |-> 31,
    price_list_item |-> 32, promotion_product |-> 33, coupon |-> 34,
    inventory_location |-> 35, inventory_stock |-> 36,
    inventory_movement |-> 37, sales_order |-> 38,
    sales_order_line |-> 39, order_payment |-> 40, shipment |-> 41,
    shipment_line |-> 42, purchase_order |-> 43,
    purchase_order_line |-> 44, goods_receipt |-> 45,
    return_request |-> 46, return_line |-> 47, gl_journal |-> 48,
    gl_journal_line |-> 49 ]

(* As equations, one by one.                                               *)
LEMMA Places ==
  /\ Place.currency = 1 /\ Place.country = 2 /\ Place.exchange_rate = 3
  /\ Place.calendar_day = 4 /\ Place.tax_rate = 5 /\ Place.loyalty_tier = 6
  /\ Place.carrier = 7 /\ Place.return_reason = 8 /\ Place.app_parameter = 9
  /\ Place.gl_account = 10 /\ Place.gl_period = 11 /\ Place.region = 12
  /\ Place.address = 13 /\ Place.warehouse = 14 /\ Place.store = 15
  /\ Place.employee = 16 /\ Place.product_category = 19 /\ Place.brand = 20
  /\ Place.product = 21 /\ Place.product_variant = 22 /\ Place.supplier = 23
  /\ Place.supplier_product = 25 /\ Place.customer = 26
  /\ Place.customer_address = 27 /\ Place.loyalty_account = 28
  /\ Place.loyalty_transaction = 29 /\ Place.price_list = 30
  /\ Place.promotion = 31 /\ Place.price_list_item = 32
  /\ Place.promotion_product = 33 /\ Place.coupon = 34
  /\ Place.inventory_location = 35 /\ Place.inventory_stock = 36
  /\ Place.inventory_movement = 37 /\ Place.sales_order = 38
  /\ Place.sales_order_line = 39 /\ Place.order_payment = 40
  /\ Place.shipment = 41 /\ Place.shipment_line = 42
  /\ Place.purchase_order = 43 /\ Place.purchase_order_line = 44
  /\ Place.goods_receipt = 45 /\ Place.return_request = 46
  /\ Place.return_line = 47 /\ Place.gl_journal = 48
  /\ Place.gl_journal_line = 49
BY DEF Place

(* No statement is about a table before its rows are inserted.             *)
LEMMA PlaceIs == \A q \in 1..56 : Place[Load[q].table] <= q
BY DEF Place, Load, Insert, Update

(* There are 56 statements.                                                *)
LEMMA LoadIs == Len(Load) = 56 /\ DOMAIN Load = 1..56
BY DEF Load

-----------------------------------------------------------------------------
(* What a statement's rows may refer to                                    *)

(* Tables whose rows are numbered and referred to.                         *)
Numbered == {"country", "region", "address", "warehouse", "store", "employee", "product_category",
             "brand", "product", "product_variant", "supplier", "loyalty_tier", "carrier",
             "return_reason", "tax_rate", "gl_period", "customer", "loyalty_account", "price_list", "promotion", "coupon",
             "inventory_location", "sales_order", "shipment", "purchase_order", "return_request", "gl_journal"}

(* The keys others may refer to.                                           *)
Keys(table) ==
  CASE table = "gl_account" -> {<<Leaf(x)>> : x \in 0..99}
    [] table = "sales_order_line" -> (1..Planned.sales_order) \X (1..2)
    [] table = "purchase_order_line" -> (1..Planned.purchase_order) \X (1..3)
    [] OTHER -> {<<id>> : id \in 1..Planned[table]}

Referred == Numbered \cup {"gl_account", "sales_order_line", "purchase_order_line"}

(* The references a statement may make: to tables whose place is before it. *)
Known(p) == UNION {{table} \X Keys(table) : table \in {t \in Referred : Place[t] < p}}

(* Name by name.                                                           *)
LEMMA Members ==
  /\ "country" \in Numbered /\ "region" \in Numbered /\ "address" \in Numbered
  /\ "warehouse" \in Numbered /\ "store" \in Numbered
  /\ "employee" \in Numbered /\ "product_category" \in Numbered
  /\ "brand" \in Numbered /\ "product" \in Numbered
  /\ "product_variant" \in Numbered /\ "supplier" \in Numbered
  /\ "loyalty_tier" \in Numbered /\ "carrier" \in Numbered
  /\ "return_reason" \in Numbered /\ "tax_rate" \in Numbered
  /\ "gl_period" \in Numbered /\ "customer" \in Numbered
  /\ "loyalty_account" \in Numbered /\ "price_list" \in Numbered
  /\ "promotion" \in Numbered /\ "coupon" \in Numbered
  /\ "inventory_location" \in Numbered /\ "sales_order" \in Numbered
  /\ "shipment" \in Numbered /\ "purchase_order" \in Numbered
  /\ "return_request" \in Numbered /\ "gl_journal" \in Numbered
BY DEF Numbered

(* Their rows are counted.                                                 *)
LEMMA Counted == \A table \in Numbered : Planned[table] \in Nat \ {0}
BY Sizes DEF Numbered

(* One row of an earlier table.                                            *)
LEMMA ToKnown ==
  ASSUME NEW table \in Numbered, NEW p, Place[table] < p, NEW id \in 1..Planned[table]
  PROVE  To(table, id) \subseteq Known(p)
<1>1. Keys(table) = {<<i>> : i \in 1..Planned[table]} /\ table \in Referred
  BY DEF Keys, Numbered, Referred
<1> QED
  BY <1>1 DEF To, Known

(* Whatever the number, Cycle stays within the planned rows.               *)
LEMMA CycleKnown ==
  ASSUME NEW table \in Numbered, NEW p, Place[table] < p, NEW k \in Int
  PROVE  Cycle(table, k) \subseteq Known(p)
<1>1. 1 + (k % Planned[table]) \in 1..Planned[table]
  <2>1. ASSUME NEW n \in Nat \ {0} PROVE 1 + (k % n) \in 1..n
    OBVIOUS
  <2> QED
    BY <2>1, Counted
<1> QED
  BY <1>1, ToKnown DEF Cycle

(* Any row of an earlier table.                                            *)
LEMMA AnyKnown ==
  ASSUME NEW table \in Numbered, NEW p, Place[table] < p
  PROVE  AnyOf(table) \subseteq Known(p)
BY ToKnown DEF AnyOf

(* The rows of its own a row may refer to.                                 *)
Own(table, rows, i) == {<<table, rows[j].key>> : j \in 1..i}

(* A numbered table's keys are the numbers.                                *)
Numbers(table, rows) == \A r \in 1..Planned[table] : rows[r].key = <<r>>

(* A statement is sound: it has the planned rows, with keys and second     *)
(* keys of their own, and refers to keys of earlier tables and to its own  *)
(* earlier rows.                                                           *)
Sound(table, rows) ==
  /\ DOMAIN rows = 1..Planned[table] /\ Len(rows) = Planned[table]
  /\ \A i, j \in 1..Planned[table] :
       rows[i].key = rows[j].key \/ rows[i].unique = rows[j].unique => i = j
  /\ \A r \in 1..Planned[table] : rows[r].refs \subseteq Known(Place[table]) \cup Own(table, rows, r)

(* Rows whose keys are their numbers are sound if they refer back.         *)
LEMMA NumberedRows ==
  ASSUME NEW table, NEW rows, Planned[table] \in Nat,
         DOMAIN rows = 1..Planned[table], Len(rows) = Planned[table],
         \A r \in 1..Planned[table] :
           /\ rows[r].key = <<r>> /\ rows[r].unique = <<r>>
           /\ rows[r].refs \subseteq Known(Place[table]) \cup Own(table, rows, r)
  PROVE  Sound(table, rows) /\ Numbers(table, rows)
<1>1. ASSUME NEW i \in 1..Planned[table], NEW j \in 1..Planned[table],
             rows[i].key = rows[j].key \/ rows[i].unique = rows[j].unique
      PROVE  i = j
  <2>1. rows[i].key[1] = i /\ rows[j].key[1] = j /\ rows[i].unique[1] = i /\ rows[j].unique[1] = j
    OBVIOUS
  <2> QED
    BY <1>1, <2>1
<1> QED
  BY <1>1 DEF Sound, Numbers

-----------------------------------------------------------------------------
(* Rows spelled out, and rows with a second key                            *)

(* Rows that the source spells out.                                        *)
LEMMA ListedRows ==
  ASSUME NEW table, Planned[table] \in Nat \ {0}
  PROVE  Sound(table, Listed(table)) /\ Numbers(table, Listed(table))
<1>1. /\ DOMAIN Listed(table) = 1..Planned[table] /\ Len(Listed(table)) = Planned[table]
      /\ \A r \in 1..Planned[table] :
           /\ Listed(table)[r].key = <<r>> /\ Listed(table)[r].unique = <<r>>
           /\ Listed(table)[r].refs \subseteq Known(Place[table]) \cup Own(table, Listed(table), r)
  BY DEF Listed, Row
<1> QED
  BY <1>1, NumberedRows

(* Two coordinates of a number, the first cycling fastest.                 *)
LEMMA Coordinates ==
  ASSUME NEW n \in Nat \ {0}, NEW i \in Nat \ {0}, NEW j \in Nat \ {0},
         (i - 1) % n = (j - 1) % n, (i - 1) \div n = (j - 1) \div n
  PROVE  i = j
OBVIOUS

(* The same, counted from 1.                                               *)
LEMMA CoordinatesPlus ==
  ASSUME NEW n \in Nat \ {0}, NEW i \in Nat \ {0}, NEW j \in Nat \ {0},
         1 + ((i - 1) % n) = 1 + ((j - 1) % n), 1 + (i - 1) \div n = 1 + (j - 1) \div n
  PROVE  i = j
BY Coordinates

(* Soundness, key by key.                                                  *)
LEMMA SoundRows ==
  ASSUME NEW table, NEW rows, Planned[table] \in Nat \ {0},
         DOMAIN rows = 1..Planned[table], Len(rows) = Planned[table],
         \A i, j \in 1..Planned[table] : rows[i].key = rows[j].key => i = j,
         \A i, j \in 1..Planned[table] : rows[i].unique = rows[j].unique => i = j,
         \A r \in 1..Planned[table] : rows[r].refs \subseteq Known(Place[table]) \cup Own(table, rows, r)
  PROVE  Sound(table, rows)
BY DEF Sound

(* Numbers are keys of their own.                                          *)
LEMMA KeysApart ==
  ASSUME NEW n \in Nat, NEW rows, \A r \in 1..n : rows[r].key = <<r>>
  PROVE  \A i, j \in 1..n : rows[i].key = rows[j].key => i = j
<1> SUFFICES ASSUME NEW i \in 1..n, NEW j \in 1..n, rows[i].key = rows[j].key
             PROVE  i = j
  OBVIOUS
<1>1. rows[i].key[1] = i /\ rows[j].key[1] = j
  OBVIOUS
<1> QED
  BY <1>1

(* Country and class make the second key of a tax rate.                    *)
LEMMA tax_rate_rows == Sound("tax_rate", tax_rate) /\ Numbers("tax_rate", tax_rate)
<1>1. Planned.tax_rate \in Nat \ {0} /\ Planned.country = 40
  BY Sizes
<1>2. tax_rate = [r \in 1..Planned.tax_rate |->
        LET ci == 1 + ((r - 1) % 40)
        IN RowBut(<<r>>, <<ci, 1 + (r - 1) \div 40>>, To("country", ci))]
  BY <1>1, BulkIs DEF tax_rate
<1>3. Place.country < Place.tax_rate
  BY DEF Place
<1>4. /\ DOMAIN tax_rate = 1..Planned.tax_rate /\ Len(tax_rate) = Planned.tax_rate
      /\ \A r \in 1..Planned.tax_rate :
           /\ tax_rate[r].key = <<r>>
           /\ tax_rate[r].unique = <<1 + ((r - 1) % 40), 1 + (r - 1) \div 40>>
           /\ tax_rate[r].refs = To("country", 1 + ((r - 1) % 40))
  BY <1>1, <1>2 DEF RowBut, Row
<1>5. ASSUME NEW i \in 1..Planned.tax_rate, NEW j \in 1..Planned.tax_rate,
             tax_rate[i].unique = tax_rate[j].unique
      PROVE  i = j
  <2>1. 1 + ((i - 1) % 40) = 1 + ((j - 1) % 40) /\ 1 + (i - 1) \div 40 = 1 + (j - 1) \div 40
    BY <1>4, <1>5
  <2> QED
    BY <1>1, <2>1, CoordinatesPlus
<1>6. ASSUME NEW r \in 1..Planned.tax_rate PROVE tax_rate[r].refs \subseteq Known(Place.tax_rate)
  <2>1. 1 + ((r - 1) % 40) \in 1..Planned.country
    BY <1>1
  <2> QED
    BY <1>3, <1>4, <2>1, ToKnown DEF Numbered
<1>7. \A i, j \in 1..Planned.tax_rate : tax_rate[i].key = tax_rate[j].key => i = j
  BY <1>1, <1>4, KeysApart
<1> QED
  BY <1>1, <1>4, <1>5, <1>6, <1>7, SoundRows DEF Numbers

(* Year and month make the second key of a period.                         *)
LEMMA gl_period_rows == Sound("gl_period", gl_period) /\ Numbers("gl_period", gl_period)
<1>1. Planned.gl_period \in Nat \ {0}
  BY Sizes
<1>2. /\ DOMAIN gl_period = 1..Planned.gl_period /\ Len(gl_period) = Planned.gl_period
      /\ \A r \in 1..Planned.gl_period :
           /\ gl_period[r].key = <<r>>
           /\ gl_period[r].unique = <<2024 + (r - 1) \div 12, 1 + ((r - 1) % 12)>>
           /\ gl_period[r].refs = {}
  BY <1>1 DEF gl_period, RowBut, Row
<1>3. ASSUME NEW i \in 1..Planned.gl_period, NEW j \in 1..Planned.gl_period,
             gl_period[i].unique = gl_period[j].unique
      PROVE  i = j
  <2>1. (i - 1) % 12 = (j - 1) % 12 /\ (i - 1) \div 12 = (j - 1) \div 12
    <3>1. 2024 + (i - 1) \div 12 = 2024 + (j - 1) \div 12 /\ 1 + ((i - 1) % 12) = 1 + ((j - 1) % 12)
      BY <1>2, <1>3
    <3> QED
      BY <3>1
  <2> QED
    BY <1>1, <2>1, Coordinates
<1>4. \A i, j \in 1..Planned.gl_period : gl_period[i].key = gl_period[j].key => i = j
  BY <1>1, <1>2, KeysApart
<1>5. /\ DOMAIN gl_period = 1..Planned.gl_period /\ Len(gl_period) = Planned.gl_period
      /\ \A r \in 1..Planned.gl_period : gl_period[r].key = <<r>> /\ gl_period[r].refs \subseteq {}
  BY <1>2
<1> QED
  BY <1>1, <1>3, <1>4, <1>5, SoundRows DEF Numbers

(* Product, size and colour make the second key of a variant.              *)
LEMMA product_variant_rows ==
  Sound("product_variant", product_variant) /\ Numbers("product_variant", product_variant)
<1>1. Planned.product_variant \in Nat \ {0} /\ Planned.product \in Nat \ {0}
  BY Sizes
<1>2. product_variant = [r \in 1..Planned.product_variant |->
        RowBut(<<r>>, <<1 + ((r - 1) % Planned.product), (r - 1) \div Planned.product>>, Cycle("product", r - 1))]
  BY <1>1, BulkIs DEF product_variant
<1>3. Place.product < Place.product_variant
  BY DEF Place
<1>4. /\ DOMAIN product_variant = 1..Planned.product_variant
      /\ Len(product_variant) = Planned.product_variant
      /\ \A r \in 1..Planned.product_variant :
           /\ product_variant[r].key = <<r>>
           /\ product_variant[r].unique = <<1 + ((r - 1) % Planned.product), (r - 1) \div Planned.product>>
           /\ product_variant[r].refs = Cycle("product", r - 1)
  BY <1>1, <1>2 DEF RowBut, Row
<1>5. ASSUME NEW i \in 1..Planned.product_variant, NEW j \in 1..Planned.product_variant,
             product_variant[i].unique = product_variant[j].unique
      PROVE  i = j
  <2>1. /\ 1 + ((i - 1) % Planned.product) = 1 + ((j - 1) % Planned.product)
        /\ (i - 1) \div Planned.product = (j - 1) \div Planned.product
    BY <1>4, <1>5
  <2> QED
    BY <1>1, <2>1, CoordinatesPlus
<1>6. ASSUME NEW r \in 1..Planned.product_variant
      PROVE  product_variant[r].refs \subseteq Known(Place.product_variant)
  BY <1>3, <1>4, CycleKnown DEF Numbered
<1>7. \A i, j \in 1..Planned.product_variant : product_variant[i].key = product_variant[j].key => i = j
  BY <1>1, <1>4, KeysApart
<1> QED
  BY <1>1, <1>4, <1>5, <1>6, <1>7, SoundRows DEF Numbers

-----------------------------------------------------------------------------
(* Rows that refer to rows above them                                      *)

(* One of the rows above.                                                  *)
LEMMA ToOwn ==
  ASSUME NEW table, NEW rows, NEW r \in Int, NEW j \in 1..r, rows[j].key = <<j>>
  PROVE  To(table, j) \subseteq Own(table, rows, r)
BY DEF To, Own

(* A reversal refers five journals back.                                   *)
LEMMA gl_journal_rows == Sound("gl_journal", gl_journal) /\ Numbers("gl_journal", gl_journal)
<1>1. Planned.gl_journal \in Nat \ {0}
  BY Sizes
<1>2. gl_journal = [r \in 1..Planned.gl_journal |->
        Row(<<r>>, Cycle("gl_period", r - 1) \cup (IF r > 10 THEN To("gl_journal", r - 5) ELSE {}))]
  BY <1>1, BulkIs DEF gl_journal
<1>3. Place.gl_period < Place.gl_journal
  BY DEF Place
<1>5. /\ DOMAIN gl_journal = 1..Planned.gl_journal /\ Len(gl_journal) = Planned.gl_journal
      /\ \A r \in 1..Planned.gl_journal : gl_journal[r].key = <<r>> /\ gl_journal[r].unique = <<r>>
  BY <1>1, <1>2 DEF Row
<1>4. ASSUME NEW r \in 1..Planned.gl_journal
      PROVE  gl_journal[r].refs \subseteq Known(Place.gl_journal) \cup Own("gl_journal", gl_journal, r)
  <2>1. Cycle("gl_period", r - 1) \subseteq Known(Place.gl_journal)
    BY <1>3, CycleKnown DEF Numbered
  <2>2. r > 10 => To("gl_journal", r - 5) \subseteq Own("gl_journal", gl_journal, r)
    <3>1. r > 10 => r - 5 \in 1..Planned.gl_journal /\ r - 5 \in 1..r
      BY <1>1
    <3> QED
      BY <1>5, <3>1, ToOwn
  <2>3. gl_journal[r].refs = Cycle("gl_period", r - 1) \cup (IF r > 10 THEN To("gl_journal", r - 5) ELSE {})
    BY <1>2 DEF Row
  <2> QED
    BY <2>1, <2>2, <2>3
<1> QED
  BY <1>1, <1>4, <1>5, NumberedRows

(* A category's parent is above it.                                        *)
LEMMA AboveCategory ==
  ASSUME NEW r \in Nat \ {0}
  PROVE  CategoryRefs(r) = {} \/ \E j \in 1..r : CategoryRefs(r) = To("product_category", j)
<1>1. CASE r <= 6
  BY <1>1 DEF CategoryRefs
<1>2. CASE r \in 7..30
  <2>1. 1 + ((r - 7) % 6) \in 1..r
    BY <1>2
  <2> QED
    BY <1>2, <2>1 DEF CategoryRefs
<1>3. CASE r \in 31..102
  <2>1. 7 + ((r - 31) % 24) \in 1..r
    BY <1>3
  <2> QED
    BY <1>3, <2>1 DEF CategoryRefs
<1>4. CASE r > 102
  <2>1. 31 + ((r - 103) % 72) \in 1..r
    BY <1>4
  <2> QED
    BY <1>4, <2>1 DEF CategoryRefs
<1> QED
  BY <1>1, <1>2, <1>3, <1>4

(* Categories.                                                             *)
LEMMA product_category_rows ==
  Sound("product_category", product_category) /\ Numbers("product_category", product_category)
<1>1. Planned.product_category \in Nat \ {0} /\ Planned.product_category <= 246
  BY Sizes
<1>2. product_category = [r \in 1..Planned.product_category |-> Row(<<r>>, CategoryRefs(r))]
  BY <1>1, BulkIs DEF product_category
<1>3. /\ DOMAIN product_category = 1..Planned.product_category
      /\ Len(product_category) = Planned.product_category
      /\ \A r \in 1..Planned.product_category :
           product_category[r].key = <<r>> /\ product_category[r].unique = <<r>>
  BY <1>1, <1>2 DEF Row
<1>4. ASSUME NEW r \in 1..Planned.product_category
      PROVE  product_category[r].refs \subseteq Own("product_category", product_category, r)
  <2>1. product_category[r].refs = CategoryRefs(r)
    BY <1>2 DEF Row
  <2>2. \A j \in 1..r : product_category[j].key = <<j>>
    BY <1>1, <1>3
  <2> QED
    BY <1>1, <2>1, <2>2, AboveCategory, ToOwn
<1> QED
  BY <1>1, <1>3, <1>4, NumberedRows

(* A location's root is above it.                                          *)
LEMMA inventory_location_rows ==
  /\ Sound("inventory_location", inventory_location)
  /\ Numbers("inventory_location", inventory_location)
<1> DEFINE roots == IF Planned.inventory_location < 4 THEN 1 ELSE Planned.inventory_location \div 4
<1>1. Planned.inventory_location \in Nat \ {0} /\ roots \in Nat \ {0}
  BY Sizes
<1> HIDE DEF roots
<1>2. inventory_location = [r \in 1..Planned.inventory_location |->
        Row(<<r>>, Cycle(IF r % 2 = 0 THEN "warehouse" ELSE "store", r - 1)
                   \cup (IF r <= roots THEN {} ELSE To("inventory_location", 1 + (r % roots))))]
  BY <1>1, BulkIs DEF inventory_location, roots
<1>3. /\ DOMAIN inventory_location = 1..Planned.inventory_location
      /\ Len(inventory_location) = Planned.inventory_location
      /\ \A r \in 1..Planned.inventory_location :
           inventory_location[r].key = <<r>> /\ inventory_location[r].unique = <<r>>
  BY <1>1, <1>2 DEF Row
<1>4. Place.warehouse < Place.inventory_location /\ Place.store < Place.inventory_location
  BY DEF Place
<1>5. ASSUME NEW r \in 1..Planned.inventory_location
      PROVE  inventory_location[r].refs \subseteq
               Known(Place.inventory_location) \cup Own("inventory_location", inventory_location, r)
  <2> DEFINE place == IF r % 2 = 0 THEN "warehouse" ELSE "store"
  <2>1. Cycle(place, r - 1) \subseteq Known(Place.inventory_location)
    BY <1>4, CycleKnown DEF Numbered
  <2>2. roots < r => To("inventory_location", 1 + (r % roots)) \subseteq Own("inventory_location", inventory_location, r)
    <3>1. roots < r => 1 + (r % roots) \in 1..r /\ 1 + (r % roots) \in 1..Planned.inventory_location
      BY <1>1
    <3> QED
      BY <1>3, <3>1, ToOwn
  <2>3. inventory_location[r].refs = Cycle(place, r - 1)
          \cup (IF r <= roots THEN {} ELSE To("inventory_location", 1 + (r % roots)))
    BY <1>2 DEF Row
  <2> HIDE DEF place
  <2> QED
    BY <1>1, <2>1, <2>2, <2>3
<1> QED
  BY <1>1, <1>3, <1>5, NumberedRows

(* A region's parent is above it, its country is there.                    *)
LEMMA AboveRegion ==
  ASSUME NEW r \in 1..525, NEW p, Place.country < p
  PROVE  \E s \in SUBSET Known(p) : 
           \/ RegionRefs(r) = s
           \/ \E j \in 1..r : RegionRefs(r) = To("region", j) \cup s
<1>1. \A c \in 1..40 : To("country", c) \subseteq Known(p)
  BY Sizes, ToKnown DEF Numbered
<1>2. CASE r = 1
  <2>1. RegionRefs(r) = To("country", 1) /\ 1 \in 1..40
    BY <1>2 DEF RegionRefs
  <2> QED
    BY <1>1, <2>1
<1>3. CASE r \in 2..5
  <2> DEFINE c == 1 + ((r - 2) % 40)
  <2>1. 1 \in 1..r /\ c \in 1..40
    BY <1>3
  <2>2. RegionRefs(r) = To("region", 1) \cup To("country", c)
    BY <1>3 DEF RegionRefs
  <2> HIDE DEF c
  <2> QED
    BY <1>1, <2>1, <2>2
<1>4. CASE r \in 6..45
  <2> DEFINE j == 2 + ((r - 6) % 4)  c == r - 5
  <2>1. j \in 1..r /\ c \in 1..40
    BY <1>4
  <2>2. RegionRefs(r) = To("region", j) \cup To("country", c)
    BY <1>4 DEF RegionRefs
  <2> HIDE DEF c, j
  <2> QED
    BY <1>1, <2>1, <2>2
<1>5. CASE r \in 46..165
  <2> DEFINE j == 6 + ((r - 46) % 40)  c == ((r - 46) % 40) + 1
  <2>1. j \in 1..r /\ c \in 1..40
    BY <1>5
  <2>2. RegionRefs(r) = To("region", j) \cup To("country", c)
    BY <1>5 DEF RegionRefs
  <2> HIDE DEF c, j
  <2> QED
    BY <1>1, <2>1, <2>2
<1>6. CASE r > 165
  <2> DEFINE j == 46 + ((r - 166) % 120)  c == 1 + (((r - 166) % 120) % 40)
  <2>1. j \in 1..r /\ c \in 1..40
    BY <1>6
  <2>2. RegionRefs(r) = To("region", j) \cup To("country", c)
    BY <1>6 DEF RegionRefs
  <2> HIDE DEF c, j
  <2> QED
    BY <1>1, <2>1, <2>2
<1> QED
  BY <1>2, <1>3, <1>4, <1>5, <1>6

(* Regions.                                                                *)
LEMMA region_rows == Sound("region", region) /\ Numbers("region", region)
<1>1. Planned.region \in Nat \ {0} /\ Planned.region <= 525
  BY Sizes
<1>2. region = [r \in 1..Planned.region |-> Row(<<r>>, RegionRefs(r))]
  BY <1>1, BulkIs DEF region
<1>3. Place.country < Place.region
  BY DEF Place
<1>4. /\ DOMAIN region = 1..Planned.region /\ Len(region) = Planned.region
      /\ \A r \in 1..Planned.region : region[r].key = <<r>> /\ region[r].unique = <<r>>
  BY <1>1, <1>2 DEF Row
<1>5. ASSUME NEW r \in 1..Planned.region
      PROVE  region[r].refs \subseteq Known(Place.region) \cup Own("region", region, r)
  <2>1. region[r].refs = RegionRefs(r) /\ r \in 1..525
    BY <1>1, <1>2 DEF Row
  <2>2. \A j \in 1..r : To("region", j) \subseteq Own("region", region, r)
    <3>1. \A j \in 1..r : region[j].key = <<j>>
      BY <1>1, <1>4
    <3> QED
      BY <1>1, <3>1, ToOwn
  <2>3. PICK s \in SUBSET Known(Place.region) :
               RegionRefs(r) = s \/ \E j \in 1..r : RegionRefs(r) = To("region", j) \cup s
    BY <1>3, <2>1, AboveRegion
  <2> QED
    BY <2>1, <2>2, <2>3
<1> QED
  BY <1>1, <1>4, <1>5, NumberedRows

(* An employee's manager is above them.                                    *)
LEMMA employee_rows == Sound("employee", employee) /\ Numbers("employee", employee)
<1> DEFINE manager(r) == IF r \div (3 + (r % 3)) < 1 THEN 1 ELSE r \div (3 + (r % 3))
           refs(r) == (IF r % 7 = 0 THEN {} ELSE Cycle("store", r - 1))
                      \cup (IF r = 1 THEN {} ELSE To("employee", manager(r)))
<1>1. Planned.employee \in Nat \ {0}
  BY Sizes
<1>2. employee = [r \in 1..Planned.employee |-> Row(<<r>>, refs(r))]
  BY <1>1, BulkIs DEF employee
<1>3. Place.store < Place.employee
  BY DEF Place
<1>a. ASSUME NEW r \in Nat \ {0} PROVE manager(r) \in 1..r
  <2>1. r % 3 \in 0..2 /\ 3 + (r % 3) \in 3..5
    OBVIOUS
  <2>2. ASSUME NEW d \in 3..5 PROVE r \div d \in 0..r
    <3>1. d = 3 \/ d = 4 \/ d = 5
      OBVIOUS
    <3> QED
      BY <3>1
  <2> QED
    BY <2>1, <2>2
<1> HIDE DEF manager
<1>b. ASSUME NEW r \in 1..Planned.employee
      PROVE  \/ refs(r) \subseteq Cycle("store", r - 1)
             \/ \E j \in 1..r : refs(r) \subseteq Cycle("store", r - 1) \cup To("employee", j)
  <2>1. manager(r) \in 1..r
    BY <1>1, <1>a
  <2> QED
    BY <2>1
<1> HIDE DEF refs
<1>4. /\ DOMAIN employee = 1..Planned.employee /\ Len(employee) = Planned.employee
      /\ \A r \in 1..Planned.employee : employee[r].key = <<r>> /\ employee[r].unique = <<r>>
  BY <1>1, <1>2 DEF Row
<1>5. ASSUME NEW r \in 1..Planned.employee
      PROVE  employee[r].refs \subseteq Known(Place.employee) \cup Own("employee", employee, r)
  <2>1. employee[r].refs = refs(r)
    BY <1>2 DEF Row
  <2>2. Cycle("store", r - 1) \subseteq Known(Place.employee)
    BY <1>3, CycleKnown DEF Numbered
  <2>3. \A j \in 1..r : To("employee", j) \subseteq Own("employee", employee, r)
    <3>1. \A j \in 1..r : employee[j].key = <<j>>
      BY <1>1, <1>4
    <3> QED
      BY <1>1, <3>1, ToOwn
  <2> QED
    BY <1>b, <2>1, <2>2, <2>3
<1> QED
  BY <1>1, <1>4, <1>5, NumberedRows

-----------------------------------------------------------------------------
(* Rows that are numbered                                                  *)

(* Days refer to nothing.                                                  *)
LEMMA calendar_day_rows ==
  Sound("calendar_day", calendar_day) /\ Numbers("calendar_day", calendar_day)
<1>1. Planned.calendar_day \in Nat \ {0}
  BY Sizes
<1>2. calendar_day = [r \in 1..Planned.calendar_day |-> Row(<<r>>, {})]
  BY <1>1, BulkIs DEF calendar_day
<1>4. ASSUME NEW r \in 1..Planned.calendar_day
      PROVE  calendar_day[r].refs \subseteq Known(Place.calendar_day)
  BY <1>1, <1>2 DEF Row
<1>5. /\ DOMAIN calendar_day = 1..Planned.calendar_day /\ Len(calendar_day) = Planned.calendar_day
      /\ \A r \in 1..Planned.calendar_day : calendar_day[r].key = <<r>> /\ calendar_day[r].unique = <<r>>
  BY <1>1, <1>2 DEF Row
<1> QED
  BY <1>1, <1>4, <1>5, NumberedRows

(* An address refers to its country.                                       *)
LEMMA address_rows == Sound("address", address) /\ Numbers("address", address)
<1>1. Planned.address \in Nat \ {0}
  BY Sizes
<1>2. address = [r \in 1..Planned.address |-> Row(<<r>>, Cycle("country", r - 1))]
  BY <1>1, BulkIs DEF address
<1>3. Place.country < Place.address
  BY DEF Place
<1>4. ASSUME NEW r \in 1..Planned.address
      PROVE  address[r].refs \subseteq Known(Place.address)
  BY <1>1, <1>2, <1>3, CycleKnown DEF Row, Numbered
<1>5. /\ DOMAIN address = 1..Planned.address /\ Len(address) = Planned.address
      /\ \A r \in 1..Planned.address : address[r].key = <<r>> /\ address[r].unique = <<r>>
  BY <1>1, <1>2 DEF Row
<1> QED
  BY <1>1, <1>4, <1>5, NumberedRows

(* Brands refer to nothing; an UPDATE adds their owners.                   *)
LEMMA brand_rows == Sound("brand", brand) /\ Numbers("brand", brand)
<1>1. Planned.brand \in Nat \ {0}
  BY Sizes
<1>2. brand = [r \in 1..Planned.brand |-> Row(<<r>>, {})]
  BY <1>1, BulkIs DEF brand
<1>4. ASSUME NEW r \in 1..Planned.brand
      PROVE  brand[r].refs \subseteq Known(Place.brand)
  BY <1>1, <1>2 DEF Row
<1>5. /\ DOMAIN brand = 1..Planned.brand /\ Len(brand) = Planned.brand
      /\ \A r \in 1..Planned.brand : brand[r].key = <<r>> /\ brand[r].unique = <<r>>
  BY <1>1, <1>2 DEF Row
<1> QED
  BY <1>1, <1>4, <1>5, NumberedRows

(* A supplier refers to its address.                                       *)
LEMMA supplier_rows == Sound("supplier", supplier) /\ Numbers("supplier", supplier)
<1>1. Planned.supplier \in Nat \ {0}
  BY Sizes
<1>2. supplier = [r \in 1..Planned.supplier |-> Row(<<r>>, Cycle("address", r * 3 - 1))]
  BY <1>1, BulkIs DEF supplier
<1>3. Place.address < Place.supplier
  BY DEF Place
<1>4. ASSUME NEW r \in 1..Planned.supplier
      PROVE  supplier[r].refs \subseteq Known(Place.supplier)
  BY <1>1, <1>2, <1>3, CycleKnown DEF Row, Numbered
<1>5. /\ DOMAIN supplier = 1..Planned.supplier /\ Len(supplier) = Planned.supplier
      /\ \A r \in 1..Planned.supplier : supplier[r].key = <<r>> /\ supplier[r].unique = <<r>>
  BY <1>1, <1>2 DEF Row
<1> QED
  BY <1>1, <1>4, <1>5, NumberedRows

(* A price list refers to its country.                                     *)
LEMMA price_list_rows == Sound("price_list", price_list) /\ Numbers("price_list", price_list)
<1>1. Planned.price_list \in Nat \ {0}
  BY Sizes
<1>2. price_list = [r \in 1..Planned.price_list |-> Row(<<r>>, Cycle("country", r - 1))]
  BY <1>1, BulkIs DEF price_list
<1>3. Place.country < Place.price_list
  BY DEF Place
<1>4. ASSUME NEW r \in 1..Planned.price_list
      PROVE  price_list[r].refs \subseteq Known(Place.price_list)
  BY <1>1, <1>2, <1>3, CycleKnown DEF Row, Numbered
<1>5. /\ DOMAIN price_list = 1..Planned.price_list /\ Len(price_list) = Planned.price_list
      /\ \A r \in 1..Planned.price_list : price_list[r].key = <<r>> /\ price_list[r].unique = <<r>>
  BY <1>1, <1>2 DEF Row
<1> QED
  BY <1>1, <1>4, <1>5, NumberedRows

(* A promotion refers to its country.                                      *)
LEMMA promotion_rows == Sound("promotion", promotion) /\ Numbers("promotion", promotion)
<1>1. Planned.promotion \in Nat \ {0}
  BY Sizes
<1>2. promotion = [r \in 1..Planned.promotion |-> Row(<<r>>, Cycle("country", r - 1))]
  BY <1>1, BulkIs DEF promotion
<1>3. Place.country < Place.promotion
  BY DEF Place
<1>4. ASSUME NEW r \in 1..Planned.promotion
      PROVE  promotion[r].refs \subseteq Known(Place.promotion)
  BY <1>1, <1>2, <1>3, CycleKnown DEF Row, Numbered
<1>5. /\ DOMAIN promotion = 1..Planned.promotion /\ Len(promotion) = Planned.promotion
      /\ \A r \in 1..Planned.promotion : promotion[r].key = <<r>> /\ promotion[r].unique = <<r>>
  BY <1>1, <1>2 DEF Row
<1> QED
  BY <1>1, <1>4, <1>5, NumberedRows

(* A coupon refers to its promotion and perhaps a customer.                *)
LEMMA coupon_rows == Sound("coupon", coupon) /\ Numbers("coupon", coupon)
<1>1. Planned.coupon \in Nat \ {0}
  BY Sizes
<1>2. coupon = [r \in 1..Planned.coupon |->
    Row(<<r>>, Cycle("promotion", r - 1) \cup (IF r % 3 = 0 THEN {} ELSE Cycle("customer", r - 1)))]
  BY <1>1, BulkIs DEF coupon
<1>3. Place.promotion < Place.coupon /\ Place.customer < Place.coupon
  BY DEF Place
<1>4. ASSUME NEW r \in 1..Planned.coupon
      PROVE  coupon[r].refs \subseteq Known(Place.coupon)
  BY <1>1, <1>2, <1>3, CycleKnown DEF Row, Numbered
<1>5. /\ DOMAIN coupon = 1..Planned.coupon /\ Len(coupon) = Planned.coupon
      /\ \A r \in 1..Planned.coupon : coupon[r].key = <<r>> /\ coupon[r].unique = <<r>>
  BY <1>1, <1>2 DEF Row
<1> QED
  BY <1>1, <1>4, <1>5, NumberedRows

(* A payment refers to its order.                                          *)
LEMMA order_payment_rows ==
  Sound("order_payment", order_payment) /\ Numbers("order_payment", order_payment)
<1>1. Planned.order_payment \in Nat \ {0}
  BY Sizes
<1>2. order_payment = [r \in 1..Planned.order_payment |-> Row(<<r>>, Cycle("sales_order", r - 1))]
  BY <1>1, BulkIs DEF order_payment
<1>3. Place.sales_order < Place.order_payment
  BY DEF Place
<1>4. ASSUME NEW r \in 1..Planned.order_payment
      PROVE  order_payment[r].refs \subseteq Known(Place.order_payment)
  BY <1>1, <1>2, <1>3, CycleKnown DEF Row, Numbered
<1>5. /\ DOMAIN order_payment = 1..Planned.order_payment
      /\ Len(order_payment) = Planned.order_payment
      /\ \A r \in 1..Planned.order_payment : order_payment[r].key = <<r>> /\ order_payment[r].unique = <<r>>
  BY <1>1, <1>2 DEF Row
<1> QED
  BY <1>1, <1>4, <1>5, NumberedRows

(* A shipment refers to its order, a carrier and a location.               *)
LEMMA shipment_rows == Sound("shipment", shipment) /\ Numbers("shipment", shipment)
<1>1. Planned.shipment \in Nat \ {0}
  BY Sizes
<1>2. shipment = [r \in 1..Planned.shipment |->
    Row(<<r>>, Cycle("sales_order", r - 1) \cup AnyOf("carrier")
               \cup Cycle("inventory_location", r * 2 - 1))]
  BY <1>1, BulkIs DEF shipment
<1>3. /\ Place.sales_order < Place.shipment /\ Place.carrier < Place.shipment
      /\ Place.inventory_location < Place.shipment
  BY DEF Place
<1>4. ASSUME NEW r \in 1..Planned.shipment
      PROVE  shipment[r].refs \subseteq Known(Place.shipment)
  BY <1>1, <1>2, <1>3, CycleKnown, AnyKnown DEF Row, Numbered
<1>5. /\ DOMAIN shipment = 1..Planned.shipment /\ Len(shipment) = Planned.shipment
      /\ \A r \in 1..Planned.shipment : shipment[r].key = <<r>> /\ shipment[r].unique = <<r>>
  BY <1>1, <1>2 DEF Row
<1> QED
  BY <1>1, <1>4, <1>5, NumberedRows

(* A purchase order refers to its supplier, warehouse and buyer.           *)
LEMMA purchase_order_rows ==
  Sound("purchase_order", purchase_order) /\ Numbers("purchase_order", purchase_order)
<1>1. Planned.purchase_order \in Nat \ {0}
  BY Sizes
<1>2. purchase_order = [r \in 1..Planned.purchase_order |->
    Row(<<r>>, Cycle("supplier", r - 1) \cup Cycle("warehouse", r - 1) \cup Cycle("employee", r - 1))]
  BY <1>1, BulkIs DEF purchase_order
<1>3. /\ Place.supplier < Place.purchase_order /\ Place.warehouse < Place.purchase_order
      /\ Place.employee < Place.purchase_order
  BY DEF Place
<1>4. ASSUME NEW r \in 1..Planned.purchase_order
      PROVE  purchase_order[r].refs \subseteq Known(Place.purchase_order)
  BY <1>1, <1>2, <1>3, CycleKnown DEF Row, Numbered
<1>5. /\ DOMAIN purchase_order = 1..Planned.purchase_order
      /\ Len(purchase_order) = Planned.purchase_order
      /\ \A r \in 1..Planned.purchase_order : purchase_order[r].key = <<r>> /\ purchase_order[r].unique = <<r>>
  BY <1>1, <1>2 DEF Row
<1> QED
  BY <1>1, <1>4, <1>5, NumberedRows

(* A customer refers to a country, a store and an address.                 *)
LEMMA customer_rows == Sound("customer", customer) /\ Numbers("customer", customer)
<1>1. Planned.customer \in Nat \ {0}
  BY Sizes
<1>2. customer = [r \in 1..Planned.customer |->
    Row(<<r>>, Cycle("country", r - 1) \cup Cycle("store", r - 1) \cup Cycle("address", r * 5 - 1))]
  BY <1>1, BulkIs DEF customer
<1>3. /\ Place.country < Place.customer /\ Place.store < Place.customer
      /\ Place.address < Place.customer
  BY DEF Place
<1>4. ASSUME NEW r \in 1..Planned.customer
      PROVE  customer[r].refs \subseteq Known(Place.customer)
  BY <1>1, <1>2, <1>3, CycleKnown DEF Row, Numbered
<1>5. /\ DOMAIN customer = 1..Planned.customer /\ Len(customer) = Planned.customer
      /\ \A r \in 1..Planned.customer : customer[r].key = <<r>> /\ customer[r].unique = <<r>>
  BY <1>1, <1>2 DEF Row
<1> QED
  BY <1>1, <1>4, <1>5, NumberedRows

(* An order refers to rows of five tables and two addresses.               *)
LEMMA sales_order_rows == Sound("sales_order", sales_order) /\ Numbers("sales_order", sales_order)
<1>1. Planned.sales_order \in Nat \ {0}
  BY Sizes
<1>2. sales_order = [r \in 1..Planned.sales_order |->
    Row(<<r>>, (UNION {Cycle(t, r - 1) : t \in {"customer", "store", "promotion", "coupon", "employee"}})
               \cup Cycle("address", r * 3 - 1) \cup Cycle("address", r * 7 - 1))]
  BY <1>1, BulkIs DEF sales_order
<1>3. /\ Place.customer < Place.sales_order /\ Place.store < Place.sales_order
      /\ Place.promotion < Place.sales_order /\ Place.coupon < Place.sales_order
      /\ Place.employee < Place.sales_order /\ Place.address < Place.sales_order
  BY DEF Place
<1>4. ASSUME NEW r \in 1..Planned.sales_order
      PROVE  sales_order[r].refs \subseteq Known(Place.sales_order)
  <2> DEFINE five == UNION {Cycle(t, r - 1) : t \in {"customer", "store", "promotion", "coupon", "employee"}}
  <2>1. five \subseteq Known(Place.sales_order)
    BY <1>3, CycleKnown DEF Numbered
  <2>2. /\ Cycle("address", r * 3 - 1) \subseteq Known(Place.sales_order)
        /\ Cycle("address", r * 7 - 1) \subseteq Known(Place.sales_order)
    BY <1>3, CycleKnown DEF Numbered
  <2>3. sales_order[r].refs = five \cup Cycle("address", r * 3 - 1) \cup Cycle("address", r * 7 - 1)
    BY <1>2 DEF Row
  <2> HIDE DEF five
  <2> QED
    BY <2>1, <2>2, <2>3
<1>5. /\ DOMAIN sales_order = 1..Planned.sales_order /\ Len(sales_order) = Planned.sales_order
      /\ \A r \in 1..Planned.sales_order : sales_order[r].key = <<r>> /\ sales_order[r].unique = <<r>>
  BY <1>1, <1>2 DEF Row
<1> QED
  BY <1>1, <1>4, <1>5, NumberedRows

(* A return refers to rows of four tables.                                 *)
LEMMA return_request_rows ==
  Sound("return_request", return_request) /\ Numbers("return_request", return_request)
<1>1. Planned.return_request \in Nat \ {0}
  BY Sizes
<1>2. return_request = [r \in 1..Planned.return_request |->
    Row(<<r>>, UNION {Cycle(t, r - 1) : t \in {"sales_order", "customer", "store", "employee"}})]
  BY <1>1, BulkIs DEF return_request
<1>3. /\ Place.sales_order < Place.return_request /\ Place.customer < Place.return_request
      /\ Place.store < Place.return_request /\ Place.employee < Place.return_request
  BY DEF Place
<1>4. ASSUME NEW r \in 1..Planned.return_request
      PROVE  return_request[r].refs \subseteq Known(Place.return_request)
  BY <1>1, <1>2, <1>3, CycleKnown DEF Row, Numbered
<1>5. /\ DOMAIN return_request = 1..Planned.return_request
      /\ Len(return_request) = Planned.return_request
      /\ \A r \in 1..Planned.return_request : return_request[r].key = <<r>> /\ return_request[r].unique = <<r>>
  BY <1>1, <1>2 DEF Row
<1> QED
  BY <1>1, <1>4, <1>5, NumberedRows

(* An account refers to the customer of its number, and there are as many. *)
LEMMA loyalty_account_rows ==
  Sound("loyalty_account", loyalty_account) /\ Numbers("loyalty_account", loyalty_account)
<1>1. /\ Planned.loyalty_account \in Nat \ {0} /\ Planned.loyalty_account <= Planned.customer
      /\ Planned.customer \in Nat
  BY Sizes
<1>2. loyalty_account = [r \in 1..Planned.loyalty_account |->
    Row(<<r>>, To("customer", r) \cup AnyOf("loyalty_tier"))]
  BY <1>1, BulkIs DEF loyalty_account
<1>3. Place.customer < Place.loyalty_account /\ Place.loyalty_tier < Place.loyalty_account
  BY DEF Place
<1>4. ASSUME NEW r \in 1..Planned.loyalty_account
      PROVE  loyalty_account[r].refs \subseteq Known(Place.loyalty_account)
  BY <1>1, <1>2, <1>3, ToKnown, AnyKnown DEF Row, Numbered
<1>5. /\ DOMAIN loyalty_account = 1..Planned.loyalty_account
      /\ Len(loyalty_account) = Planned.loyalty_account
      /\ \A r \in 1..Planned.loyalty_account : loyalty_account[r].key = <<r>> /\ loyalty_account[r].unique = <<r>>
  BY <1>1, <1>2 DEF Row
<1> QED
  BY <1>1, <1>4, <1>5, NumberedRows

(* A warehouse refers to a country's region and an address.                *)
LEMMA warehouse_rows == Sound("warehouse", warehouse) /\ Numbers("warehouse", warehouse)
<1>1. Planned.warehouse \in Nat \ {0} /\ Planned.region = 525
  BY Sizes
<1>2. warehouse = [r \in 1..Planned.warehouse |->
    Row(<<r>>, To("region", 5 + 1 + ((r - 1) % 40)) \cup Cycle("address", r - 1))]
  BY <1>1, BulkIs DEF warehouse
<1>3. Place.region < Place.warehouse /\ Place.address < Place.warehouse
  BY DEF Place
<1>4. ASSUME NEW r \in 1..Planned.warehouse
      PROVE  warehouse[r].refs \subseteq Known(Place.warehouse)
  <2>1. 5 + 1 + ((r - 1) % 40) \in 1..Planned.region
    BY <1>1
  <2>2. /\ To("region", 5 + 1 + ((r - 1) % 40)) \subseteq Known(Place.warehouse)
        /\ Cycle("address", r - 1) \subseteq Known(Place.warehouse)
    BY <1>3, <2>1, ToKnown, CycleKnown DEF Numbered
  <2> QED
    BY <1>2, <2>2 DEF Row
<1>5. /\ DOMAIN warehouse = 1..Planned.warehouse /\ Len(warehouse) = Planned.warehouse
      /\ \A r \in 1..Planned.warehouse : warehouse[r].key = <<r>> /\ warehouse[r].unique = <<r>>
  BY <1>1, <1>2 DEF Row
<1> QED
  BY <1>1, <1>4, <1>5, NumberedRows

(* A store refers to a cluster's region and an address.                    *)
LEMMA store_rows == Sound("store", store) /\ Numbers("store", store)
<1>1. Planned.store \in Nat \ {0} /\ Planned.region = 525
  BY Sizes
<1>2. store = [r \in 1..Planned.store |->
    Row(<<r>>, To("region", 166 + ((r - 1) % 360)) \cup Cycle("address", r * 7 - 1))]
  BY <1>1, BulkIs DEF store
<1>3. Place.region < Place.store /\ Place.address < Place.store
  BY DEF Place
<1>4. ASSUME NEW r \in 1..Planned.store
      PROVE  store[r].refs \subseteq Known(Place.store)
  <2>1. 166 + ((r - 1) % 360) \in 1..Planned.region
    BY <1>1
  <2>2. /\ To("region", 166 + ((r - 1) % 360)) \subseteq Known(Place.store)
        /\ Cycle("address", r * 7 - 1) \subseteq Known(Place.store)
    BY <1>3, <2>1, ToKnown, CycleKnown DEF Numbered
  <2> QED
    BY <1>2, <2>2 DEF Row
<1>5. /\ DOMAIN store = 1..Planned.store /\ Len(store) = Planned.store
      /\ \A r \in 1..Planned.store : store[r].key = <<r>> /\ store[r].unique = <<r>>
  BY <1>1, <1>2 DEF Row
<1> QED
  BY <1>1, <1>4, <1>5, NumberedRows

(* A product refers to a leaf category and a brand.                        *)
LEMMA product_rows == Sound("product", product) /\ Numbers("product", product)
<1>1. Planned.product \in Nat \ {0} /\ Planned.product_category = 246
  BY Sizes
<1>2. product = [r \in 1..Planned.product |->
    Row(<<r>>, To("product_category", 103 + ((r - 1) % 144)) \cup Cycle("brand", r - 1))]
  BY <1>1, BulkIs DEF product
<1>3. Place.product_category < Place.product /\ Place.brand < Place.product
  BY DEF Place
<1>4. ASSUME NEW r \in 1..Planned.product
      PROVE  product[r].refs \subseteq Known(Place.product)
  <2>1. 103 + ((r - 1) % 144) \in 1..Planned.product_category
    BY <1>1
  <2>2. /\ To("product_category", 103 + ((r - 1) % 144)) \subseteq Known(Place.product)
        /\ Cycle("brand", r - 1) \subseteq Known(Place.product)
    BY <1>3, <2>1, ToKnown, CycleKnown DEF Numbered
  <2> QED
    BY <1>2, <2>2 DEF Row
<1>5. /\ DOMAIN product = 1..Planned.product /\ Len(product) = Planned.product
      /\ \A r \in 1..Planned.product : product[r].key = <<r>> /\ product[r].unique = <<r>>
  BY <1>1, <1>2 DEF Row
<1> QED
  BY <1>1, <1>4, <1>5, NumberedRows

(* A movement refers to a variant and, by its type, to locations.          *)
LEMMA inventory_movement_rows ==
  Sound("inventory_movement", inventory_movement) /\ Numbers("inventory_movement", inventory_movement)
<1>1. Planned.inventory_movement \in Nat \ {0}
  BY Sizes
<1>2. inventory_movement = [r \in 1..Planned.inventory_movement |->
    LET type == 1 + ((r - 1) % 7)  \* RECEIPT SALE RETURN TRANSFER ADJUST SHRINK COUNT
    IN Row(<<r>>, Cycle("product_variant", r - 1)
                  \cup (IF type \in {2, 4, 6} THEN Cycle("inventory_location", r - 1) ELSE {})
                  \cup (IF type \in {1, 3, 4, 5} THEN Cycle("inventory_location", r * 3 - 1) ELSE {}))]
  BY <1>1, BulkIs DEF inventory_movement
<1>3. /\ Place.product_variant < Place.inventory_movement
      /\ Place.inventory_location < Place.inventory_movement
  BY DEF Place
<1>4. ASSUME NEW r \in 1..Planned.inventory_movement
      PROVE  inventory_movement[r].refs \subseteq Known(Place.inventory_movement)
  <2>1. /\ Cycle("product_variant", r - 1) \subseteq Known(Place.inventory_movement)
        /\ Cycle("inventory_location", r - 1) \subseteq Known(Place.inventory_movement)
        /\ Cycle("inventory_location", r * 3 - 1) \subseteq Known(Place.inventory_movement)
    BY <1>3, CycleKnown DEF Numbered
  <2>2. inventory_movement[r].refs \subseteq
          Cycle("product_variant", r - 1)
          \cup Cycle("inventory_location", r - 1) \cup Cycle("inventory_location", r * 3 - 1)
    BY <1>2 DEF Row
  <2> QED
    BY <2>1, <2>2
<1>5. /\ DOMAIN inventory_movement = 1..Planned.inventory_movement
      /\ Len(inventory_movement) = Planned.inventory_movement
      /\ \A r \in 1..Planned.inventory_movement : inventory_movement[r].key = <<r>> /\ inventory_movement[r].unique = <<r>>
  BY <1>1, <1>2 DEF Row
<1> QED
  BY <1>1, <1>4, <1>5, NumberedRows

-----------------------------------------------------------------------------
(* Rows keyed by two coordinates                                           *)

(* Day and currency make the key of a rate.                                *)
LEMMA exchange_rate_rows == Sound("exchange_rate", exchange_rate)
<1>1. Planned.exchange_rate \in Nat \ {0}
  BY Sizes
<1>2. exchange_rate = [r \in 1..Planned.exchange_rate |-> Row(<<(r - 1) \div 4, (r - 1) % 4>>, {})]
  BY <1>1, BulkIs DEF exchange_rate
<1>3. /\ DOMAIN exchange_rate = 1..Planned.exchange_rate
      /\ Len(exchange_rate) = Planned.exchange_rate
      /\ \A r \in 1..Planned.exchange_rate :
           /\ exchange_rate[r].key = <<(r - 1) \div 4, (r - 1) % 4>>
           /\ exchange_rate[r].unique = <<(r - 1) \div 4, (r - 1) % 4>>
           /\ exchange_rate[r].refs = {}
  BY <1>1, <1>2 DEF Row
<1>4. ASSUME NEW i \in 1..Planned.exchange_rate, NEW j \in 1..Planned.exchange_rate,
             exchange_rate[i].key = exchange_rate[j].key \/ exchange_rate[i].unique = exchange_rate[j].unique
      PROVE  i = j
  <2>1. (i - 1) % 4 = (j - 1) % 4 /\ (i - 1) \div 4 = (j - 1) \div 4
    BY <1>3, <1>4
  <2> QED
    BY <1>1, <2>1, Coordinates
<1>5. \A r \in 1..Planned.exchange_rate : exchange_rate[r].refs \subseteq {}
  BY <1>3
<1>6. DOMAIN exchange_rate = 1..Planned.exchange_rate /\ Len(exchange_rate) = Planned.exchange_rate
  BY <1>3
<1> QED
  BY <1>1, <1>4, <1>5, <1>6, SoundRows

(* A transaction's key begins with its number.                             *)
LEMMA loyalty_transaction_rows ==
  /\ Sound("loyalty_transaction", loyalty_transaction)
  /\ \A r \in 1..Planned.loyalty_transaction : loyalty_transaction[r].key[1] = r
<1>1. Planned.loyalty_transaction \in Nat \ {0}
  BY Sizes
<1>2. loyalty_transaction = [r \in 1..Planned.loyalty_transaction |->
        Row(<<r, (r - 1) % 5>>, Cycle("loyalty_account", r - 1))]
  BY <1>1, BulkIs DEF loyalty_transaction
<1>3. Place.loyalty_account < Place.loyalty_transaction
  BY DEF Place
<1>4. /\ DOMAIN loyalty_transaction = 1..Planned.loyalty_transaction
      /\ Len(loyalty_transaction) = Planned.loyalty_transaction
      /\ \A r \in 1..Planned.loyalty_transaction :
           /\ loyalty_transaction[r].key[1] = r /\ loyalty_transaction[r].unique[1] = r
           /\ loyalty_transaction[r].refs = Cycle("loyalty_account", r - 1)
  BY <1>1, <1>2 DEF Row
<1>5. ASSUME NEW r \in 1..Planned.loyalty_transaction
      PROVE  loyalty_transaction[r].refs \subseteq Known(Place.loyalty_transaction)
  BY <1>3, <1>4, CycleKnown DEF Numbered
<1>6. \A i, j \in 1..Planned.loyalty_transaction :
        \/ loyalty_transaction[i].key = loyalty_transaction[j].key
        \/ loyalty_transaction[i].unique = loyalty_transaction[j].unique
        => i = j
  BY <1>4
<1> QED
  BY <1>1, <1>4, <1>5, <1>6, SoundRows

(* While the rows fit the grid, no pair comes twice.                       *)
LEMMA GridApart ==
  ASSUME NEW n \in Nat \ {0}, NEW m \in Nat \ {0}, NEW i \in 1..(n * m), NEW j \in 1..(n * m),
         1 + ((i - 1) % n) = 1 + ((j - 1) % n),
         1 + (((i - 1) \div n) % m) = 1 + (((j - 1) \div n) % m)
  PROVE  i = j
<1>1. ASSUME NEW k \in 1..(n * m) PROVE (k - 1) \div n \in Nat /\ ((k - 1) \div n) % m = (k - 1) \div n
  <2> DEFINE q == (k - 1) \div n
  <2>1. q \in Nat /\ q * n <= k - 1
    OBVIOUS
  <2>2. q * n < m * n
    BY <2>1
  <2> HIDE DEF q
  <2>3. q < m
    BY <2>1, <2>2
  <2> QED
    BY <2>1, <2>3 DEF q
<1>2. (i - 1) \div n = (j - 1) \div n /\ (i - 1) % n = (j - 1) % n
  BY <1>1
<1>3. i \in Nat \ {0} /\ j \in Nat \ {0}
  OBVIOUS
<1> QED
  BY <1>2, <1>3, Coordinates

(* The second table of a grid, which moves when the first has cycled.      *)
Down(first, second, r) == 1 + (((r - 1) \div Planned[first]) % Planned[second])

(* A grid of two earlier tables is sound.                                  *)
LEMMA GridRows ==
  ASSUME NEW table, NEW first \in Numbered, NEW second \in Numbered, NEW rows,
         Place[first] < Place[table], Place[second] < Place[table],
         Planned[table] \in Nat \ {0}, Planned[table] <= Planned[first] * Planned[second],
         DOMAIN rows = 1..Planned[table], Len(rows) = Planned[table],
         \A r \in 1..Planned[table] :
           /\ rows[r].key = <<HeaderOf(first, r), Down(first, second, r)>>
           /\ rows[r].unique = <<HeaderOf(first, r), Down(first, second, r)>>
           /\ rows[r].refs \subseteq To(first, HeaderOf(first, r)) \cup To(second, Down(first, second, r))
                                    \cup Known(Place[table])
  PROVE  Sound(table, rows)
<1> DEFINE a(r) == HeaderOf(first, r)
           b(r) == Down(first, second, r)
<1>1. Planned[first] \in Nat \ {0} /\ Planned[second] \in Nat \ {0}
  BY Counted
<1>2. ASSUME NEW r \in 1..Planned[table] PROVE a(r) \in 1..Planned[first] /\ b(r) \in 1..Planned[second]
  <2> SUFFICES ASSUME NEW n \in Nat \ {0}, NEW m \in Nat \ {0}
               PROVE  1 + ((r - 1) % n) \in 1..n /\ 1 + (((r - 1) \div n) % m) \in 1..m
    BY <1>1 DEF HeaderOf, Down
  <2>1. (r - 1) \div n \in Int
    OBVIOUS
  <2> QED
    BY <2>1
<1>3. ASSUME NEW i \in 1..Planned[table], NEW j \in 1..Planned[table], a(i) = a(j), b(i) = b(j)
      PROVE  i = j
  <2>1. Planned[first] * Planned[second] \in Nat
    BY <1>1
  <2>2. i \in 1..(Planned[first] * Planned[second]) /\ j \in 1..(Planned[first] * Planned[second])
    BY <2>1
  <2> QED
    BY <1>1, <1>3, <2>2, GridApart DEF HeaderOf, Down
<1>4. \A r \in 1..Planned[table] :
        /\ rows[r].key = <<a(r), b(r)>> /\ rows[r].unique = <<a(r), b(r)>>
        /\ rows[r].refs \subseteq To(first, a(r)) \cup To(second, b(r)) \cup Known(Place[table])
  OBVIOUS
<1> HIDE DEF a, b
<1>5. ASSUME NEW r \in 1..Planned[table] PROVE rows[r].refs \subseteq Known(Place[table])
  BY <1>2, <1>4, ToKnown
<1>6. ASSUME NEW i \in 1..Planned[table], NEW j \in 1..Planned[table],
             rows[i].key = rows[j].key \/ rows[i].unique = rows[j].unique
      PROVE  i = j
  <2>1. a(i) = a(j) /\ b(i) = b(j)
    BY <1>4, <1>6
  <2> QED
    BY <1>3, <2>1
<1> QED
  BY <1>5, <1>6, SoundRows

(* At every scale the rows fit their grids.                                *)
LEMMA Grids ==
  /\ Planned.supplier_product \in Nat \ {0}
  /\ Planned.supplier_product <= Planned.supplier * Planned.product_variant
  /\ Planned.price_list_item \in Nat \ {0}
  /\ Planned.price_list_item <= Planned.price_list * Planned.product_variant
  /\ Planned.promotion_product \in Nat \ {0}
  /\ Planned.promotion_product <= Planned.promotion * Planned.product_variant
  /\ Planned.inventory_stock \in Nat \ {0}
  /\ Planned.inventory_stock <= Planned.inventory_location * Planned.product_variant
<1>1. ASSUME NEW n \in Nat \ {0}, NEW m \in Nat \ {0}, NEW rows \in Nat, NEW c \in Nat,
             rows <= n * c, c <= m
      PROVE  rows <= n * m
  <2>1. n * c <= n * m
    BY <1>1
  <2> QED
    BY <1>1, <2>1
<1>2. /\ Planned.supplier_product \in Nat \ {0} /\ Planned.supplier_product <= Planned.supplier * 14
      /\ Planned.supplier \in Nat \ {0} /\ Planned.product_variant \in Nat \ {0}
      /\ 14 <= Planned.product_variant
  BY Sizes
<1>3. /\ Planned.price_list_item \in Nat \ {0}
      /\ Planned.price_list_item <= 48 * Planned.product_variant
      /\ Planned.price_list = 48
  BY Sizes
<1>4. /\ Planned.promotion_product \in Nat \ {0}
      /\ Planned.promotion_product <= 60 * Planned.product_variant
      /\ Planned.promotion = 60
  BY Sizes
<1>5. /\ Planned.inventory_stock \in Nat \ {0}
      /\ Planned.inventory_stock <= Planned.inventory_location * 4
      /\ Planned.inventory_location \in Nat \ {0} /\ 4 <= Planned.product_variant
  BY Sizes
<1>6. Planned.supplier_product <= Planned.supplier * Planned.product_variant
  BY <1>1, <1>2
<1>7. Planned.inventory_stock <= Planned.inventory_location * Planned.product_variant
  BY <1>1, <1>2, <1>5
<1> QED
  BY <1>2, <1>3, <1>4, <1>5, <1>6, <1>7

(* Suppliers and variants.                                                 *)
LEMMA supplier_product_rows == Sound("supplier_product", supplier_product)
<1> DEFINE a(r) == HeaderOf("supplier", r)
           b(r) == Down("supplier", "product_variant", r)
<1>1. /\ Planned.supplier_product \in Nat \ {0}
      /\ Planned.supplier_product <= Planned.supplier * Planned.product_variant
  BY Grids
<1>2. supplier_product = [r \in 1..Planned.supplier_product |->
        Row(<<a(r), b(r)>>, To("supplier", a(r)) \cup To("product_variant", b(r)) \cup {})]
  BY <1>1, BulkIs DEF supplier_product, Grid, HeaderOf, Down
<1>3. Place.supplier < Place.supplier_product /\ Place.product_variant < Place.supplier_product
  BY DEF Place
<1>4. /\ DOMAIN supplier_product = 1..Planned.supplier_product
      /\ Len(supplier_product) = Planned.supplier_product
      /\ \A r \in 1..Planned.supplier_product :
           /\ supplier_product[r].key = <<a(r), b(r)>>
           /\ supplier_product[r].unique = <<a(r), b(r)>>
           /\ supplier_product[r].refs = To("supplier", a(r)) \cup To("product_variant", b(r)) \cup {}
  BY <1>1, <1>2 DEF Row
<1>6. "supplier" \in Numbered /\ "product_variant" \in Numbered
  BY DEF Numbered
<1> HIDE DEF a, b
<1> QED
  BY <1>1, <1>3, <1>4, <1>6, GridRows DEF a, b

(* Price lists and variants, with a tax rate.                              *)
LEMMA price_list_item_rows == Sound("price_list_item", price_list_item)
<1> DEFINE a(r) == HeaderOf("price_list", r)
           b(r) == Down("price_list", "product_variant", r)
<1>1. /\ Planned.price_list_item \in Nat \ {0}
      /\ Planned.price_list_item <= Planned.price_list * Planned.product_variant
  BY Grids
<1>2. price_list_item = [r \in 1..Planned.price_list_item |->
        Row(<<a(r), b(r)>>, To("price_list", a(r)) \cup To("product_variant", b(r)) \cup Cycle("tax_rate", r - 1))]
  BY <1>1, BulkIs DEF price_list_item, Grid, HeaderOf, Down
<1>3. /\ Place.price_list < Place.price_list_item
      /\ Place.product_variant < Place.price_list_item /\ Place.tax_rate < Place.price_list_item
  BY DEF Place
<1>4. /\ DOMAIN price_list_item = 1..Planned.price_list_item
      /\ Len(price_list_item) = Planned.price_list_item
      /\ \A r \in 1..Planned.price_list_item :
           /\ price_list_item[r].key = <<a(r), b(r)>> /\ price_list_item[r].unique = <<a(r), b(r)>>
           /\ price_list_item[r].refs = To("price_list", a(r)) \cup To("product_variant", b(r)) \cup Cycle("tax_rate", r - 1)
  BY <1>1, <1>2 DEF Row
<1>5. \A r \in 1..Planned.price_list_item : Cycle("tax_rate", r - 1) \subseteq Known(Place.price_list_item)
  BY <1>3, CycleKnown DEF Numbered
<1>7. /\ DOMAIN price_list_item = 1..Planned.price_list_item
      /\ Len(price_list_item) = Planned.price_list_item
      /\ \A r \in 1..Planned.price_list_item :
           /\ price_list_item[r].key = <<a(r), b(r)>> /\ price_list_item[r].unique = <<a(r), b(r)>>
           /\ price_list_item[r].refs \subseteq
                To("price_list", a(r)) \cup To("product_variant", b(r)) \cup Known(Place.price_list_item)
  BY <1>4, <1>5
<1>6. "price_list" \in Numbered /\ "product_variant" \in Numbered
  BY DEF Numbered
<1> HIDE DEF a, b
<1> QED
  BY <1>1, <1>3, <1>6, <1>7, GridRows DEF a, b

(* Promotions and variants.                                                *)
LEMMA promotion_product_rows == Sound("promotion_product", promotion_product)
<1> DEFINE a(r) == HeaderOf("promotion", r)
           b(r) == Down("promotion", "product_variant", r)
<1>1. /\ Planned.promotion_product \in Nat \ {0}
      /\ Planned.promotion_product <= Planned.promotion * Planned.product_variant
  BY Grids
<1>2. promotion_product = [r \in 1..Planned.promotion_product |->
        Row(<<a(r), b(r)>>, To("promotion", a(r)) \cup To("product_variant", b(r)) \cup {})]
  BY <1>1, BulkIs DEF promotion_product, Grid, HeaderOf, Down
<1>3. Place.promotion < Place.promotion_product /\ Place.product_variant < Place.promotion_product
  BY DEF Place
<1>4. /\ DOMAIN promotion_product = 1..Planned.promotion_product
      /\ Len(promotion_product) = Planned.promotion_product
      /\ \A r \in 1..Planned.promotion_product :
           /\ promotion_product[r].key = <<a(r), b(r)>>
           /\ promotion_product[r].unique = <<a(r), b(r)>>
           /\ promotion_product[r].refs = To("promotion", a(r)) \cup To("product_variant", b(r)) \cup {}
  BY <1>1, <1>2 DEF Row
<1>6. "promotion" \in Numbered /\ "product_variant" \in Numbered
  BY DEF Numbered
<1> HIDE DEF a, b
<1> QED
  BY <1>1, <1>3, <1>4, <1>6, GridRows DEF a, b

(* Locations and variants.                                                 *)
LEMMA inventory_stock_rows == Sound("inventory_stock", inventory_stock)
<1> DEFINE a(r) == HeaderOf("inventory_location", r)
           b(r) == Down("inventory_location", "product_variant", r)
<1>1. /\ Planned.inventory_stock \in Nat \ {0}
      /\ Planned.inventory_stock <= Planned.inventory_location * Planned.product_variant
  BY Grids
<1>2. inventory_stock = [r \in 1..Planned.inventory_stock |->
        Row(<<a(r), b(r)>>, To("inventory_location", a(r)) \cup To("product_variant", b(r)) \cup {})]
  BY <1>1, BulkIs DEF inventory_stock, Grid, HeaderOf, Down
<1>3. /\ Place.inventory_location < Place.inventory_stock
      /\ Place.product_variant < Place.inventory_stock
  BY DEF Place
<1>4. /\ DOMAIN inventory_stock = 1..Planned.inventory_stock
      /\ Len(inventory_stock) = Planned.inventory_stock
      /\ \A r \in 1..Planned.inventory_stock :
           /\ inventory_stock[r].key = <<a(r), b(r)>> /\ inventory_stock[r].unique = <<a(r), b(r)>>
           /\ inventory_stock[r].refs = To("inventory_location", a(r)) \cup To("product_variant", b(r)) \cup {}
  BY <1>1, <1>2 DEF Row
<1>6. "inventory_location" \in Numbered /\ "product_variant" \in Numbered
  BY DEF Numbered
<1> HIDE DEF a, b
<1> QED
  BY <1>1, <1>3, <1>4, <1>6, GridRows DEF a, b

-----------------------------------------------------------------------------
(* Header and lines                                                        *)

(* A line's header is there.                                               *)
LEMMA HeaderIs ==
  ASSUME NEW header \in Numbered, NEW r \in Int
  PROVE  HeaderOf(header, r) \in 1..Planned[header]
<1>1. \A n \in Nat \ {0} : 1 + ((r - 1) % n) \in 1..n
  OBVIOUS
<1> QED
  BY <1>1, Counted DEF HeaderOf

(* Header and line number are a key of their own.                          *)
LEMMA LineRows ==
  ASSUME NEW table, NEW header \in Numbered, NEW rows, Planned[table] \in Nat \ {0},
         DOMAIN rows = 1..Planned[table], Len(rows) = Planned[table],
         \A r \in 1..Planned[table] :
           /\ rows[r].key = LineOf(header, r) /\ rows[r].unique = LineOf(header, r)
           /\ rows[r].refs \subseteq Known(Place[table])
  PROVE  Sound(table, rows)
<1>1. ASSUME NEW i \in 1..Planned[table], NEW j \in 1..Planned[table], LineOf(header, i) = LineOf(header, j)
      PROVE  i = j
  <2>1. /\ 1 + ((i - 1) % Planned[header]) = 1 + ((j - 1) % Planned[header])
        /\ 1 + (i - 1) \div Planned[header] = 1 + (j - 1) \div Planned[header]
    BY <1>1 DEF LineOf, HeaderOf
  <2>2. Planned[header] \in Nat \ {0} /\ i \in Nat \ {0} /\ j \in Nat \ {0}
    BY Counted
  <2> QED
    BY <2>1, <2>2, CoordinatesPlus
<1> QED
  BY <1>1, SoundRows

(* The quotient of the n-th row.                                           *)
LEMMA Quotient ==
  ASSUME NEW n \in Nat \ {0}, NEW i \in 1..n, NEW m \in Nat, NEW k \in Nat, k = m * n + i
  PROVE  (k - 1) % n = i - 1 /\ (k - 1) \div n = m
<1> DEFINE q == (k - 1) \div n  s == (k - 1) % n
<1>1. q \in Int /\ s \in 0..(n - 1) /\ k - 1 = q * n + s
  OBVIOUS
<1> HIDE DEF q, s
<1>2. ~(q < m)
  <2>1. q < m => (q + 1) * n <= m * n
    BY <1>1
  <2>2. (q + 1) * n = q * n + n /\ q * n \in Int /\ m * n \in Int
    BY <1>1
  <2> QED
    BY <1>1, <2>1, <2>2
<1>3. ~(m < q)
  <2>1. m < q => (m + 1) * n <= q * n
    BY <1>1
  <2>2. (m + 1) * n = m * n + n /\ q * n \in Int /\ m * n \in Int
    BY <1>1
  <2> QED
    BY <1>1, <2>1, <2>2
<1>4. q = m
  BY <1>1, <1>2, <1>3
<1>5. m * n \in Int
  OBVIOUS
<1> QED
  BY <1>1, <1>4, <1>5 DEF q, s

(* A key of the lines: every header has its first `lines' lines.           *)
LEMMA LinesThere ==
  ASSUME NEW header \in Numbered, NEW rows \in Nat,
         NEW lines \in Nat, rows >= lines * Planned[header],
         NEW h \in 1..Planned[header], NEW l \in 1..lines
  PROVE  \E r \in 1..rows : LineOf(header, r) = <<h, l>>
<1> DEFINE r == (l - 1) * Planned[header] + h
<1>1. Planned[header] \in Nat \ {0}
  BY Counted
<1>3. l - 1 \in Nat /\ r \in Nat
  BY <1>1
<1>4. (r - 1) % Planned[header] = h - 1 /\ (r - 1) \div Planned[header] = l - 1
  <2> DEFINE n == Planned[header]  m == l - 1
  <2>1. n \in Nat \ {0} /\ m \in Nat /\ r \in Nat /\ h \in 1..n /\ r = m * n + h
    BY <1>1, <1>3
  <2> HIDE DEF r, n, m
  <2>2. (r - 1) % n = h - 1 /\ (r - 1) \div n = m
    BY <2>1, Quotient
  <2> QED
    BY <2>2 DEF n, m
<1>5. r \in 1..rows
  <2>1. (l - 1) * Planned[header] + Planned[header] <= lines * Planned[header]
    BY <1>1
  <2>2. r >= 1 /\ r <= (l - 1) * Planned[header] + Planned[header]
    BY <1>1
  <2>3. lines * Planned[header] \in Nat /\ (l - 1) * Planned[header] \in Nat
    BY <1>1
  <2> QED
    BY <1>1, <1>3, <2>1, <2>2, <2>3
<1>6. LineOf(header, r) = <<h, l>>
  <2> HIDE DEF r
  <2> QED
    BY <1>4 DEF LineOf, HeaderOf
<1> QED
  BY <1>5, <1>6

(* The order lines; every order has its first two.                         *)
LEMMA sales_order_line_rows ==
  /\ Sound("sales_order_line", sales_order_line)
  /\ \A key \in Keys("sales_order_line") : \E r \in DOMAIN sales_order_line : sales_order_line[r].key = key
<1>1. /\ Planned.sales_order_line \in Nat \ {0}
      /\ Planned.sales_order_line >= 2 * Planned.sales_order
  BY Sizes
<1>2. sales_order_line = [r \in 1..Planned.sales_order_line |->
        Row(LineOf("sales_order", r),
            Cycle("sales_order", r - 1) \cup Cycle("product_variant", r * 13 - 1)
            \cup Cycle("tax_rate", r - 1) \cup Cycle("inventory_location", r - 1))]
  BY <1>1, BulkIs DEF sales_order_line
<1>3. /\ Place.sales_order < Place.sales_order_line
      /\ Place.product_variant < Place.sales_order_line
      /\ Place.tax_rate < Place.sales_order_line
      /\ Place.inventory_location < Place.sales_order_line
  BY DEF Place
<1>4. /\ DOMAIN sales_order_line = 1..Planned.sales_order_line
      /\ Len(sales_order_line) = Planned.sales_order_line
      /\ \A r \in 1..Planned.sales_order_line :
           /\ sales_order_line[r].key = LineOf("sales_order", r)
           /\ sales_order_line[r].unique = LineOf("sales_order", r)
  BY <1>1, <1>2 DEF Row
<1>5. ASSUME NEW r \in 1..Planned.sales_order_line
      PROVE  sales_order_line[r].refs \subseteq Known(Place.sales_order_line)
  BY <1>1, <1>2, <1>3, CycleKnown DEF Row, Numbered
<1>6. "sales_order" \in Numbered
  BY DEF Numbered
<1>7. ASSUME NEW key \in Keys("sales_order_line")
      PROVE  \E r \in DOMAIN sales_order_line : sales_order_line[r].key = key
  <2>1. PICK h \in 1..Planned.sales_order, l \in 1..2 : key = <<h, l>>
    BY <1>7 DEF Keys
  <2>2. \E r \in 1..Planned.sales_order_line : LineOf("sales_order", r) = <<h, l>>
    BY <1>1, <1>6, LinesThere
  <2> QED
    BY <1>4, <2>1, <2>2
<1>8. Sound("sales_order_line", sales_order_line)
  BY <1>1, <1>4, <1>5, <1>6, LineRows
<1> QED
  BY <1>7, <1>8

(* The lines that shipments and returns refer to.                          *)
LEMMA OrderLineKnown ==
  ASSUME NEW p, Place.sales_order_line < p, NEW h \in 1..Planned.sales_order, NEW l \in 1..2
  PROVE  {<<"sales_order_line", <<h, l>>>>} \subseteq Known(p)
<1>1. <<h, l>> \in Keys("sales_order_line") /\ "sales_order_line" \in Referred
  BY DEF Keys, Referred
<1> QED
  BY <1>1 DEF Known

(* The lines that receipts refer to.                                       *)
LEMMA PurchaseLineKnown ==
  ASSUME NEW p, Place.purchase_order_line < p, NEW h \in 1..Planned.purchase_order, NEW l \in 1..3
  PROVE  {<<"purchase_order_line", <<h, l>>>>} \subseteq Known(p)
<1>1. <<h, l>> \in Keys("purchase_order_line") /\ "purchase_order_line" \in Referred
  BY DEF Keys, Referred
<1> QED
  BY <1>1 DEF Known

(* The accounts that journal lines refer to.                               *)
LEMMA PostableKnown ==
  ASSUME NEW p, Place.gl_account < p, NEW x \in 0..99
  PROVE  To("gl_account", Leaf(x)) \subseteq Known(p)
<1>1. <<Leaf(x)>> \in Keys("gl_account") /\ "gl_account" \in Referred
  BY DEF Keys, Referred
<1> QED
  BY <1>1 DEF Known, To

(* Shipment lines.                                                         *)
LEMMA shipment_line_rows == Sound("shipment_line", shipment_line)
<1>1. Planned.shipment_line \in Nat \ {0}
  BY Sizes
<1>2. shipment_line = [r \in 1..Planned.shipment_line |->
        LET ship == HeaderOf("shipment", r)
        IN Row(LineOf("shipment", r),
               To("shipment", ship)
               \cup {<<"sales_order_line", <<HeaderOf("sales_order", ship), 1 + ((r - 1) % 2)>>>>})]
  BY <1>1, BulkIs DEF shipment_line
<1>3. Place.shipment < Place.shipment_line /\ Place.sales_order_line < Place.shipment_line
  BY DEF Place
<1>4. /\ DOMAIN shipment_line = 1..Planned.shipment_line
      /\ Len(shipment_line) = Planned.shipment_line
      /\ \A r \in 1..Planned.shipment_line :
           /\ shipment_line[r].key = LineOf("shipment", r)
           /\ shipment_line[r].unique = LineOf("shipment", r)
  BY <1>1, <1>2 DEF Row
<1>5. "shipment" \in Numbered /\ "sales_order" \in Numbered
  BY DEF Numbered
<1>6. ASSUME NEW r \in 1..Planned.shipment_line
      PROVE  shipment_line[r].refs \subseteq Known(Place.shipment_line)
  <2> DEFINE ship == HeaderOf("shipment", r)  l == 1 + ((r - 1) % 2)
  <2>1. ship \in 1..Planned.shipment /\ HeaderOf("sales_order", ship) \in 1..Planned.sales_order
    BY <1>5, HeaderIs
  <2>2. l \in 1..2
    OBVIOUS
  <2>3. shipment_line[r].refs =
          To("shipment", ship) \cup {<<"sales_order_line", <<HeaderOf("sales_order", ship), l>>>>}
    BY <1>2 DEF Row
  <2> HIDE DEF ship, l
  <2>4. To("shipment", ship) \subseteq Known(Place.shipment_line)
    BY <1>3, <1>5, <2>1, ToKnown
  <2>5. {<<"sales_order_line", <<HeaderOf("sales_order", ship), l>>>>} \subseteq Known(Place.shipment_line)
    BY <1>3, <2>1, <2>2, OrderLineKnown
  <2> QED
    BY <2>3, <2>4, <2>5
<1> QED
  BY <1>1, <1>4, <1>5, <1>6, LineRows

(* Return lines.                                                           *)
LEMMA return_line_rows == Sound("return_line", return_line)
<1>1. Planned.return_line \in Nat \ {0}
  BY Sizes
<1>2. return_line = [r \in 1..Planned.return_line |->
        LET ret == HeaderOf("return_request", r)
        IN Row(LineOf("return_request", r),
               To("return_request", ret)
               \cup {<<"sales_order_line", <<HeaderOf("sales_order", ret), 1 + ((r - 1) % 2)>>>>}
               \cup Cycle("product_variant", r * 17 - 1) \cup AnyOf("return_reason"))]
  BY <1>1, BulkIs DEF return_line
<1>3. /\ Place.return_request < Place.return_line /\ Place.sales_order_line < Place.return_line
      /\ Place.product_variant < Place.return_line /\ Place.return_reason < Place.return_line
  BY DEF Place
<1>4. /\ DOMAIN return_line = 1..Planned.return_line /\ Len(return_line) = Planned.return_line
      /\ \A r \in 1..Planned.return_line :
           /\ return_line[r].key = LineOf("return_request", r)
           /\ return_line[r].unique = LineOf("return_request", r)
  BY <1>1, <1>2 DEF Row
<1>5. /\ "return_request" \in Numbered /\ "sales_order" \in Numbered
      /\ "product_variant" \in Numbered /\ "return_reason" \in Numbered
  BY DEF Numbered
<1>6. ASSUME NEW r \in 1..Planned.return_line
      PROVE  return_line[r].refs \subseteq Known(Place.return_line)
  <2> DEFINE ret == HeaderOf("return_request", r)  l == 1 + ((r - 1) % 2)  k == r * 17 - 1
  <2>1. ret \in 1..Planned.return_request /\ HeaderOf("sales_order", ret) \in 1..Planned.sales_order
    BY <1>5, HeaderIs
  <2>2. l \in 1..2 /\ k \in Int
    OBVIOUS
  <2>3. return_line[r].refs =
          To("return_request", ret) \cup {<<"sales_order_line", <<HeaderOf("sales_order", ret), l>>>>}
          \cup Cycle("product_variant", k) \cup AnyOf("return_reason")
    BY <1>2 DEF Row
  <2> HIDE DEF ret, l, k
  <2>4. To("return_request", ret) \subseteq Known(Place.return_line)
    BY <1>3, <1>5, <2>1, ToKnown
  <2>5. {<<"sales_order_line", <<HeaderOf("sales_order", ret), l>>>>} \subseteq Known(Place.return_line)
    BY <1>3, <2>1, <2>2, OrderLineKnown
  <2>6. /\ Cycle("product_variant", k) \subseteq Known(Place.return_line)
        /\ AnyOf("return_reason") \subseteq Known(Place.return_line)
    BY <1>3, <1>5, <2>2, CycleKnown, AnyKnown
  <2> QED
    BY <2>3, <2>4, <2>5, <2>6
<1> QED
  BY <1>1, <1>4, <1>5, <1>6, LineRows

(* The purchase lines; every purchase order has its first three.           *)
LEMMA purchase_order_line_rows ==
  /\ Sound("purchase_order_line", purchase_order_line)
  /\ \A key \in Keys("purchase_order_line") :
       \E r \in DOMAIN purchase_order_line : purchase_order_line[r].key = key
<1>1. /\ Planned.purchase_order_line \in Nat \ {0}
      /\ Planned.purchase_order_line >= 3 * Planned.purchase_order
  BY Sizes
<1>2. purchase_order_line = [r \in 1..Planned.purchase_order_line |->
        Row(LineOf("purchase_order", r),
            Cycle("purchase_order", r - 1) \cup Cycle("product_variant", r * 11 - 1))]
  BY <1>1, BulkIs DEF purchase_order_line
<1>3. /\ Place.purchase_order < Place.purchase_order_line
      /\ Place.product_variant < Place.purchase_order_line
  BY DEF Place
<1>4. /\ DOMAIN purchase_order_line = 1..Planned.purchase_order_line
      /\ Len(purchase_order_line) = Planned.purchase_order_line
      /\ \A r \in 1..Planned.purchase_order_line :
           /\ purchase_order_line[r].key = LineOf("purchase_order", r)
           /\ purchase_order_line[r].unique = LineOf("purchase_order", r)
  BY <1>1, <1>2 DEF Row
<1>5. ASSUME NEW r \in 1..Planned.purchase_order_line
      PROVE  purchase_order_line[r].refs \subseteq Known(Place.purchase_order_line)
  BY <1>1, <1>2, <1>3, CycleKnown DEF Row, Numbered
<1>6. "purchase_order" \in Numbered
  BY DEF Numbered
<1>7. ASSUME NEW key \in Keys("purchase_order_line")
      PROVE  \E r \in DOMAIN purchase_order_line : purchase_order_line[r].key = key
  <2>1. PICK h \in 1..Planned.purchase_order, l \in 1..3 : key = <<h, l>>
    BY <1>7 DEF Keys
  <2>2. \E r \in 1..Planned.purchase_order_line : LineOf("purchase_order", r) = <<h, l>>
    BY <1>1, <1>6, LinesThere
  <2> QED
    BY <1>4, <2>1, <2>2
<1>8. Sound("purchase_order_line", purchase_order_line)
  BY <1>1, <1>4, <1>5, <1>6, LineRows
<1> QED
  BY <1>7, <1>8

(* Receipts.                                                               *)
LEMMA goods_receipt_rows == Sound("goods_receipt", goods_receipt)
<1>1. Planned.goods_receipt \in Nat \ {0}
  BY Sizes
<1>2. goods_receipt = [r \in 1..Planned.goods_receipt |->
        LET po == HeaderOf("purchase_order", r)
        IN Row(<<r>>, {<<"purchase_order_line", <<po, 1 + ((r - 1) % 3)>>>>}
                      \cup Cycle("warehouse", po - 1) \cup Cycle("employee", r - 1))]
  BY <1>1, BulkIs DEF goods_receipt
<1>3. /\ Place.purchase_order_line < Place.goods_receipt /\ Place.warehouse < Place.goods_receipt
      /\ Place.employee < Place.goods_receipt
  BY DEF Place
<1>4. /\ DOMAIN goods_receipt = 1..Planned.goods_receipt
      /\ Len(goods_receipt) = Planned.goods_receipt
      /\ \A r \in 1..Planned.goods_receipt : goods_receipt[r].key = <<r>> /\ goods_receipt[r].unique = <<r>>
  BY <1>1, <1>2 DEF Row
<1>5. "purchase_order" \in Numbered /\ "warehouse" \in Numbered /\ "employee" \in Numbered
  BY DEF Numbered
<1>6. ASSUME NEW r \in 1..Planned.goods_receipt
      PROVE  goods_receipt[r].refs \subseteq Known(Place.goods_receipt)
  <2> DEFINE po == HeaderOf("purchase_order", r)  l == 1 + ((r - 1) % 3)
  <2>1. po \in 1..Planned.purchase_order /\ po \in Int
    BY <1>5, HeaderIs
  <2>2. l \in 1..3
    OBVIOUS
  <2>3. goods_receipt[r].refs =
          {<<"purchase_order_line", <<po, l>>>>} \cup Cycle("warehouse", po - 1) \cup Cycle("employee", r - 1)
    BY <1>2 DEF Row
  <2> HIDE DEF po, l
  <2>4. {<<"purchase_order_line", <<po, l>>>>} \subseteq Known(Place.goods_receipt)
    BY <1>3, <2>1, <2>2, PurchaseLineKnown
  <2>5. /\ Cycle("warehouse", po - 1) \subseteq Known(Place.goods_receipt)
        /\ Cycle("employee", r - 1) \subseteq Known(Place.goods_receipt)
    BY <1>3, <1>5, <2>1, CycleKnown
  <2> QED
    BY <2>3, <2>4, <2>5
<1> QED
  BY <1>1, <1>4, <1>6, NumberedRows

(* Journal lines.                                                          *)
LEMMA gl_journal_line_rows == Sound("gl_journal_line", gl_journal_line)
<1>1. Planned.gl_journal_line \in Nat \ {0}
  BY Sizes
<1>2. gl_journal_line = [r \in 1..Planned.gl_journal_line |->
        Row(LineOf("gl_journal", r),
            Cycle("gl_journal", r - 1) \cup Cycle("store", r - 1) \cup To("gl_account", Leaf((r * 7) % 100)))]
  BY <1>1, BulkIs DEF gl_journal_line
<1>3. /\ Place.gl_journal < Place.gl_journal_line /\ Place.store < Place.gl_journal_line
      /\ Place.gl_account < Place.gl_journal_line
  BY DEF Place
<1>4. /\ DOMAIN gl_journal_line = 1..Planned.gl_journal_line
      /\ Len(gl_journal_line) = Planned.gl_journal_line
      /\ \A r \in 1..Planned.gl_journal_line :
           /\ gl_journal_line[r].key = LineOf("gl_journal", r)
           /\ gl_journal_line[r].unique = LineOf("gl_journal", r)
  BY <1>1, <1>2 DEF Row
<1>5. "gl_journal" \in Numbered /\ "store" \in Numbered
  BY DEF Numbered
<1>6. ASSUME NEW r \in 1..Planned.gl_journal_line
      PROVE  gl_journal_line[r].refs \subseteq Known(Place.gl_journal_line)
  <2> DEFINE x == (r * 7) % 100
  <2>1. x \in 0..99
    OBVIOUS
  <2>2. gl_journal_line[r].refs =
          Cycle("gl_journal", r - 1) \cup Cycle("store", r - 1) \cup To("gl_account", Leaf(x))
    BY <1>2 DEF Row
  <2> HIDE DEF x
  <2>3. To("gl_account", Leaf(x)) \subseteq Known(Place.gl_journal_line)
    BY <1>3, <2>1, PostableKnown
  <2>4. /\ Cycle("gl_journal", r - 1) \subseteq Known(Place.gl_journal_line)
        /\ Cycle("store", r - 1) \subseteq Known(Place.gl_journal_line)
    BY <1>3, <1>5, CycleKnown
  <2> QED
    BY <2>2, <2>3, <2>4
<1> QED
  BY <1>1, <1>4, <1>5, <1>6, LineRows

-----------------------------------------------------------------------------
(* The chart of accounts                                                   *)

(* Two sequences in a row, by place.                                       *)
LEMMA Chained ==
  ASSUME NEW R, NEW s \in Seq(R), NEW t \in Seq(R), NEW u, u = s \o t
  PROVE  /\ u \in Seq(R) /\ Len(u) = Len(s) + Len(t)
         /\ \A i \in 1..Len(s) : u[i] = s[i]
         /\ \A i \in 1..Len(t) : u[Len(s) + i] = t[i]
OBVIOUS

(* A function on the first numbers is a sequence.                          *)
LEMMA IsSequence ==
  ASSUME NEW R, NEW n \in Nat, NEW f \in [1..n -> R]
  PROVE  f \in Seq(R)
OBVIOUS

(* The accounts, by place.                                                 *)
LEMMA Accounts ==
  /\ DOMAIN gl_account = 1..180 /\ Len(gl_account) = 180
  /\ \A j \in 1..5 : gl_account[j] = Roots[j]
  /\ \A j \in 1..25 : gl_account[5 + j] = Groups[j]
  /\ \A j \in 1..50 : gl_account[30 + j] = Classes[j]
  /\ \A j \in 1..100 : gl_account[80 + j] = Postable[j]
<1> DEFINE R == {Roots[i] : i \in 1..5} \cup {Groups[i] : i \in 1..25}
                \cup {Classes[i] : i \in 1..50} \cup {Postable[i] : i \in 1..100}
           s == Roots \o Groups  t == s \o Classes
<1>1. Roots \in Seq(R) /\ Groups \in Seq(R) /\ Classes \in Seq(R) /\ Postable \in Seq(R)
  <2>1. Roots \in Seq(R)
    BY DEF Roots
  <2>2. Groups \in Seq(R)
    BY DEF Groups
  <2>3. Classes \in Seq(R)
    BY DEF Classes
  <2>4. Postable \in Seq(R)
    <3>1. DOMAIN Postable = 1..100 /\ Postable = [i \in 1..100 |-> Postable[i]]
      BY DEF Postable
    <3>2. \A i \in 1..100 : Postable[i] \in R
      OBVIOUS
    <3> HIDE DEF R
    <3>3. Postable \in [1..100 -> R]
      BY <3>1, <3>2
    <3> QED
      BY <3>3, IsSequence
  <2> QED
    BY <2>1, <2>2, <2>3, <2>4
<1>2. Len(Roots) = 5 /\ Len(Groups) = 25 /\ Len(Classes) = 50 /\ Len(Postable) = 100
  <2>1. Len(Roots) = 5
    BY DEF Roots
  <2>2. Len(Groups) = 25
    BY DEF Groups
  <2>3. Len(Classes) = 50
    BY DEF Classes
  <2>4. Len(Postable) = 100
    BY DEF Postable
  <2> QED
    BY <2>1, <2>2, <2>3, <2>4
<1>3. s = Roots \o Groups /\ t = s \o Classes /\ gl_account = t \o Postable
  BY DEF gl_account
<1> HIDE DEF R, s, t
<1>4. /\ s \in Seq(R) /\ Len(s) = Len(Roots) + Len(Groups)
      /\ \A i \in 1..Len(Roots) : s[i] = Roots[i]
      /\ \A i \in 1..Len(Groups) : s[Len(Roots) + i] = Groups[i]
  BY <1>1, <1>3, Chained
<1>5. /\ t \in Seq(R) /\ Len(t) = Len(s) + Len(Classes)
      /\ \A i \in 1..Len(s) : t[i] = s[i]
      /\ \A i \in 1..Len(Classes) : t[Len(s) + i] = Classes[i]
  BY <1>1, <1>3, <1>4, Chained
<1>6. /\ gl_account \in Seq(R) /\ Len(gl_account) = Len(t) + Len(Postable)
      /\ \A i \in 1..Len(t) : gl_account[i] = t[i]
      /\ \A i \in 1..Len(Postable) : gl_account[Len(t) + i] = Postable[i]
  BY <1>1, <1>3, <1>5, Chained
<1>7. Len(s) = 30 /\ Len(t) = 80 /\ Len(gl_account) = 180
  BY <1>2, <1>4, <1>5, <1>6
<1>8. ASSUME NEW j \in 1..5 PROVE gl_account[j] = Roots[j]
  <2>1. j \in 1..Len(Roots) /\ j \in 1..Len(s) /\ j \in 1..Len(t)
    BY <1>2, <1>7
  <2> QED
    BY <1>4, <1>5, <1>6, <2>1
<1>9. ASSUME NEW j \in 1..25 PROVE gl_account[5 + j] = Groups[j]
  <2>1. j \in 1..Len(Groups) /\ 5 + j \in 1..Len(s) /\ 5 + j \in 1..Len(t) /\ Len(Roots) + j = 5 + j
    BY <1>2, <1>7
  <2> QED
    BY <1>4, <1>5, <1>6, <2>1
<1>10. ASSUME NEW j \in 1..50 PROVE gl_account[30 + j] = Classes[j]
  <2>1. j \in 1..Len(Classes) /\ 30 + j \in 1..Len(t) /\ Len(s) + j = 30 + j
    BY <1>2, <1>7
  <2> QED
    BY <1>5, <1>6, <2>1
<1>11. ASSUME NEW j \in 1..100 PROVE gl_account[80 + j] = Postable[j]
  <2>1. j \in 1..Len(Postable) /\ Len(t) + j = 80 + j
    BY <1>2, <1>7
  <2> QED
    BY <1>6, <2>1
<1>12. DOMAIN gl_account = 1..180
  <2>1. DOMAIN gl_account = 1..Len(gl_account)
    BY <1>6
  <2> QED
    BY <1>7, <2>1
<1> QED
  BY <1>7, <1>8, <1>9, <1>10, <1>11, <1>12

(* The place of an account among the rows, by its digits.                  *)
At(a, b, c, d) ==
  IF b = 0 THEN a
  ELSE IF c = 0 THEN 5 + (b - 1) * 5 + a
  ELSE IF d = 0 THEN 30 + (c - 1) * 25 + (b - 1) * 5 + a
  ELSE 80 + (d - 1) * 50 + (c - 1) * 25 + (b - 1) * 5 + a

(* Account i has the digits a, b, c, d.                                    *)
Account(i, a, b, c, d) ==
  /\ i = At(a, b, c, d)
  /\ gl_account[i].key = <<CodeOf(a, b, c, d)>>
  /\ gl_account[i].unique = <<CodeOf(a, b, c, d)>>

(* The roots.                                                              *)
LEMMA RootIs ==
  ASSUME NEW a \in 1..5
  PROVE  Account(a, a, 0, 0, 0) /\ gl_account[a].refs = {}
<1>1. gl_account[a] = Row(<<CodeOf(a, 0, 0, 0)>>, {})
  BY Accounts DEF Roots
<1>2. a = At(a, 0, 0, 0)
  BY DEF At
<1> QED
  BY <1>1, <1>2 DEF Account, Row

(* The groups.                                                             *)
LEMMA GroupIs ==
  ASSUME NEW j \in 1..25
  PROVE  \E a \in 1..5, b \in 1..5 :
           /\ Account(5 + j, a, b, 0, 0)
           /\ gl_account[5 + j].refs = To("gl_account", CodeOf(a, 0, 0, 0))
<1> DEFINE a == 1 + ((j - 1) % 5)  b == 1 + (j - 1) \div 5
<1>1. a \in 1..5 /\ b \in 1..5 /\ 5 + j = 5 + (b - 1) * 5 + a
  OBVIOUS
<1>2. gl_account[5 + j] = Row(<<CodeOf(a, b, 0, 0)>>, To("gl_account", CodeOf(a, 0, 0, 0)))
  BY Accounts DEF Groups
<1> HIDE DEF a, b
<1>3. 5 + j = At(a, b, 0, 0)
  BY <1>1 DEF At
<1> QED
  BY <1>1, <1>2, <1>3 DEF Account, Row

(* A group's place.                                                        *)
LEMMA GroupAt ==
  ASSUME NEW a \in 1..5, NEW b \in 1..5
  PROVE  gl_account[At(a, b, 0, 0)].key = <<CodeOf(a, b, 0, 0)>>
<1> DEFINE j == (b - 1) * 5 + a
<1>1. j \in 1..25 /\ 1 + ((j - 1) % 5) = a /\ 1 + (j - 1) \div 5 = b
  OBVIOUS
<1>2. At(a, b, 0, 0) = 5 + j
  BY DEF At
<1>3. gl_account[5 + j] = Groups[j]
  BY <1>1, Accounts
<1> HIDE DEF j
<1>4. Groups[j] = Row(<<CodeOf(a, b, 0, 0)>>, To("gl_account", CodeOf(a, 0, 0, 0)))
  BY <1>1 DEF Groups
<1> QED
  BY <1>2, <1>3, <1>4 DEF Row

(* The classes.                                                            *)
LEMMA ClassIs ==
  ASSUME NEW j \in 1..50
  PROVE  \E a \in 1..5, b \in 1..5, c \in 1..2 :
           /\ Account(30 + j, a, b, c, 0)
           /\ gl_account[30 + j].refs = To("gl_account", CodeOf(a, b, 0, 0))
<1> DEFINE a == 1 + ((j - 1) % 5)  b == 1 + ((j - 1) % 25) \div 5  c == 1 + (j - 1) \div 25
<1>1. a \in 1..5 /\ b \in 1..5 /\ c \in 1..2 /\ 30 + j = 30 + (c - 1) * 25 + (b - 1) * 5 + a
  OBVIOUS
<1>2. gl_account[30 + j] = Row(<<CodeOf(a, b, c, 0)>>, To("gl_account", CodeOf(a, b, 0, 0)))
  BY Accounts DEF Classes
<1> HIDE DEF a, b, c
<1>3. 30 + j = At(a, b, c, 0)
  BY <1>1 DEF At
<1> QED
  BY <1>1, <1>2, <1>3 DEF Account, Row

(* A class's place.                                                        *)
LEMMA ClassAt ==
  ASSUME NEW a \in 1..5, NEW b \in 1..5, NEW c \in 1..2
  PROVE  gl_account[At(a, b, c, 0)].key = <<CodeOf(a, b, c, 0)>>
<1> DEFINE j == (c - 1) * 25 + (b - 1) * 5 + a
<1>1. /\ j \in 1..50 /\ 1 + ((j - 1) % 5) = a /\ 1 + ((j - 1) % 25) \div 5 = b
      /\ 1 + (j - 1) \div 25 = c
  OBVIOUS
<1>2. At(a, b, c, 0) = 30 + j
  BY DEF At
<1>3. gl_account[30 + j] = Classes[j]
  BY <1>1, Accounts
<1> HIDE DEF j
<1>4. Classes[j] = Row(<<CodeOf(a, b, c, 0)>>, To("gl_account", CodeOf(a, b, 0, 0)))
  BY <1>1 DEF Classes
<1> QED
  BY <1>2, <1>3, <1>4 DEF Row

(* The postable accounts.                                                  *)
LEMMA PostableIs ==
  ASSUME NEW j \in 1..100
  PROVE  \E a \in 1..5, b \in 1..5, c \in 1..2, d \in 1..2 :
           /\ Account(80 + j, a, b, c, d)
           /\ gl_account[80 + j].refs = To("gl_account", CodeOf(a, b, c, 0))
<1> DEFINE x == j - 1
           a == 1 + (x % 5)  b == 1 + ((x \div 5) % 5)  c == 1 + ((x \div 25) % 2)  d == 1 + ((x \div 50) % 2)
<1>1. a \in 1..5 /\ b \in 1..5 /\ c \in 1..2 /\ d \in 1..2
      /\ 80 + j = 80 + (d - 1) * 50 + (c - 1) * 25 + (b - 1) * 5 + a
  OBVIOUS
<1>2. gl_account[80 + j] = Row(<<Leaf(x)>>, To("gl_account", Leaf(x) - (Leaf(x) % 100)))
  BY Accounts DEF Postable
<1>3. Leaf(x) = CodeOf(a, b, c, d)
  BY DEF Leaf
<1> HIDE DEF a, b, c, d
<1>4. CodeOf(a, b, c, d) - (CodeOf(a, b, c, d) % 100) = CodeOf(a, b, c, 0)
  BY <1>1 DEF CodeOf
<1>5. 80 + j = At(a, b, c, d)
  BY <1>1 DEF At
<1> QED
  BY <1>1, <1>2, <1>3, <1>4, <1>5 DEF Account, Row

(* Every account has digits, and its place is the place of its digits: so  *)
(* no code comes twice. Its parent is above it.                            *)
LEMMA AccountIs ==
  ASSUME NEW i \in 1..180
  PROVE  /\ \E a \in 1..5, b \in 0..5, c \in 0..2, d \in 0..2 : Account(i, a, b, c, d)
         /\ \/ gl_account[i].refs = {}
            \/ \E k \in 1..i : \E code : gl_account[k].key = <<code>> /\ gl_account[i].refs = To("gl_account", code)
<1>1. CASE i \in 1..5
  <2>1. i \in 1..5 /\ 0 \in 0..5 /\ 0 \in 0..2
    BY <1>1
  <2> QED
    BY <2>1, RootIs
<1>2. CASE i \in 6..30
  <2> DEFINE j == i - 5
  <2>1. j \in 1..25 /\ 5 + j = i
    BY <1>2
  <2> HIDE DEF j
  <2>2. PICK a \in 1..5, b \in 1..5 :
             /\ Account(5 + j, a, b, 0, 0)
             /\ gl_account[5 + j].refs = To("gl_account", CodeOf(a, 0, 0, 0))
    BY <2>1, GroupIs
  <2>3. a \in 1..i /\ gl_account[a].key = <<CodeOf(a, 0, 0, 0)>>
    BY <1>2, RootIs DEF Account
  <2>4. b \in 0..5 /\ 0 \in 0..2
    OBVIOUS
  <2> QED
    BY <2>1, <2>2, <2>3, <2>4
<1>3. CASE i \in 31..80
  <2> DEFINE j == i - 30
  <2>1. j \in 1..50 /\ 30 + j = i
    BY <1>3
  <2> HIDE DEF j
  <2>2. PICK a \in 1..5, b \in 1..5, c \in 1..2 :
             /\ Account(30 + j, a, b, c, 0)
             /\ gl_account[30 + j].refs = To("gl_account", CodeOf(a, b, 0, 0))
    BY <2>1, ClassIs
  <2>3. At(a, b, 0, 0) \in 1..i /\ gl_account[At(a, b, 0, 0)].key = <<CodeOf(a, b, 0, 0)>>
    BY <1>3, GroupAt DEF At
  <2>4. b \in 0..5 /\ c \in 0..2 /\ 0 \in 0..2
    OBVIOUS
  <2> QED
    BY <2>1, <2>2, <2>3, <2>4
<1>4. CASE i \in 81..180
  <2> DEFINE j == i - 80
  <2>1. j \in 1..100 /\ 80 + j = i
    BY <1>4
  <2> HIDE DEF j
  <2>2. PICK a \in 1..5, b \in 1..5, c \in 1..2, d \in 1..2 :
             /\ Account(80 + j, a, b, c, d)
             /\ gl_account[80 + j].refs = To("gl_account", CodeOf(a, b, c, 0))
    BY <2>1, PostableIs
  <2>3. At(a, b, c, 0) \in 1..i /\ gl_account[At(a, b, c, 0)].key = <<CodeOf(a, b, c, 0)>>
    BY <1>4, ClassAt DEF At
  <2>4. b \in 0..5 /\ c \in 0..2 /\ d \in 0..2
    OBVIOUS
  <2> QED
    BY <2>1, <2>2, <2>3, <2>4
<1> QED
  BY <1>1, <1>2, <1>3, <1>4

(* The chart of accounts; every code journal lines compute is there.       *)
LEMMA gl_account_rows ==
  /\ Sound("gl_account", gl_account)
  /\ \A key \in Keys("gl_account") : \E r \in DOMAIN gl_account : gl_account[r].key = key
<1>1. Planned.gl_account = 180
  BY Sizes
<1>2. ASSUME NEW i \in 1..180, NEW j \in 1..180,
             gl_account[i].key = gl_account[j].key \/ gl_account[i].unique = gl_account[j].unique
      PROVE  i = j
  <2>1. PICK a \in 1..5, b \in 0..5, c \in 0..2, d \in 0..2 : Account(i, a, b, c, d)
    BY AccountIs
  <2>2. PICK a2 \in 1..5, b2 \in 0..5, c2 \in 0..2, d2 \in 0..2 : Account(j, a2, b2, c2, d2)
    BY AccountIs
  <2>3. CodeOf(a, b, c, d) = CodeOf(a2, b2, c2, d2)
    <3>1. /\ gl_account[i].key[1] = CodeOf(a, b, c, d)
          /\ gl_account[i].unique[1] = CodeOf(a, b, c, d)
          /\ gl_account[j].key[1] = CodeOf(a2, b2, c2, d2)
          /\ gl_account[j].unique[1] = CodeOf(a2, b2, c2, d2)
      BY <2>1, <2>2 DEF Account
    <3> QED
      BY <1>2, <3>1
  <2>4. a = a2 /\ b = b2 /\ c = c2 /\ d = d2
    BY <2>3 DEF CodeOf
  <2> QED
    BY <2>1, <2>2, <2>4 DEF Account
<1>3. ASSUME NEW r \in 1..180 PROVE gl_account[r].refs \subseteq Own("gl_account", gl_account, r)
  <2>1. CASE gl_account[r].refs = {}
    BY <2>1
  <2>2. CASE \E k \in 1..r : \E code : gl_account[k].key = <<code>> /\ gl_account[r].refs = To("gl_account", code)
    BY <2>2 DEF To, Own
  <2> QED
    BY <2>1, <2>2, AccountIs
<1>4. ASSUME NEW key \in Keys("gl_account") PROVE \E r \in 1..180 : gl_account[r].key = key
  <2>1. PICK x \in 0..99 : key = <<Leaf(x)>>
    BY <1>4 DEF Keys
  <2>2. x + 1 \in 1..100 /\ (x + 1) - 1 = x /\ 80 + (x + 1) \in 1..180
    OBVIOUS
  <2>3. gl_account[80 + (x + 1)] = Postable[x + 1]
    BY <2>2, Accounts
  <2>4. Postable[x + 1].key = <<Leaf(x)>>
    BY <2>2 DEF Postable, Row
  <2> QED
    BY <2>1, <2>2, <2>3, <2>4
<1>5. Planned.gl_account \in Nat \ {0} /\ 1..Planned.gl_account = 1..180
  BY <1>1
<1>6. Sound("gl_account", gl_account)
  <2>1. DOMAIN gl_account = 1..Planned.gl_account /\ Len(gl_account) = Planned.gl_account
    BY <1>1, Accounts
  <2>2. \A i, j \in 1..Planned.gl_account :
          gl_account[i].key = gl_account[j].key \/ gl_account[i].unique = gl_account[j].unique => i = j
    BY <1>2, <1>5
  <2>3. \A r \in 1..Planned.gl_account :
          gl_account[r].refs \subseteq Known(Place.gl_account) \cup Own("gl_account", gl_account, r)
    BY <1>3, <1>5
  <2> QED
    BY <2>1, <2>2, <2>3 DEF Sound
<1>7. DOMAIN gl_account = 1..180
  BY Accounts
<1>8. \A key \in Keys("gl_account") : \E r \in DOMAIN gl_account : gl_account[r].key = key
  BY <1>4, <1>7
<1> QED
  BY <1>6, <1>8

(* An address type is used once a customer for the first three cycles.     *)
LEMMA customer_address_rows == Sound("customer_address", customer_address)
<1> DEFINE seq(r) == (r - 1) \div Planned.customer
           cust(r) == 1 + ((r - 1) % Planned.customer)
           addr(r) == 1 + ((cust(r) * 3 + seq(r) * 11) % Planned.address)
           type(r) == IF seq(r) < 3 THEN seq(r) ELSE 3
<1>1. /\ Planned.customer_address \in Nat \ {0} /\ Planned.customer_address <= 3 * Planned.customer
      /\ Planned.customer \in Nat \ {0} /\ Planned.address \in Nat \ {0}
  BY Sizes
<1>2. customer_address = [r \in 1..Planned.customer_address |->
        Row(<<cust(r), addr(r), type(r)>>, To("customer", cust(r)) \cup To("address", addr(r)))]
  BY <1>1, BulkIs DEF customer_address
<1>3. Place.customer < Place.customer_address /\ Place.address < Place.customer_address
  BY DEF Place
<1>4. "customer" \in Numbered /\ "address" \in Numbered
  BY DEF Numbered
<1>5. ASSUME NEW r \in 1..Planned.customer_address
      PROVE  /\ seq(r) \in 0..2 /\ type(r) = seq(r)
             /\ cust(r) \in 1..Planned.customer /\ addr(r) \in 1..Planned.address
  <2>1. ASSUME NEW n \in Nat \ {0}, NEW m \in Nat, m <= 3 * n, NEW i \in 1..m
        PROVE  (i - 1) \div n \in 0..2 /\ 1 + ((i - 1) % n) \in 1..n
    BY <2>1
  <2>2. seq(r) \in 0..2 /\ cust(r) \in 1..Planned.customer
    BY <1>1, <2>1
  <2>3. ASSUME NEW n \in Nat \ {0}, NEW k \in Int PROVE 1 + (k % n) \in 1..n
    OBVIOUS
  <2>4. cust(r) * 3 + seq(r) * 11 \in Int
    BY <1>1, <2>2
  <2>5. addr(r) \in 1..Planned.address
    BY <1>1, <2>3, <2>4
  <2> QED
    BY <2>2, <2>5
<1>6. ASSUME NEW i \in 1..Planned.customer_address, NEW j \in 1..Planned.customer_address,
             cust(i) = cust(j), seq(i) = seq(j)
      PROVE  i = j
  <2>1. i \in Nat \ {0} /\ j \in Nat \ {0}
    BY <1>1
  <2>2. 1 + (i - 1) \div Planned.customer = 1 + (j - 1) \div Planned.customer
    BY <1>6
  <2> QED
    BY <1>1, <1>6, <2>1, <2>2, CoordinatesPlus
<1> HIDE DEF seq, cust, addr, type
<1>7. /\ DOMAIN customer_address = 1..Planned.customer_address
      /\ Len(customer_address) = Planned.customer_address
      /\ \A r \in 1..Planned.customer_address :
           /\ customer_address[r].key = <<cust(r), addr(r), type(r)>>
           /\ customer_address[r].unique = <<cust(r), addr(r), type(r)>>
           /\ customer_address[r].refs = To("customer", cust(r)) \cup To("address", addr(r))
  BY <1>1, <1>2 DEF Row
<1>8. ASSUME NEW r \in 1..Planned.customer_address
      PROVE  customer_address[r].refs \subseteq Known(Place.customer_address)
  <2>1. /\ To("customer", cust(r)) \subseteq Known(Place.customer_address)
        /\ To("address", addr(r)) \subseteq Known(Place.customer_address)
    BY <1>3, <1>4, <1>5, ToKnown
  <2> QED
    BY <1>7, <2>1
<1>9. ASSUME NEW i \in 1..Planned.customer_address, NEW j \in 1..Planned.customer_address,
             \/ customer_address[i].key = customer_address[j].key
             \/ customer_address[i].unique = customer_address[j].unique
      PROVE  i = j
  <2>1. cust(i) = cust(j) /\ type(i) = type(j)
    BY <1>7, <1>9
  <2> QED
    BY <1>5, <1>6, <2>1
<1> QED
  BY <1>1, <1>7, <1>8, <1>9, SoundRows

-----------------------------------------------------------------------------
(* Every INSERT before the mess                                            *)

(* The tables that are spelled out.                                        *)
LEMMA listed_rows ==
  /\ Sound("currency", currency) /\ Numbers("currency", currency)
  /\ Sound("country", country) /\ Numbers("country", country)
  /\ Sound("loyalty_tier", loyalty_tier) /\ Numbers("loyalty_tier", loyalty_tier)
  /\ Sound("carrier", carrier) /\ Numbers("carrier", carrier)
  /\ Sound("return_reason", return_reason) /\ Numbers("return_reason", return_reason)
  /\ Sound("app_parameter", app_parameter) /\ Numbers("app_parameter", app_parameter)
<1>1. /\ Planned.currency \in Nat \ {0} /\ Planned.country \in Nat \ {0}
      /\ Planned.loyalty_tier \in Nat \ {0} /\ Planned.carrier \in Nat \ {0}
      /\ Planned.return_reason \in Nat \ {0} /\ Planned.app_parameter \in Nat \ {0}
  BY Sizes
<1> QED
  BY <1>1, ListedRows DEF currency, country, loyalty_tier, carrier, return_reason, app_parameter

(* The load, statement by statement.                                       *)
LEMMA Statements ==
  /\ Load[1] = Insert("currency", currency)
  /\ Load[2] = Insert("country", country)
  /\ Load[3] = Insert("exchange_rate", exchange_rate)
  /\ Load[4] = Insert("calendar_day", calendar_day)
  /\ Load[5] = Insert("tax_rate", tax_rate)
  /\ Load[6] = Insert("loyalty_tier", loyalty_tier)
  /\ Load[7] = Insert("carrier", carrier)
  /\ Load[8] = Insert("return_reason", return_reason)
  /\ Load[9] = Insert("app_parameter", app_parameter)
  /\ Load[10] = Insert("gl_account", gl_account)
  /\ Load[11] = Insert("gl_period", gl_period)
  /\ Load[12] = Insert("region", region)
  /\ Load[13] = Insert("address", address)
  /\ Load[14] = Insert("warehouse", warehouse)
  /\ Load[15] = Insert("store", store)
  /\ Load[16] = Insert("employee", employee)
  /\ Load[17] = Update("region", region_manager)
  /\ Load[18] = Update("store", store_manager)
  /\ Load[19] = Insert("product_category", product_category)
  /\ Load[20] = Insert("brand", brand)
  /\ Load[21] = Insert("product", product)
  /\ Load[22] = Insert("product_variant", product_variant)
  /\ Load[23] = Insert("supplier", supplier)
  /\ Load[24] = Update("brand", brand_owner)
  /\ Load[25] = Insert("supplier_product", supplier_product)
  /\ Load[26] = Insert("customer", customer)
  /\ Load[27] = Insert("customer_address", customer_address)
  /\ Load[28] = Insert("loyalty_account", loyalty_account)
  /\ Load[29] = Insert("loyalty_transaction", loyalty_transaction)
  /\ Load[30] = Insert("price_list", price_list)
  /\ Load[31] = Insert("promotion", promotion)
  /\ Load[32] = Insert("price_list_item", price_list_item)
  /\ Load[33] = Insert("promotion_product", promotion_product)
  /\ Load[34] = Insert("coupon", coupon)
  /\ Load[35] = Insert("inventory_location", inventory_location)
  /\ Load[36] = Insert("inventory_stock", inventory_stock)
  /\ Load[37] = Insert("inventory_movement", inventory_movement)
  /\ Load[38] = Insert("sales_order", sales_order)
  /\ Load[39] = Insert("sales_order_line", sales_order_line)
  /\ Load[40] = Insert("order_payment", order_payment)
  /\ Load[41] = Insert("shipment", shipment)
  /\ Load[42] = Insert("shipment_line", shipment_line)
  /\ Load[43] = Insert("purchase_order", purchase_order)
  /\ Load[44] = Insert("purchase_order_line", purchase_order_line)
  /\ Load[45] = Insert("goods_receipt", goods_receipt)
  /\ Load[46] = Insert("return_request", return_request)
  /\ Load[47] = Insert("return_line", return_line)
  /\ Load[48] = Insert("gl_journal", gl_journal)
  /\ Load[49] = Insert("gl_journal_line", gl_journal_line)
  /\ Load[50] = Insert("address", mess_address)
  /\ Load[51] = Insert("customer", mess_customer)
  /\ Load[52] = Insert("sales_order", mess_order)
  /\ Load[53] = Insert("inventory_movement", mess_movement)
  /\ Load[54] = Insert("loyalty_transaction", mess_loyalty)
  /\ Load[55] = Insert("address", mess_padded)
  /\ Load[56] = Insert("gl_journal", mess_journal)
<1>1. /\ Load[1] = Insert("currency", currency)
      /\ Load[2] = Insert("country", country)
      /\ Load[3] = Insert("exchange_rate", exchange_rate)
      /\ Load[4] = Insert("calendar_day", calendar_day)
      /\ Load[5] = Insert("tax_rate", tax_rate)
      /\ Load[6] = Insert("loyalty_tier", loyalty_tier)
      /\ Load[7] = Insert("carrier", carrier)
      /\ Load[8] = Insert("return_reason", return_reason)
  BY DEF Load
<1>2. /\ Load[9] = Insert("app_parameter", app_parameter)
      /\ Load[10] = Insert("gl_account", gl_account)
      /\ Load[11] = Insert("gl_period", gl_period)
      /\ Load[12] = Insert("region", region)
      /\ Load[13] = Insert("address", address)
      /\ Load[14] = Insert("warehouse", warehouse)
      /\ Load[15] = Insert("store", store)
      /\ Load[16] = Insert("employee", employee)
  BY DEF Load
<1>3. /\ Load[17] = Update("region", region_manager)
      /\ Load[18] = Update("store", store_manager)
      /\ Load[19] = Insert("product_category", product_category)
      /\ Load[20] = Insert("brand", brand)
      /\ Load[21] = Insert("product", product)
      /\ Load[22] = Insert("product_variant", product_variant)
      /\ Load[23] = Insert("supplier", supplier)
      /\ Load[24] = Update("brand", brand_owner)
  BY DEF Load
<1>4. /\ Load[25] = Insert("supplier_product", supplier_product)
      /\ Load[26] = Insert("customer", customer)
      /\ Load[27] = Insert("customer_address", customer_address)
      /\ Load[28] = Insert("loyalty_account", loyalty_account)
      /\ Load[29] = Insert("loyalty_transaction", loyalty_transaction)
      /\ Load[30] = Insert("price_list", price_list)
      /\ Load[31] = Insert("promotion", promotion)
      /\ Load[32] = Insert("price_list_item", price_list_item)
  BY DEF Load
<1>5. /\ Load[33] = Insert("promotion_product", promotion_product)
      /\ Load[34] = Insert("coupon", coupon)
      /\ Load[35] = Insert("inventory_location", inventory_location)
      /\ Load[36] = Insert("inventory_stock", inventory_stock)
      /\ Load[37] = Insert("inventory_movement", inventory_movement)
      /\ Load[38] = Insert("sales_order", sales_order)
      /\ Load[39] = Insert("sales_order_line", sales_order_line)
      /\ Load[40] = Insert("order_payment", order_payment)
  BY DEF Load
<1>6. /\ Load[41] = Insert("shipment", shipment)
      /\ Load[42] = Insert("shipment_line", shipment_line)
      /\ Load[43] = Insert("purchase_order", purchase_order)
      /\ Load[44] = Insert("purchase_order_line", purchase_order_line)
      /\ Load[45] = Insert("goods_receipt", goods_receipt)
      /\ Load[46] = Insert("return_request", return_request)
      /\ Load[47] = Insert("return_line", return_line)
      /\ Load[48] = Insert("gl_journal", gl_journal)
  BY DEF Load
<1>7. /\ Load[49] = Insert("gl_journal_line", gl_journal_line)
      /\ Load[50] = Insert("address", mess_address)
      /\ Load[51] = Insert("customer", mess_customer)
      /\ Load[52] = Insert("sales_order", mess_order)
      /\ Load[53] = Insert("inventory_movement", mess_movement)
      /\ Load[54] = Insert("loyalty_transaction", mess_loyalty)
      /\ Load[55] = Insert("address", mess_padded)
      /\ Load[56] = Insert("gl_journal", mess_journal)
  BY DEF Load
<1> QED
  BY <1>1, <1>2, <1>3, <1>4, <1>5, <1>6, <1>7

(* The INSERT of a table's planned rows.                                   *)
Right(p) ==
  /\ Place[Load[p].table] = p /\ Load[p].update = FALSE
  /\ Sound(Load[p].table, Load[p].rows)

(* Such an INSERT, from what is known of its rows.                         *)
LEMMA RightIs ==
  ASSUME NEW p, NEW table,
         NEW rows, Load[p] = Insert(table, rows), Place[table] = p, Sound(table, rows)
  PROVE  Right(p)
BY DEF Right, Insert

(* The INSERTs before the mess.                                            *)
Inserting == 1..56 \ ({17, 18, 24} \cup 50..56)

(* They are all sound.                                                     *)
LEMMA Inserts == \A p \in Inserting : Right(p)
<1>1. Right(1) /\ Right(2) /\ Right(3) /\ Right(4) /\ Right(5) /\ Right(6) /\ Right(7) /\ Right(8)
  <2>1. Right(1)
    BY Places, Statements, listed_rows, RightIs
  <2>2. Right(2)
    BY Places, Statements, listed_rows, RightIs
  <2>3. Right(3)
    BY Places, Statements, exchange_rate_rows, RightIs
  <2>4. Right(4)
    BY Places, Statements, calendar_day_rows, RightIs
  <2>5. Right(5)
    BY Places, Statements, tax_rate_rows, RightIs
  <2>6. Right(6)
    BY Places, Statements, listed_rows, RightIs
  <2>7. Right(7)
    BY Places, Statements, listed_rows, RightIs
  <2>8. Right(8)
    BY Places, Statements, listed_rows, RightIs
  <2> QED
    BY <2>1, <2>2, <2>3, <2>4, <2>5, <2>6, <2>7, <2>8
<1>2. /\ Right(9) /\ Right(10) /\ Right(11) /\ Right(12) /\ Right(13) /\ Right(14) /\ Right(15)
      /\ Right(16)
  <2>1. Right(9)
    BY Places, Statements, listed_rows, RightIs
  <2>2. Right(10)
    BY Places, Statements, gl_account_rows, RightIs
  <2>3. Right(11)
    BY Places, Statements, gl_period_rows, RightIs
  <2>4. Right(12)
    BY Places, Statements, region_rows, RightIs
  <2>5. Right(13)
    BY Places, Statements, address_rows, RightIs
  <2>6. Right(14)
    BY Places, Statements, warehouse_rows, RightIs
  <2>7. Right(15)
    BY Places, Statements, store_rows, RightIs
  <2>8. Right(16)
    BY Places, Statements, employee_rows, RightIs
  <2> QED
    BY <2>1, <2>2, <2>3, <2>4, <2>5, <2>6, <2>7, <2>8
<1>3. /\ Right(19) /\ Right(20) /\ Right(21) /\ Right(22) /\ Right(23) /\ Right(25) /\ Right(26)
      /\ Right(27)
  <2>1. Right(19)
    BY Places, Statements, product_category_rows, RightIs
  <2>2. Right(20)
    BY Places, Statements, brand_rows, RightIs
  <2>3. Right(21)
    BY Places, Statements, product_rows, RightIs
  <2>4. Right(22)
    BY Places, Statements, product_variant_rows, RightIs
  <2>5. Right(23)
    BY Places, Statements, supplier_rows, RightIs
  <2>6. Right(25)
    BY Places, Statements, supplier_product_rows, RightIs
  <2>7. Right(26)
    BY Places, Statements, customer_rows, RightIs
  <2>8. Right(27)
    BY Places, Statements, customer_address_rows, RightIs
  <2> QED
    BY <2>1, <2>2, <2>3, <2>4, <2>5, <2>6, <2>7, <2>8
<1>4. /\ Right(28) /\ Right(29) /\ Right(30) /\ Right(31) /\ Right(32) /\ Right(33) /\ Right(34)
      /\ Right(35)
  <2>1. Right(28)
    BY Places, Statements, loyalty_account_rows, RightIs
  <2>2. Right(29)
    BY Places, Statements, loyalty_transaction_rows, RightIs
  <2>3. Right(30)
    BY Places, Statements, price_list_rows, RightIs
  <2>4. Right(31)
    BY Places, Statements, promotion_rows, RightIs
  <2>5. Right(32)
    BY Places, Statements, price_list_item_rows, RightIs
  <2>6. Right(33)
    BY Places, Statements, promotion_product_rows, RightIs
  <2>7. Right(34)
    BY Places, Statements, coupon_rows, RightIs
  <2>8. Right(35)
    BY Places, Statements, inventory_location_rows, RightIs
  <2> QED
    BY <2>1, <2>2, <2>3, <2>4, <2>5, <2>6, <2>7, <2>8
<1>5. /\ Right(36) /\ Right(37) /\ Right(38) /\ Right(39) /\ Right(40) /\ Right(41) /\ Right(42)
      /\ Right(43)
  <2>1. Right(36)
    BY Places, Statements, inventory_stock_rows, RightIs
  <2>2. Right(37)
    BY Places, Statements, inventory_movement_rows, RightIs
  <2>3. Right(38)
    BY Places, Statements, sales_order_rows, RightIs
  <2>4. Right(39)
    BY Places, Statements, sales_order_line_rows, RightIs
  <2>5. Right(40)
    BY Places, Statements, order_payment_rows, RightIs
  <2>6. Right(41)
    BY Places, Statements, shipment_rows, RightIs
  <2>7. Right(42)
    BY Places, Statements, shipment_line_rows, RightIs
  <2>8. Right(43)
    BY Places, Statements, purchase_order_rows, RightIs
  <2> QED
    BY <2>1, <2>2, <2>3, <2>4, <2>5, <2>6, <2>7, <2>8
<1>6. Right(44) /\ Right(45) /\ Right(46) /\ Right(47) /\ Right(48) /\ Right(49)
  <2>1. Right(44)
    BY Places, Statements, purchase_order_line_rows, RightIs
  <2>2. Right(45)
    BY Places, Statements, goods_receipt_rows, RightIs
  <2>3. Right(46)
    BY Places, Statements, return_request_rows, RightIs
  <2>4. Right(47)
    BY Places, Statements, return_line_rows, RightIs
  <2>5. Right(48)
    BY Places, Statements, gl_journal_rows, RightIs
  <2>6. Right(49)
    BY Places, Statements, gl_journal_line_rows, RightIs
  <2> QED
    BY <2>1, <2>2, <2>3, <2>4, <2>5, <2>6
<1> QED
  BY <1>1, <1>2, <1>3, <1>4, <1>5, <1>6 DEF Inserting

(* A table's keys are filled by its INSERT.                                *)
There(table) == Load[Place[table]].table = table /\ Keys(table) \subseteq KeysOf[Place[table]]

(* The keys a statement writes.                                            *)
LEMMA KeysOfIs == \A p \in 1..56 : KeysOf[p] = {Load[p].rows[i].key : i \in DOMAIN Load[p].rows}
BY LoadIs DEF KeysOf

(* Those of the rows it writes.                                            *)
LEMMA KeysIn ==
  ASSUME NEW p \in 1..56, NEW rows, Load[p].rows = rows
  PROVE  KeysOf[p] = {rows[i].key : i \in DOMAIN rows}
BY KeysOfIs

(* Filled if every key is some row's.                                      *)
LEMMA ThereIs ==
  ASSUME NEW table, NEW rows, NEW p \in 1..56, Load[p] = Insert(table, rows), Place[table] = p,
         \A key \in Keys(table) : \E r \in DOMAIN rows : rows[r].key = key
  PROVE  There(table)
<1>1. Load[p].table = table /\ Load[p].rows = rows
  BY DEF Insert
<1> QED
  BY <1>1, KeysOfIs DEF There

(* Numbers are.                                                            *)
LEMMA NumberedThere ==
  ASSUME NEW table \in Numbered, NEW rows, NEW p \in 1..56, Load[p] = Insert(table, rows),
         Place[table] = p, Sound(table, rows), Numbers(table, rows)
  PROVE  There(table)
<1>1. Keys(table) = {<<i>> : i \in 1..Planned[table]}
  BY DEF Keys, Numbered
<1>2. \A key \in Keys(table) : \E r \in DOMAIN rows : rows[r].key = key
  BY <1>1 DEF Sound, Numbers
<1> QED
  BY <1>2, ThereIs

(* Every table that is referred to is filled.                              *)
LEMMA Filled == \A table \in Referred : There(table)
<1>1. There("country")
  BY Places, Members, Statements, listed_rows, NumberedThere
<1>2. There("region")
  BY Places, Members, Statements, region_rows, NumberedThere
<1>3. There("address")
  BY Places, Members, Statements, address_rows, NumberedThere
<1>4. There("warehouse")
  BY Places, Members, Statements, warehouse_rows, NumberedThere
<1>5. There("store")
  BY Places, Members, Statements, store_rows, NumberedThere
<1>6. There("employee")
  BY Places, Members, Statements, employee_rows, NumberedThere
<1>7. There("product_category")
  BY Places, Members, Statements, product_category_rows, NumberedThere
<1>8. There("brand")
  BY Places, Members, Statements, brand_rows, NumberedThere
<1>9. There("product")
  BY Places, Members, Statements, product_rows, NumberedThere
<1>10. There("product_variant")
  BY Places, Members, Statements, product_variant_rows, NumberedThere
<1>11. There("supplier")
  BY Places, Members, Statements, supplier_rows, NumberedThere
<1>12. There("loyalty_tier")
  BY Places, Members, Statements, listed_rows, NumberedThere
<1>13. There("carrier")
  BY Places, Members, Statements, listed_rows, NumberedThere
<1>14. There("return_reason")
  BY Places, Members, Statements, listed_rows, NumberedThere
<1>15. There("tax_rate")
  BY Places, Members, Statements, tax_rate_rows, NumberedThere
<1>16. There("gl_period")
  BY Places, Members, Statements, gl_period_rows, NumberedThere
<1>17. There("customer")
  BY Places, Members, Statements, customer_rows, NumberedThere
<1>18. There("loyalty_account")
  BY Places, Members, Statements, loyalty_account_rows, NumberedThere
<1>19. There("price_list")
  BY Places, Members, Statements, price_list_rows, NumberedThere
<1>20. There("promotion")
  BY Places, Members, Statements, promotion_rows, NumberedThere
<1>21. There("coupon")
  BY Places, Members, Statements, coupon_rows, NumberedThere
<1>22. There("inventory_location")
  BY Places, Members, Statements, inventory_location_rows, NumberedThere
<1>23. There("sales_order")
  BY Places, Members, Statements, sales_order_rows, NumberedThere
<1>24. There("shipment")
  BY Places, Members, Statements, shipment_rows, NumberedThere
<1>25. There("purchase_order")
  BY Places, Members, Statements, purchase_order_rows, NumberedThere
<1>26. There("return_request")
  BY Places, Members, Statements, return_request_rows, NumberedThere
<1>27. There("gl_journal")
  BY Places, Members, Statements, gl_journal_rows, NumberedThere
<1>28. There("gl_account")
  BY Places, Statements, gl_account_rows, ThereIs
<1>29. There("sales_order_line")
  BY Places, Statements, sales_order_line_rows, ThereIs
<1>30. There("purchase_order_line")
  BY Places, Statements, purchase_order_line_rows, ThereIs
<1> QED
  BY <1>1, <1>2, <1>3, <1>4, <1>5, <1>6, <1>7, <1>8, <1>9, <1>10, <1>11, <1>12, <1>13,
     <1>14, <1>15, <1>16, <1>17, <1>18, <1>19, <1>20, <1>21, <1>22, <1>23, <1>24, <1>25,
     <1>26, <1>27, <1>28, <1>29, <1>30 DEF Referred, Numbered

(* So a reference to an earlier table meets a row.                         *)
LEMMA KnownPresent ==
  ASSUME NEW p \in 1..56, NEW ref \in Known(p)
  PROVE  Present(p, ref[1], ref[2])
<1>1. PICK table \in Referred : Place[table] < p /\ ref \in {table} \X Keys(table)
  BY DEF Known
<1>2. Place[table] \in 1..56
  BY DEF Place, Referred, Numbered
<1>3. Place[table] \in Earlier(p, table) /\ ref[2] \in KeysOf[Place[table]]
  BY <1>1, <1>2, Filled DEF There, Earlier
<1> QED
  BY <1>1, <1>3 DEF Present

(* As many values as places when no value comes twice.                     *)
LEMMA Distinct ==
  ASSUME NEW n \in Nat, NEW f, DOMAIN f = 1..n, \A i, j \in 1..n : f[i] = f[j] => i = j,
         NEW S, S = {f[i] : i \in 1..n}
  PROVE  Cardinality(S) = n
<1> DEFINE g == [i \in 1..n |-> f[i]]
<1>1. g \in Bijection(1..n, S)
  <2>1. g \in [1..n -> S]
    OBVIOUS
  <2>2. \A a, b \in 1..n : g[a] = g[b] => a = b
    OBVIOUS
  <2>3. \A t \in S : \E s \in 1..n : g[s] = t
    OBVIOUS
  <2> HIDE DEF g
  <2> QED
    BY <2>1, <2>2, <2>3 DEF Bijection, Injection, Surjection, IsInjective
<1>2. ExistsBijection(1..n, S)
  BY <1>1 DEF ExistsBijection
<1> QED
  BY <1>2, FS_CountingElements

(* Insert statements before the mess: nothing of their table is there.     *)
LEMMA FirstOfTable ==
  ASSUME NEW p \in 1..56, Place[Load[p].table] = p
  PROVE  Earlier(p, Load[p].table) = {}
<1>1. ASSUME NEW q \in Earlier(p, Load[p].table) PROVE FALSE
  <2>1. q \in 1..(p - 1) /\ Load[q].table = Load[p].table
    BY DEF Earlier
  <2>2. q \in 1..56 /\ q < p
    BY <2>1
  <2>3. Place[Load[q].table] <= q
    BY <2>2, PlaceIs
  <2> QED
    BY <2>1, <2>2, <2>3
<1> QED
  BY <1>1

(* As many keys, and second keys, as rows.                                 *)
LEMMA OwnKeys ==
  ASSUME NEW p \in 1..56, NEW n \in Nat, DOMAIN Load[p].rows = 1..n, Len(Load[p].rows) = n,
         \A i, j \in 1..n : Load[p].rows[i].key = Load[p].rows[j].key => i = j,
         \A i, j \in 1..n : Load[p].rows[i].unique = Load[p].rows[j].unique => i = j
  PROVE  \A keys \in {KeysOf[p], {Load[p].rows[i].unique : i \in DOMAIN Load[p].rows}} :
           Cardinality(keys) = Len(Load[p].rows)
<1> DEFINE f == [i \in 1..n |-> Load[p].rows[i].key]
           g == [i \in 1..n |-> Load[p].rows[i].unique]
           unique == {Load[p].rows[i].unique : i \in DOMAIN Load[p].rows}
<1>1. DOMAIN f = 1..n /\ DOMAIN g = 1..n
  OBVIOUS
<1>2. \A i, j \in 1..n : f[i] = f[j] => i = j
  OBVIOUS
<1>3. \A i, j \in 1..n : g[i] = g[j] => i = j
  OBVIOUS
<1>4. KeysOf[p] = {f[i] : i \in 1..n}
  <2>1. {Load[p].rows[i].key : i \in DOMAIN Load[p].rows} = {f[i] : i \in 1..n}
    OBVIOUS
  <2> HIDE DEF f
  <2> QED
    BY <2>1, KeysOfIs
<1>5. unique = {g[i] : i \in 1..n}
  OBVIOUS
<1>8. \A keys \in {KeysOf[p], unique} : keys = KeysOf[p] \/ keys = unique
  OBVIOUS
<1> HIDE DEF f, g, unique
<1>6. Cardinality(KeysOf[p]) = n
  BY <1>1, <1>2, <1>4, Distinct
<1>7. Cardinality(unique) = n
  BY <1>1, <1>3, <1>5, Distinct
<1>9. \A keys \in {KeysOf[p], unique} : Cardinality(keys) = Len(Load[p].rows)
  BY <1>6, <1>7, <1>8
<1> QED
  BY <1>9 DEF unique

(* Only one statement writes journal lines.                                *)
LEMMA NoBalance ==
  ASSUME NEW p \in 1..56, p # 49
  PROVE  Balances(p)
<1>1. Load[p].table # "gl_journal_line"
  BY DEF Load, Insert, Update
<1> QED
  BY <1>1 DEF Balances

(* A sound INSERT keeps the keys.                                          *)
LEMMA InsertKept ==
  ASSUME NEW p \in 1..56, Right(p), Planned[Load[p].table] \in Nat
  PROVE  KeysAreOwn(p) /\ RefersBack(p)
<1> DEFINE table == Load[p].table  rows == Load[p].rows
<1>1. Place[table] = p /\ Load[p].update = FALSE /\ Sound(table, rows)
  BY DEF Right
<1>2. Earlier(p, table) = {}
  BY <1>1, FirstOfTable
<1>3. KeysAreOwn(p)
  <2>1. Len(rows) = Planned[table]
    BY <1>1 DEF Sound
  <2>2. \A keys \in {KeysOf[p], {rows[i].unique : i \in DOMAIN rows}} : Cardinality(keys) = Len(rows)
    BY <1>1, OwnKeys DEF Sound
  <2>3. \A key \in KeysOf[p] : ~Present(p, table, key)
    BY <1>2 DEF Present
  <2>4. \A key \in KeysOf[p] : Present(p, table, key) = Load[p].update
    <3> SUFFICES ASSUME NEW key \in KeysOf[p] PROVE Present(p, table, key) = Load[p].update
      OBVIOUS
    <3>1. Present(p, table, key) \in BOOLEAN
      BY DEF Present
    <3> QED
      BY <1>1, <2>3, <3>1
  <2> QED
    BY <2>1, <2>2, <2>4 DEF KeysAreOwn
<1>4. RefersBack(p)
  <2> SUFFICES ASSUME NEW i \in DOMAIN Load[p].rows, NEW ref \in Load[p].rows[i].refs
               PROVE  Meets(p, i, ref)
    BY DEF RefersBack
  <2>1. i \in 1..Planned[table] /\ ref \in Known(p) \cup Own(table, rows, i)
    BY <1>1 DEF Sound
  <2>2. CASE ref \in Known(p)
    BY <2>2, KnownPresent DEF Meets
  <2>3. CASE ref \in Own(table, rows, i)
    BY <2>3 DEF Meets, Own
  <2> QED
    BY <2>1, <2>2, <2>3
<1> QED
  BY <1>3, <1>4

-----------------------------------------------------------------------------
(* The UPDATEs                                                             *)

(* The UPDATE changes rows id[1], id[2], ... of an earlier table.          *)
Changes(p, table, rows, n, id) ==
  /\ DOMAIN rows = 1..n /\ Len(rows) = n /\ Place[table] < p
  /\ \A i \in 1..n : id[i] \in 1..Planned[table]
  /\ \A i, j \in 1..n : id[i] = id[j] => i = j
  /\ \A i \in 1..n : rows[i].key = <<id[i]>> /\ rows[i].unique = <<id[i]>> /\ rows[i].refs \subseteq Known(p)

(* Such an UPDATE, from its rows.                                          *)
LEMMA ChangesIs ==
  ASSUME NEW p, NEW table, NEW rows, NEW n \in Nat, NEW id, NEW refs, Place[table] < p,
         rows = [i \in 1..n |-> Row(<<id[i]>>, refs[i])],
         \A i \in 1..n : id[i] \in 1..Planned[table],
         \A i, j \in 1..n : id[i] = id[j] => i = j,
         \A i \in 1..n : refs[i] \subseteq Known(p)
  PROVE  Changes(p, table, rows, n, id)
<1>1. DOMAIN rows = 1..n /\ Len(rows) = n
  OBVIOUS
<1>2. ASSUME NEW i \in 1..n
      PROVE  rows[i].key = <<id[i]>> /\ rows[i].unique = <<id[i]>> /\ rows[i].refs \subseteq Known(p)
  <2>1. rows[i] = Row(<<id[i]>>, refs[i]) /\ refs[i] \subseteq Known(p)
    OBVIOUS
  <2> QED
    BY <2>1 DEF Row
<1> QED
  BY <1>1, <1>2 DEF Changes

(* It meets each row, and each only once.                                  *)
LEMMA UpdateKept ==
  ASSUME NEW p \in 1..56, NEW table \in Numbered, NEW rows, Load[p] = Update(table, rows),
         NEW n \in Nat, NEW id, Changes(p, table, rows, n, id)
  PROVE  KeysAreOwn(p) /\ RefersBack(p)
<1>0. Load[p].table = table /\ Load[p].rows = rows /\ Load[p].update = TRUE
  BY DEF Update
<1>a. /\ DOMAIN rows = 1..n /\ Len(rows) = n /\ Place[table] < p
      /\ \A i \in 1..n : id[i] \in 1..Planned[table]
      /\ \A i, j \in 1..n : id[i] = id[j] => i = j
      /\ \A i \in 1..n : rows[i].key = <<id[i]>> /\ rows[i].unique = <<id[i]>> /\ rows[i].refs \subseteq Known(p)
  BY DEF Changes
<1>1. Place[table] \in 1..56 /\ table \in Referred
  BY DEF Place, Numbered, Referred
<1>2. Place[table] \in Earlier(p, table)
  <2>1. Place[table] < p
    BY <1>a
  <2>2. Load[Place[table]].table = table
    BY <1>1, Filled DEF There
  <2>3. Place[table] \in 1..(p - 1)
    BY <1>1, <2>1
  <2> QED
    BY <2>2, <2>3 DEF Earlier
<1>3. ASSUME NEW i \in 1..n, NEW j \in 1..n, <<id[i]>> = <<id[j]>> PROVE i = j
  <2>1. <<id[i]>>[1] = id[i] /\ <<id[j]>>[1] = id[j]
    OBVIOUS
  <2>2. id[i] = id[j]
    BY <1>3, <2>1
  <2> QED
    BY <1>a, <2>2
<1>4. \A keys \in {KeysOf[p], {Load[p].rows[i].unique : i \in DOMAIN Load[p].rows}} :
        Cardinality(keys) = Len(Load[p].rows)
  <2>1. \A i, j \in 1..n : rows[i].key = rows[j].key => i = j
    BY <1>3, <1>a
  <2>2. \A i, j \in 1..n : rows[i].unique = rows[j].unique => i = j
    BY <1>3, <1>a
  <2> QED
    BY <1>0, <1>a, <2>1, <2>2, OwnKeys
<1>5. ASSUME NEW key \in KeysOf[p] PROVE Present(p, table, key)
  <2>1. PICK i \in 1..n : key = <<id[i]>>
    <3>1. PICK i \in DOMAIN rows : key = rows[i].key
      BY <1>0, KeysOfIs
    <3> QED
      BY <1>a, <3>1
  <2>2. Keys(table) = {<<k>> : k \in 1..Planned[table]}
    BY DEF Keys, Numbered
  <2>3. key \in Keys(table)
    BY <1>a, <2>1, <2>2
  <2> QED
    BY <1>1, <1>2, <2>3, Filled DEF There, Present
<1>6. ASSUME NEW key \in KeysOf[p] PROVE Present(p, table, key) = Load[p].update
  <2>1. Present(p, table, key) \in BOOLEAN
    BY DEF Present
  <2> QED
    BY <1>0, <1>5, <2>1
<1>7. KeysAreOwn(p)
  BY <1>0, <1>2, <1>4, <1>6 DEF KeysAreOwn
<1>8. RefersBack(p)
  BY <1>0, <1>a, KnownPresent DEF RefersBack, Meets
<1> QED
  BY <1>7, <1>8

(* The ids left when every fourth, or eighth, is skipped.                  *)
LEMMA SkippingEvery ==
  ASSUME NEW m \in {3, 7}, NEW s \in Nat
  PROVE  /\ \A i \in 1..(s - s \div (m + 1)) : i + (i - 1) \div m \in 1..s
         /\ \A i, j \in 1..(s - s \div (m + 1)) : i + (i - 1) \div m = j + (j - 1) \div m => i = j
OBVIOUS

(* The managers of regions and stores.                                     *)
LEMMA ManagersKept == KeysAreOwn(17) /\ RefersBack(17) /\ KeysAreOwn(18) /\ RefersBack(18)
<1>1. "employee" \in Numbered /\ Place.employee < 17 /\ Place.employee < 18
  BY DEF Numbered, Place
<1>2. KeysAreOwn(17) /\ RefersBack(17)
  <2> DEFINE n == Planned.region - 5
             id == [i \in 1..n |-> i + 5]
             refs == [i \in 1..n |-> Cycle("employee", (i + 5) * 3)]
  <2>1. Planned.region \in Nat /\ n \in Nat
    BY Sizes
  <2>2. region_manager = [i \in 1..n |-> Row(<<id[i]>>, refs[i])]
    BY DEF region_manager
  <2>3. /\ \A i \in 1..n : id[i] \in 1..Planned.region
        /\ \A i, j \in 1..n : id[i] = id[j] => i = j
    BY <2>1
  <2>4. \A i \in 1..n : refs[i] \subseteq Known(17)
    BY <1>1, CycleKnown
  <2>5. "region" \in Numbered /\ Place.region < 17 /\ Load[17] = Update("region", region_manager)
    BY Statements DEF Numbered, Place
  <2> HIDE DEF n, id, refs
  <2>6. Changes(17, "region", region_manager, n, id)
    BY <2>1, <2>2, <2>3, <2>4, <2>5, ChangesIs
  <2> QED
    BY <2>1, <2>5, <2>6, UpdateKept
<1>3. KeysAreOwn(18) /\ RefersBack(18)
  <2> DEFINE n == Planned.store - Planned.store \div 8
             id == [i \in 1..n |-> i + (i - 1) \div 7]
             refs == [i \in 1..n |-> Cycle("employee", id[i] * 5)]
  <2>1. Planned.store \in Nat /\ n \in Nat
    BY Sizes
  <2>2. store_manager = [i \in 1..n |-> Row(<<id[i]>>, refs[i])]
    BY DEF store_manager
  <2>3. /\ \A i \in 1..n : id[i] \in 1..Planned.store
        /\ \A i, j \in 1..n : id[i] = id[j] => i = j
    BY <2>1, SkippingEvery
  <2>4. \A i \in 1..n : refs[i] \subseteq Known(18)
    BY <1>1, <2>3, CycleKnown
  <2>5. "store" \in Numbered /\ Place.store < 18 /\ Load[18] = Update("store", store_manager)
    BY Statements DEF Numbered, Place
  <2> HIDE DEF n, id, refs
  <2>6. Changes(18, "store", store_manager, n, id)
    BY <2>1, <2>2, <2>3, <2>4, <2>5, ChangesIs
  <2> QED
    BY <2>1, <2>5, <2>6, UpdateKept
<1> QED
  BY <1>2, <1>3

(* The owners of brands.                                                   *)
LEMMA OwnersKept == KeysAreOwn(24) /\ RefersBack(24)
<1>1. "supplier" \in Numbered /\ Place.supplier < 24
  BY DEF Numbered, Place
<1> DEFINE n == Planned.brand - Planned.brand \div 4
           id == [i \in 1..n |-> i + (i - 1) \div 3]
           refs == [i \in 1..n |-> Cycle("supplier", id[i] * 3)]
<1>2. Planned.brand \in Nat /\ n \in Nat
  BY Sizes
<1>3. brand_owner = [i \in 1..n |-> Row(<<id[i]>>, refs[i])]
  BY DEF brand_owner
<1>4. /\ \A i \in 1..n : id[i] \in 1..Planned.brand
      /\ \A i, j \in 1..n : id[i] = id[j] => i = j
  BY <1>2, SkippingEvery
<1>5. \A i \in 1..n : refs[i] \subseteq Known(24)
  BY <1>1, <1>4, CycleKnown
<1>6. "brand" \in Numbered /\ Place.brand < 24 /\ Load[24] = Update("brand", brand_owner)
  BY Statements DEF Numbered, Place
<1> HIDE DEF n, id, refs
<1>7. Changes(24, "brand", brand_owner, n, id)
  BY <1>2, <1>3, <1>4, <1>5, <1>6, ChangesIs
<1> QED
  BY <1>2, <1>6, <1>7, UpdateKept

-----------------------------------------------------------------------------
(* The mess                                                                *)

(* Tables the mess adds to.                                                *)
Messy == {"address", "customer", "sales_order", "inventory_movement", "loyalty_transaction", "gl_journal"}

(* MESS_BASE is beyond every planned row.                                  *)
LEMMA MessBase == MESS_BASE \in Nat /\ MESS_BASE >= 1000000
BY SMT DEF MESS_BASE

(* Numbered rows are below it.                                             *)
LEMMA CountBelow ==
  ASSUME NEW table, NEW rows, NEW p \in 1..56, Load[p] = Insert(table, rows), Place[table] = p,
         Sound(table, rows), \A r \in 1..Planned[table] : rows[r].key[1] = r,
         Planned[table] \in Nat, Planned[table] <= MESS_BASE
  PROVE  Load[Place[table]].table = table /\ \A key \in KeysOf[Place[table]] : ~(key[1] > MESS_BASE)
<1>1. Load[p].table = table /\ Load[p].rows = rows
  BY DEF Insert
<1>2. DOMAIN rows = 1..Planned[table]
  BY DEF Sound
<1>3. ASSUME NEW key \in KeysOf[p] PROVE ~(key[1] > MESS_BASE)
  <2>1. PICK r \in DOMAIN rows : key = rows[r].key
    <3>1. KeysOf[p] = {Load[p].rows[r].key : r \in DOMAIN Load[p].rows}
      BY KeysOfIs
    <3>2. KeysOf[p] = {rows[r].key : r \in DOMAIN rows}
      BY <1>1, <3>1
    <3> QED
      BY <1>3, <3>2
  <2>2. key[1] = r /\ r \in 1..Planned[table]
    BY <1>2, <2>1
  <2>3. MESS_BASE \in Nat
    BY MessBase
  <2> QED
    BY <2>2, <2>3
<1> QED
  BY <1>1, <1>3

(* At every scale.                                                         *)
LEMMA MessySizes ==
  /\ Planned.address \in Nat /\ Planned.address <= MESS_BASE
  /\ Planned.customer \in Nat /\ Planned.customer <= MESS_BASE
  /\ Planned.sales_order \in Nat /\ Planned.sales_order <= MESS_BASE
  /\ Planned.inventory_movement \in Nat /\ Planned.inventory_movement <= MESS_BASE
  /\ Planned.loyalty_transaction \in Nat /\ Planned.loyalty_transaction <= MESS_BASE
  /\ Planned.gl_journal \in Nat /\ Planned.gl_journal <= MESS_BASE
<1>1. Factor \in 1..200
  BY ScaleAssumption DEF Factor, ScaleFactor
<1>2. ASSUME NEW f \in 1..200
      PROVE  /\ 1200 * f \in Nat /\ 1200 * f <= MESS_BASE /\ 2000 * f \in Nat /\ 2000 * f <= MESS_BASE
             /\ 2400 * f \in Nat /\ 2400 * f <= MESS_BASE /\ 4000 * f \in Nat
             /\ 4000 * f <= MESS_BASE
             /\ 2800 * f \in Nat /\ 2800 * f <= MESS_BASE /\ 800 * f \in Nat /\ 800 * f <= MESS_BASE
  BY MessBase
<1> QED
  BY <1>1, <1>2, Sizes

(* A numbered table's keys begin with the number.                          *)
LEMMA NumberedBelow ==
  ASSUME NEW table, NEW rows, Numbers(table, rows)
  PROVE  \A r \in 1..Planned[table] : rows[r].key[1] = r
BY DEF Numbers

(* What the load wrote before is below MESS_BASE.                          *)
LEMMA BelowMess ==
  \A table \in Messy :
    Load[Place[table]].table = table /\ \A key \in KeysOf[Place[table]] : ~(key[1] > MESS_BASE)
<1> DEFINE Below(table) ==
      Load[Place[table]].table = table /\ \A key \in KeysOf[Place[table]] : ~(key[1] > MESS_BASE)
<1>1. /\ Place.address = 13 /\ Place.customer = 26 /\ Place.sales_order = 38
      /\ Place.inventory_movement = 37 /\ Place.loyalty_transaction = 29 /\ Place.gl_journal = 48
  BY DEF Place
<1>2. Below("address")
  <2>1. \A r \in 1..Planned.address : address[r].key[1] = r
    BY address_rows, NumberedBelow
  <2>2. 13 \in 1..56 /\ Load[13] = Insert("address", address) /\ Place["address"] = 13
    BY <1>1, Statements
  <2>3. Sound("address", address) /\ Planned["address"] \in Nat /\ Planned["address"] <= MESS_BASE
    BY address_rows, MessySizes
  <2> QED
    BY <2>1, <2>2, <2>3, CountBelow
<1>3. Below("customer")
  <2>1. \A r \in 1..Planned.customer : customer[r].key[1] = r
    BY customer_rows, NumberedBelow
  <2>2. 26 \in 1..56 /\ Load[26] = Insert("customer", customer) /\ Place["customer"] = 26
    BY <1>1, Statements
  <2>3. Sound("customer", customer) /\ Planned["customer"] \in Nat /\ Planned["customer"] <= MESS_BASE
    BY customer_rows, MessySizes
  <2> QED
    BY <2>1, <2>2, <2>3, CountBelow
<1>4. Below("sales_order")
  <2>1. \A r \in 1..Planned.sales_order : sales_order[r].key[1] = r
    BY sales_order_rows, NumberedBelow
  <2>2. 38 \in 1..56 /\ Load[38] = Insert("sales_order", sales_order) /\ Place["sales_order"] = 38
    BY <1>1, Statements
  <2>3. Sound("sales_order", sales_order) /\ Planned["sales_order"] \in Nat /\ Planned["sales_order"] <= MESS_BASE
    BY sales_order_rows, MessySizes
  <2> QED
    BY <2>1, <2>2, <2>3, CountBelow
<1>5. Below("inventory_movement")
  <2>1. \A r \in 1..Planned.inventory_movement : inventory_movement[r].key[1] = r
    BY inventory_movement_rows, NumberedBelow
  <2>2. 37 \in 1..56 /\ Load[37] = Insert("inventory_movement", inventory_movement) /\ Place["inventory_movement"] = 37
    BY <1>1, Statements
  <2>3. Sound("inventory_movement", inventory_movement) /\ Planned["inventory_movement"] \in Nat /\ Planned["inventory_movement"] <= MESS_BASE
    BY inventory_movement_rows, MessySizes
  <2> QED
    BY <2>1, <2>2, <2>3, CountBelow
<1>6. Below("loyalty_transaction")
  BY <1>1, loyalty_transaction_rows, Statements, MessySizes, CountBelow
<1>7. Below("gl_journal")
  <2>1. \A r \in 1..Planned.gl_journal : gl_journal[r].key[1] = r
    BY gl_journal_rows, NumberedBelow
  <2>2. 48 \in 1..56 /\ Load[48] = Insert("gl_journal", gl_journal) /\ Place["gl_journal"] = 48
    BY <1>1, Statements
  <2>3. Sound("gl_journal", gl_journal) /\ Planned["gl_journal"] \in Nat /\ Planned["gl_journal"] <= MESS_BASE
    BY gl_journal_rows, MessySizes
  <2> QED
    BY <2>1, <2>2, <2>3, CountBelow
<1> HIDE DEF Below
<1>8. \A table \in Messy : Below(table)
  BY <1>2, <1>3, <1>4, <1>5, <1>6, <1>7 DEF Messy
<1> QED
  BY <1>8 DEF Below

(* Of the statements before the mess only one is of a table.               *)
LEMMA OneBeforeMess ==
  ASSUME NEW table \in Messy, NEW q \in 1..49, Load[q].table = table
  PROVE  q = Place[table]
<1>1. CASE q \in Inserting
  BY <1>1, Inserts DEF Right
<1>2. CASE q \in {17, 18, 24}
  <2>1. Load[17].table = "region" /\ Load[18].table = "store" /\ Load[24].table = "brand"
    BY Statements DEF Update
  <2>2. table \notin {"region", "store", "brand"}
    BY DEF Messy
  <2> QED
    BY <1>2, <2>1, <2>2
<1> QED
  BY <1>1, <1>2 DEF Inserting

(* Rows of the mess: keys of their own beyond MESS_BASE.                   *)
MessRows(p, rows, n) ==
  /\ DOMAIN rows = 1..n /\ Len(rows) = n
  /\ \A i, j \in 1..n : rows[i].key = rows[j].key => i = j
  /\ \A i \in 1..n : /\ rows[i].unique = rows[i].key /\ rows[i].key[1] > MESS_BASE
                     /\ rows[i].refs \subseteq Known(p)

(* They take no key of the load's, nor of each other.                      *)
LEMMA MessKept ==
  ASSUME NEW p \in 50..56, NEW table \in Messy, NEW rows, Load[p] = Insert(table, rows),
         NEW n \in Nat, MessRows(p, rows, n),
         \A q \in 50..(p - 1) : Load[q].table = table => \A i \in 1..n : rows[i].key \notin KeysOf[q]
  PROVE  KeysAreOwn(p) /\ RefersBack(p)
<1>0. p \in 1..56
  OBVIOUS
<1>1. Load[p].table = table /\ Load[p].rows = rows /\ Load[p].update = FALSE
  BY DEF Insert
<1>2. /\ DOMAIN rows = 1..n /\ Len(rows) = n
      /\ \A i, j \in 1..n : rows[i].key = rows[j].key => i = j
      /\ \A i \in 1..n : /\ rows[i].unique = rows[i].key /\ rows[i].key[1] > MESS_BASE
                         /\ rows[i].refs \subseteq Known(p)
  BY DEF MessRows
<1>3. Place[table] \in 1..49
  BY DEF Messy, Place
<1>4. Place[table] \in Earlier(p, table)
  <2>1. Place[table] \in 1..(p - 1)
    BY <1>3
  <2> QED
    BY <2>1, BelowMess DEF Earlier
<1>5. \A keys \in {KeysOf[p], {Load[p].rows[i].unique : i \in DOMAIN Load[p].rows}} :
        Cardinality(keys) = Len(Load[p].rows)
  <2>1. \A i, j \in 1..n : rows[i].unique = rows[j].unique => i = j
    BY <1>2
  <2>2. DOMAIN rows = 1..n /\ Len(rows) = n /\ p \in 1..56
    BY <1>2
  <2>3. \A i, j \in 1..n : rows[i].key = rows[j].key => i = j
    BY <1>2
  <2> QED
    <3>1. p \in 1..56 /\ n \in Nat
      BY <2>2
    <3>2. DOMAIN Load[p].rows = 1..n /\ Len(Load[p].rows) = n
      BY <1>1, <2>2
    <3>3. \A i, j \in 1..n : Load[p].rows[i].key = Load[p].rows[j].key => i = j
      BY <1>1, <2>3
    <3>4. \A i, j \in 1..n : Load[p].rows[i].unique = Load[p].rows[j].unique => i = j
      BY <1>1, <2>1
    <3> QED
      BY <3>1, <3>2, <3>3, <3>4, OwnKeys
<1>6. ASSUME NEW key \in KeysOf[p] PROVE ~Present(p, table, key)
  <2>1. PICK i \in 1..n : key = rows[i].key
    <3>1. PICK i \in DOMAIN rows : key = rows[i].key
      BY <1>1, <1>0, KeysIn
    <3> QED
      BY <1>2, <3>1
  <2>2. ASSUME NEW q \in Earlier(p, table) PROVE key \notin KeysOf[q]
    <3>1. q \in 1..(p - 1) /\ Load[q].table = table
      BY DEF Earlier
    <3>2. CASE q \in 1..49
      <4>1. q = Place[table]
        BY <3>1, <3>2, OneBeforeMess
      <4> QED
        BY <1>2, <2>1, <4>1, BelowMess
    <3>3. CASE q \in 50..(p - 1)
      BY <2>1, <3>1, <3>3
    <3> QED
      BY <3>1, <3>2, <3>3
  <2> QED
    BY <2>2 DEF Present
<1>7. ASSUME NEW key \in KeysOf[p] PROVE Present(p, table, key) = Load[p].update
  <2>1. Present(p, table, key) \in BOOLEAN
    BY DEF Present
  <2> QED
    BY <1>1, <1>6, <2>1
<1>8. KeysAreOwn(p)
  BY <1>1, <1>4, <1>5, <1>7 DEF KeysAreOwn
<1>9. RefersBack(p)
  BY <1>1, <1>2, KnownPresent DEF RefersBack, Meets
<1> QED
  BY <1>8, <1>9

(* Probes are such rows.                                                   *)
LEMMA ProbeRows ==
  ASSUME NEW p, NEW ids, NEW n \in Nat, Len(ids) = n, NEW refs, refs \subseteq Known(p),
         \A i \in 1..n : ids[i] \in Nat \ {0}, \A i, j \in 1..n : ids[i] = ids[j] => i = j
  PROVE  /\ MessRows(p, Probes(ids, refs), n)
         /\ \A i \in 1..n : Probes(ids, refs)[i].key = <<MESS_BASE + ids[i]>>
<1> DEFINE rows == Probes(ids, refs)
<1>1. rows = [i \in 1..n |-> Row(<<MESS_BASE + ids[i]>>, refs)]
  BY DEF Probes
<1>2. DOMAIN rows = 1..n /\ Len(rows) = n
  BY <1>1
<1>3. MESS_BASE \in Nat
  BY MessBase
<1>4. ASSUME NEW i \in 1..n
      PROVE  /\ rows[i].key = <<MESS_BASE + ids[i]>> /\ rows[i].unique = rows[i].key /\ rows[i].refs = refs
             /\ rows[i].key[1] = MESS_BASE + ids[i]
  BY <1>1 DEF Row
<1> HIDE DEF rows
<1>5. ASSUME NEW i \in 1..n, NEW j \in 1..n, rows[i].key = rows[j].key PROVE i = j
  <2>1. MESS_BASE + ids[i] = MESS_BASE + ids[j]
    BY <1>4, <1>5
  <2> QED
    BY <1>3, <2>1
<1>6. \A i \in 1..n : rows[i].key[1] > MESS_BASE
  BY <1>3, <1>4
<1>7. MessRows(p, rows, n)
  BY <1>2, <1>4, <1>5, <1>6 DEF MessRows
<1> QED
  BY <1>4, <1>7 DEF rows

(* What the mess refers to is there.                                       *)
LEMMA MessKnown ==
  ASSUME NEW p \in 50..56
  PROVE  /\ AnyOf("country") \subseteq Known(p) /\ To("store", 1) \subseteq Known(p)
         /\ To("product_variant", 1) \subseteq Known(p)
         /\ To("loyalty_account", 1) \subseteq Known(p)
         /\ To("gl_period", 1) \subseteq Known(p)
<1>1. /\ "country" \in Numbered /\ "store" \in Numbered /\ "product_variant" \in Numbered
      /\ "loyalty_account" \in Numbered /\ "gl_period" \in Numbered
  BY DEF Numbered
<1>2. /\ Place["country"] < p /\ Place["store"] < p /\ Place["product_variant"] < p
      /\ Place["loyalty_account"] < p /\ Place["gl_period"] < p
  BY DEF Place
<1>3. /\ 1 \in 1..Planned["store"] /\ 1 \in 1..Planned["product_variant"]
      /\ 1 \in 1..Planned["loyalty_account"] /\ 1 \in 1..Planned["gl_period"]
  BY <1>1, Counted
<1> QED
  BY <1>1, <1>2, <1>3, ToKnown, AnyKnown

(* Only the padded address follows another statement of its table.         *)
LEMMA MessTables ==
  /\ Load[50].table = "address" /\ Load[51].table = "customer" /\ Load[52].table = "sales_order"
  /\ Load[53].table = "inventory_movement" /\ Load[54].table = "loyalty_transaction"
  /\ Load[55].table = "address" /\ Load[56].table = "gl_journal"
BY Statements DEF Insert

(* The seven statements of the mess.                                       *)
LEMMA MessyRows ==
  /\ MessRows(50, mess_address, 6) /\ MessRows(51, mess_customer, 12) /\ MessRows(52, mess_order, 6)
  /\ MessRows(53, mess_movement, 4) /\ MessRows(54, mess_loyalty, 2)
  /\ MessRows(55, mess_padded, 1) /\ MessRows(56, mess_journal, 1)
<1>1. MessRows(50, mess_address, 6)
  <2> DEFINE ids == <<1, 2, 3, 4, 5, 6>>
  <2>1. Len(ids) = 6 /\ \A i \in 1..6 : ids[i] = i
    OBVIOUS
  <2>2. \A i \in 1..6 : ids[i] \in Nat \ {0}
    BY <2>1
  <2>3. \A i, j \in 1..6 : ids[i] = ids[j] => i = j
    BY <2>1
  <2>4. AnyOf("country") \subseteq Known(50)
    BY MessKnown
  <2>5. mess_address = Probes(ids, AnyOf("country"))
    BY DEF mess_address
  <2> HIDE DEF ids
  <2>6. 6 \in Nat /\ Len(ids) = 6
    BY <2>1
  <2>7. MessRows(50, Probes(ids, AnyOf("country")), 6)
    BY <2>2, <2>3, <2>4, <2>6, ProbeRows
  <2> QED
    BY <2>5, <2>7
<1>2. MessRows(51, mess_customer, 12)
  <2> DEFINE ids == <<1, 2>> \o [i \in 1..10 |-> 99 + i]
  <2>1. Len(ids) = 12 /\ \A i \in 1..12 : ids[i] = IF i <= 2 THEN i ELSE 97 + i
    OBVIOUS
  <2>2. \A i \in 1..12 : ids[i] \in Nat \ {0}
    BY <2>1
  <2>3. \A i, j \in 1..12 : ids[i] = ids[j] => i = j
    BY <2>1
  <2>4. AnyOf("country") \subseteq Known(51)
    BY MessKnown
  <2>5. mess_customer = Probes(ids, AnyOf("country"))
    BY DEF mess_customer
  <2> HIDE DEF ids
  <2>6. 12 \in Nat /\ Len(ids) = 12
    BY <2>1
  <2>7. MessRows(51, Probes(ids, AnyOf("country")), 12)
    BY <2>2, <2>3, <2>4, <2>6, ProbeRows
  <2> QED
    BY <2>5, <2>7
<1>3. MessRows(52, mess_order, 6)
  <2> DEFINE ids == [i \in 1..6 |-> 199 + i]
  <2>1. Len(ids) = 6 /\ \A i \in 1..6 : ids[i] = 199 + i
    OBVIOUS
  <2>2. \A i \in 1..6 : ids[i] \in Nat \ {0}
    BY <2>1
  <2>3. \A i, j \in 1..6 : ids[i] = ids[j] => i = j
    BY <2>1
  <2>4. To("store", 1) \subseteq Known(52)
    BY MessKnown
  <2>5. mess_order = Probes(ids, To("store", 1))
    BY DEF mess_order
  <2> HIDE DEF ids
  <2>6. 6 \in Nat /\ Len(ids) = 6
    BY <2>1
  <2>7. MessRows(52, Probes(ids, To("store", 1)), 6)
    BY <2>2, <2>3, <2>4, <2>6, ProbeRows
  <2> QED
    BY <2>5, <2>7
<1>4. MessRows(53, mess_movement, 4)
  <2> DEFINE ids == <<1, 2, 3, 4>>
  <2>1. Len(ids) = 4 /\ \A i \in 1..4 : ids[i] = i
    OBVIOUS
  <2>2. \A i \in 1..4 : ids[i] \in Nat \ {0}
    BY <2>1
  <2>3. \A i, j \in 1..4 : ids[i] = ids[j] => i = j
    BY <2>1
  <2>4. To("product_variant", 1) \subseteq Known(53)
    BY MessKnown
  <2>5. mess_movement = Probes(ids, To("product_variant", 1))
    BY DEF mess_movement
  <2> HIDE DEF ids
  <2>6. 4 \in Nat /\ Len(ids) = 4
    BY <2>1
  <2>7. MessRows(53, Probes(ids, To("product_variant", 1)), 4)
    BY <2>2, <2>3, <2>4, <2>6, ProbeRows
  <2> QED
    BY <2>5, <2>7
<1>5. MessRows(54, mess_loyalty, 2)
  <2>1. DOMAIN mess_loyalty = 1..2 /\ Len(mess_loyalty) = 2
    BY DEF mess_loyalty
  <2>2. To("loyalty_account", 1) \subseteq Known(54)
    BY MessKnown
  <2>3. /\ mess_loyalty[1].key = <<MESS_BASE + 1, 1>>
        /\ mess_loyalty[1].unique = <<MESS_BASE + 1, 1>>
        /\ mess_loyalty[1].refs = To("loyalty_account", 1)
        /\ mess_loyalty[2].key = <<MESS_BASE + 2, 3>>
        /\ mess_loyalty[2].unique = <<MESS_BASE + 2, 3>>
        /\ mess_loyalty[2].refs = To("loyalty_account", 1)
    BY DEF mess_loyalty, Row
  <2>4. mess_loyalty[1].key[1] = MESS_BASE + 1 /\ mess_loyalty[2].key[1] = MESS_BASE + 2
    BY <2>3
  <2>5. MESS_BASE + 1 > MESS_BASE /\ MESS_BASE + 2 > MESS_BASE /\ MESS_BASE + 1 # MESS_BASE + 2
    BY MessBase
  <2>6. \A i \in 1..2 : i = 1 \/ i = 2
    OBVIOUS
  <2>7. \A i, j \in 1..2 : mess_loyalty[i].key = mess_loyalty[j].key => i = j
    BY <2>4, <2>5, <2>6
  <2>8. \A i \in 1..2 : /\ mess_loyalty[i].unique = mess_loyalty[i].key
                        /\ mess_loyalty[i].key[1] > MESS_BASE
                        /\ mess_loyalty[i].refs \subseteq Known(54)
    <3> SUFFICES ASSUME NEW i \in 1..2
                 PROVE  /\ mess_loyalty[i].unique = mess_loyalty[i].key
                        /\ mess_loyalty[i].key[1] > MESS_BASE
                        /\ mess_loyalty[i].refs \subseteq Known(54)
      OBVIOUS
    <3>1. CASE i = 1
      BY <2>2, <2>3, <2>4, <2>5, <3>1
    <3>2. CASE i = 2
      BY <2>2, <2>3, <2>4, <2>5, <3>2
    <3> QED
      BY <2>6, <3>1, <3>2
  <2> QED
    BY <2>1, <2>7, <2>8 DEF MessRows
<1>6. MessRows(55, mess_padded, 1)
  <2> DEFINE ids == <<7>>
  <2>1. Len(ids) = 1 /\ \A i \in 1..1 : ids[i] = 7
    OBVIOUS
  <2>2. \A i \in 1..1 : ids[i] \in Nat \ {0}
    BY <2>1
  <2>3. \A i, j \in 1..1 : ids[i] = ids[j] => i = j
    BY <2>1
  <2>4. AnyOf("country") \subseteq Known(55)
    BY MessKnown
  <2>5. mess_padded = Probes(ids, AnyOf("country"))
    BY DEF mess_padded
  <2> HIDE DEF ids
  <2>6. 1 \in Nat /\ Len(ids) = 1
    BY <2>1
  <2>7. MessRows(55, Probes(ids, AnyOf("country")), 1)
    BY <2>2, <2>3, <2>4, <2>6, ProbeRows
  <2> QED
    BY <2>5, <2>7
<1>7. MessRows(56, mess_journal, 1)
  <2> DEFINE ids == <<1>>
  <2>1. Len(ids) = 1 /\ \A i \in 1..1 : ids[i] = 1
    OBVIOUS
  <2>2. \A i \in 1..1 : ids[i] \in Nat \ {0}
    BY <2>1
  <2>3. \A i, j \in 1..1 : ids[i] = ids[j] => i = j
    BY <2>1
  <2>4. To("gl_period", 1) \subseteq Known(56)
    BY MessKnown
  <2>5. mess_journal = Probes(ids, To("gl_period", 1))
    BY DEF mess_journal
  <2> HIDE DEF ids
  <2>6. 1 \in Nat /\ Len(ids) = 1
    BY <2>1
  <2>7. MessRows(56, Probes(ids, To("gl_period", 1)), 1)
    BY <2>2, <2>3, <2>4, <2>6, ProbeRows
  <2> QED
    BY <2>5, <2>7
<1> QED
  BY <1>1, <1>2, <1>3, <1>4, <1>5, <1>6, <1>7

(* The padded address is none of the others.                               *)
LEMMA PaddedApart == \A i \in 1..1 : mess_padded[i].key \notin KeysOf[50]
<1>1. mess_padded[1].key[1] = MESS_BASE + 7
  BY DEF mess_padded, Probes, Row
<1>2. Load[50].rows = mess_address
  BY Statements DEF Insert
<1>3. ASSUME NEW key \in KeysOf[50] PROVE key[1] \in (MESS_BASE + 1)..(MESS_BASE + 6)
  <2>1. PICK i \in DOMAIN mess_address : key = mess_address[i].key
    BY <1>2, KeysOfIs
  <2>2. i \in 1..6 /\ mess_address[i].key[1] = MESS_BASE + <<1, 2, 3, 4, 5, 6>>[i]
    BY MessBase DEF mess_address, Probes, Row
  <2>3. <<1, 2, 3, 4, 5, 6>>[i] \in 1..6
    BY <2>2
  <2> QED
    BY <2>1, <2>2, <2>3, MessBase
<1>4. \A i \in 1..1 : i = 1
  OBVIOUS
<1> QED
  BY <1>1, <1>3, <1>4, MessBase

(* The mess keeps the keys.                                                *)
LEMMA MessAllKept == \A p \in 50..56 : KeysAreOwn(p) /\ RefersBack(p)
<1>1. /\ "address" \in Messy /\ "customer" \in Messy /\ "sales_order" \in Messy
      /\ "gl_journal" \in Messy
      /\ "inventory_movement" \in Messy /\ "loyalty_transaction" \in Messy
  BY DEF Messy
<1>2. KeysAreOwn(50) /\ RefersBack(50)
  <2>1. \A q \in 50..(50 - 1) : FALSE
    OBVIOUS
  <2> QED
    BY <1>1, <2>1, Statements, MessyRows, MessKept
<1>3. KeysAreOwn(51) /\ RefersBack(51)
  <2>1. \A q \in 50..(51 - 1) : Load[q].table # "customer"
    BY MessTables
  <2> QED
    BY <1>1, <2>1, Statements, MessyRows, MessKept
<1>4. KeysAreOwn(52) /\ RefersBack(52)
  <2>1. \A q \in 50..(52 - 1) : Load[q].table # "sales_order"
    BY MessTables
  <2> QED
    BY <1>1, <2>1, Statements, MessyRows, MessKept
<1>5. KeysAreOwn(53) /\ RefersBack(53)
  <2>1. \A q \in 50..(53 - 1) : Load[q].table # "inventory_movement"
    BY MessTables
  <2> QED
    BY <1>1, <2>1, Statements, MessyRows, MessKept
<1>6. KeysAreOwn(54) /\ RefersBack(54)
  <2>1. \A q \in 50..(54 - 1) : Load[q].table # "loyalty_transaction"
    BY MessTables
  <2> QED
    BY <1>1, <2>1, Statements, MessyRows, MessKept
<1>7. KeysAreOwn(55) /\ RefersBack(55)
  <2>1. \A q \in 50..(55 - 1) : Load[q].table = "address" => q = 50
    BY MessTables
  <2>2. \A q \in 50..(55 - 1) : Load[q].table = "address" => \A i \in 1..1 : mess_padded[i].key \notin KeysOf[q]
    BY <2>1, PaddedApart
  <2> QED
    BY <1>1, <2>2, Statements, MessyRows, MessKept
<1>8. KeysAreOwn(56) /\ RefersBack(56)
  <2>1. \A q \in 50..(56 - 1) : Load[q].table # "gl_journal"
    BY MessTables
  <2> QED
    BY <1>1, <2>1, Statements, MessyRows, MessKept
<1> QED
  BY <1>2, <1>3, <1>4, <1>5, <1>6, <1>7, <1>8

-----------------------------------------------------------------------------
(* Journals balance                                                        *)

(* The recursion of Total, one step at a time.                             *)
LEMMA Unrolled ==
  ASSUME NEW f, NEW n \in Nat, Len(f) = n, NEW g,
         NEW h, h = [l \in 0..n |-> IF l = 0 THEN 0 ELSE g[l - 1] + f[l]], g = h
  PROVE  g[0] = 0 /\ \A l \in 1..n : g[l] = g[l - 1] + f[l]
<1>1. \A l \in 0..n : h[l] = IF l = 0 THEN 0 ELSE g[l - 1] + f[l]
  OBVIOUS
<1> QED
  BY ONLY <1>1, n \in Nat, g = h

(* g adds up the amounts.                                                  *)
Summed(f, n, g) == g[0] = 0 /\ \A l \in 1..n : g[l] = g[l - 1] + f[l]

(* Total is what any such sum comes to: the recursion is well defined      *)
(* because some function satisfies it.                                     *)
LEMMA TotalIs ==
  ASSUME NEW f, NEW n \in Nat, Len(f) = n, NEW w \in [0..n -> Int], Summed(f, n, w)
  PROVE  \E g : Summed(f, n, g) /\ g[n] = Total(f)
<1> DEFINE Sums(g) == g = [l \in 0..Len(f) |-> IF l = 0 THEN 0 ELSE g[l - 1] + f[l]]
           sum == CHOOSE g : Sums(g)
           v == [l \in 0..n |-> IF l = 0 THEN 0 ELSE w[l - 1] + f[l]]
<1>1. Total(f) = sum[Len(f)]
  BY DEF Total
<1>2. w = v
  <2>1. ASSUME NEW l \in 0..n PROVE v[l] = w[l]
    BY DEF Summed
  <2> QED
    BY <2>1
<1>3. Sums(w)
  BY <1>2, Zenon
<1>4. Sums(sum)
  <2> HIDE DEF Sums
  <2> QED
    BY <1>3
<1>5. PICK h : h = [l \in 0..n |-> IF l = 0 THEN 0 ELSE sum[l - 1] + f[l]]
  OBVIOUS
<1>6. sum = h
  BY <1>4, <1>5, Zenon
<1> HIDE DEF sum, Sums
<1>7. Summed(f, n, sum)
  BY <1>5, <1>6, Unrolled DEF Summed
<1> QED
  BY <1>1, <1>7

(* Two amounts.                                                            *)
LEMMA TotalOfTwo ==
  ASSUME NEW f, Len(f) = 2, f[1] \in Int, f[2] \in Int
  PROVE  Total(f) = f[1] + f[2]
<1> DEFINE w == [l \in 0..2 |-> IF l = 0 THEN 0 ELSE IF l = 1 THEN f[1] ELSE f[1] + f[2]]
<1>1. w \in [0..2 -> Int] /\ w[0] = 0 /\ w[1] = f[1] /\ w[2] = f[1] + f[2]
  OBVIOUS
<1> HIDE DEF w
<1>2. Summed(f, 2, w)
  <2> SUFFICES ASSUME NEW l \in 1..2 PROVE w[l] = w[l - 1] + f[l]
    BY <1>1 DEF Summed
  <2>1. l = 1 \/ l = 2
    OBVIOUS
  <2> QED
    BY <1>1, <2>1
<1>3. PICK g : Summed(f, 2, g) /\ g[2] = Total(f)
  BY <1>1, <1>2, TotalIs
<1>4. g[0] = 0 /\ g[1] = g[0] + f[1] /\ g[2] = g[1] + f[2]
  BY <1>3 DEF Summed
<1> QED
  BY <1>3, <1>4

(* Three amounts.                                                          *)
LEMMA TotalOfThree ==
  ASSUME NEW f, Len(f) = 3, f[1] \in Int, f[2] \in Int, f[3] \in Int
  PROVE  Total(f) = f[1] + f[2] + f[3]
<1> DEFINE w == [l \in 0..3 |-> IF l = 0 THEN 0 ELSE IF l = 1 THEN f[1]
                                ELSE IF l = 2 THEN f[1] + f[2] ELSE f[1] + f[2] + f[3]]
<1>1. /\ w \in [0..3 -> Int] /\ w[0] = 0 /\ w[1] = f[1] /\ w[2] = f[1] + f[2]
      /\ w[3] = f[1] + f[2] + f[3]
  OBVIOUS
<1> HIDE DEF w
<1>2. Summed(f, 3, w)
  <2> SUFFICES ASSUME NEW l \in 1..3 PROVE w[l] = w[l - 1] + f[l]
    BY <1>1 DEF Summed
  <2>1. l = 1 \/ l = 2 \/ l = 3
    OBVIOUS
  <2> QED
    BY <1>1, <2>1
<1>3. PICK g : Summed(f, 3, g) /\ g[3] = Total(f)
  BY <1>1, <1>2, TotalIs
<1>4. g[0] = 0 /\ g[1] = g[0] + f[1] /\ g[2] = g[1] + f[2] /\ g[3] = g[2] + f[3]
  BY <1>3 DEF Summed
<1> QED
  BY <1>3, <1>4

(* Every scale has three lines a journal.                                  *)
LEMMA ThreeLines == LinesPerJournal = 3 /\ CanBalance
<1>1. \A n \in Nat \ {0} : (3 * n) \div n = 3 /\ (3 * n) % n = 0
  <2> SUFFICES ASSUME NEW n \in Nat \ {0} PROVE (3 * n) \div n = 3 /\ (3 * n) % n = 0
    OBVIOUS
  <2> DEFINE q == (3 * n) \div n  s == (3 * n) % n
  <2>1. q \in Int /\ s \in 0..(n - 1) /\ 3 * n = q * n + s
    OBVIOUS
  <2> HIDE DEF q, s
  <2>2. ~(q < 3)
    <3>1. q < 3 => (q + 1) * n <= 3 * n
      BY <2>1
    <3>2. (q + 1) * n = q * n + n
      BY <2>1
    <3> QED
      BY <2>1, <3>1, <3>2
  <2>3. ~(3 < q)
    <3>1. 3 < q => 4 * n <= q * n
      BY <2>1
    <3> QED
      BY <2>1, <3>1
  <2>4. q = 3
    BY <2>1, <2>2, <2>3
  <2> QED
    BY <2>1, <2>4 DEF q, s
<1>2. Planned.gl_journal \in Nat \ {0} /\ Planned.gl_journal_line = 3 * Planned.gl_journal
  BY Sizes
<1> QED
  BY <1>1, <1>2 DEF LinesPerJournal, CanBalance

(* They are all written.                                                   *)
LEMMA JournalLines ==
  ASSUME NEW j \in 1..Planned.gl_journal, NEW l \in 1..3
  PROVE  <<j, l>> \in KeysOf[49]
<1>1. "gl_journal" \in Numbered
  BY DEF Numbered
<1>2. /\ Planned.gl_journal_line \in Nat \ {0} /\ Planned.gl_journal_line >= 3 * Planned.gl_journal
  BY Sizes
<1>3. PICK r \in 1..Planned.gl_journal_line : LineOf("gl_journal", r) = <<j, l>>
  BY <1>1, <1>2, LinesThere
<1>4. gl_journal_line = [i \in 1..Planned.gl_journal_line |->
        Row(LineOf("gl_journal", i),
            Cycle("gl_journal", i - 1) \cup Cycle("store", i - 1) \cup To("gl_account", Leaf((i * 7) % 100)))]
  BY <1>2, BulkIs DEF gl_journal_line
<1>5. r \in DOMAIN gl_journal_line /\ gl_journal_line[r].key = <<j, l>>
  BY <1>3, <1>4 DEF Row
<1>6. Load[49].rows = gl_journal_line
  BY Statements DEF Insert
<1> QED
  BY <1>5, <1>6, KeysIn

(* The last line offsets the others, on the other side.                    *)
LEMMA JournalsBalance == Balances(49)
<1> SUFFICES ASSUME NEW j \in 1..Planned.gl_journal
             PROVE  Side(49, j, TRUE) = Side(49, j, FALSE)
  BY ThreeLines DEF Balances
<1>1. j \in Nat
  BY Sizes
<1> DEFINE a == Amount(j, 1)  b == Amount(j, 2)  odd == j % 2 = 1
<1>2. a \in Int /\ b \in Int
  BY <1>1 DEF Amount
<1>3. LineAmount(j, 1) = a /\ LineAmount(j, 2) = b
  BY ThreeLines DEF LineAmount
<1>4. LineAmount(j, 3) = a + b
  <2> DEFINE f == [k \in 1..2 |-> Amount(j, k)]
  <2>1. Len(f) = 2 /\ f[1] = a /\ f[2] = b
    OBVIOUS
  <2>2. LineAmount(j, 3) = Total(f)
    BY ThreeLines DEF LineAmount
  <2> HIDE DEF f, a, b
  <2> QED
    BY <1>2, <2>1, <2>2, TotalOfTwo
<1>5. (OnDebit(j, 1) <=> odd) /\ (OnDebit(j, 2) <=> odd) /\ (OnDebit(j, 3) <=> ~odd)
  BY ThreeLines DEF OnDebit
<1> HIDE DEF a, b, odd
<1>6. ASSUME NEW debit \in BOOLEAN
      PROVE  Side(49, j, debit) = a + b
  <2> DEFINE f == [l \in 1..3 |-> IF <<j, l>> \in KeysOf[49] /\ OnDebit(j, l) = debit
                                  THEN LineAmount(j, l) ELSE 0]
  <2>1. Side(49, j, debit) = Total(f)
    BY ThreeLines DEF Side
  <2>2. \A l \in 1..3 : OnDebit(j, l) \in BOOLEAN
    BY DEF OnDebit
  <2>3. Len(f) = 3 /\ \A l \in 1..3 : f[l] = IF OnDebit(j, l) = debit THEN LineAmount(j, l) ELSE 0
    BY JournalLines
  <2> HIDE DEF f
  <2>4. f[1] = IF OnDebit(j, 1) = debit THEN LineAmount(j, 1) ELSE 0
    BY <2>3
  <2>5. f[2] = IF OnDebit(j, 2) = debit THEN LineAmount(j, 2) ELSE 0
    BY <2>3
  <2>6. f[3] = IF OnDebit(j, 3) = debit THEN LineAmount(j, 3) ELSE 0
    BY <2>3
  <2>7. f[1] + f[2] + f[3] = a + b /\ f[1] \in Int /\ f[2] \in Int /\ f[3] \in Int
    <3>1. /\ OnDebit(j, 1) \in BOOLEAN /\ OnDebit(j, 2) \in BOOLEAN /\ OnDebit(j, 3) \in BOOLEAN
          /\ odd \in BOOLEAN
      BY <2>2 DEF odd
    <3>2. CASE odd /\ debit = TRUE
      <4>1. OnDebit(j, 1) = debit /\ OnDebit(j, 2) = debit /\ OnDebit(j, 3) # debit
        BY <1>5, <3>1, <3>2
      <4>2. f[1] = a /\ f[2] = b /\ f[3] = 0
        BY <1>3, <2>4, <2>5, <2>6, <4>1
      <4> QED
        BY <1>2, <4>2
    <3>3. CASE odd /\ debit = FALSE
      <4>1. OnDebit(j, 1) # debit /\ OnDebit(j, 2) # debit /\ OnDebit(j, 3) = debit
        BY <1>5, <3>1, <3>3
      <4>2. f[1] = 0 /\ f[2] = 0 /\ f[3] = a + b
        BY <1>4, <2>4, <2>5, <2>6, <4>1
      <4> QED
        BY <1>2, <4>2
    <3>4. CASE ~odd /\ debit = TRUE
      <4>1. OnDebit(j, 1) # debit /\ OnDebit(j, 2) # debit /\ OnDebit(j, 3) = debit
        BY <1>5, <3>1, <3>4
      <4>2. f[1] = 0 /\ f[2] = 0 /\ f[3] = a + b
        BY <1>4, <2>4, <2>5, <2>6, <4>1
      <4> QED
        BY <1>2, <4>2
    <3>5. CASE ~odd /\ debit = FALSE
      <4>1. OnDebit(j, 1) = debit /\ OnDebit(j, 2) = debit /\ OnDebit(j, 3) # debit
        BY <1>5, <3>1, <3>5
      <4>2. f[1] = a /\ f[2] = b /\ f[3] = 0
        BY <1>3, <2>4, <2>5, <2>6, <4>1
      <4> QED
        BY <1>2, <4>2
    <3> QED
      BY <3>2, <3>3, <3>4, <3>5
  <2> QED
    BY <2>1, <2>3, <2>7, TotalOfThree
<1> QED
  BY <1>6

(* No statement breaks a key.                                              *)
LEMMA EveryStatementKeeps == \A p \in 1..56 : KeysAreOwn(p) /\ RefersBack(p) /\ Balances(p)
<1>1. ASSUME NEW p \in Inserting PROVE KeysAreOwn(p) /\ RefersBack(p)
  <2>1. p \in 1..56 /\ Right(p)
    BY Inserts DEF Inserting
  <2>2. Planned[Load[p].table] \in Nat
    <3>1. Len(Load[p].rows) = Planned[Load[p].table]
      BY <2>1 DEF Right, Sound
    <3>2. \A table \in DOMAIN Place : Planned[table] \in Nat
      BY Sizes DEF Place
    <3>3. Load[p].table \in DOMAIN Place
      BY <2>1 DEF Load, Insert, Update, Place
    <3> QED
      BY <3>2, <3>3
  <2> QED
    BY <2>1, <2>2, InsertKept
<1>2. \A p \in 1..56 : p \in Inserting \/ p \in {17, 18, 24} \/ p \in 50..56
  BY DEF Inserting
<1>3. \A p \in 1..56 : KeysAreOwn(p) /\ RefersBack(p)
  BY <1>1, <1>2, ManagersKept, OwnersKept, MessAllKept
<1>4. \A p \in 1..56 : Balances(p)
  BY NoBalance, JournalsBalance
<1> QED
  BY <1>3, <1>4

(* generate-data.py, at every scale: after every statement of the load,    *)
(* the rows just written are as many as planned under keys of their own    *)
(* that nothing had taken, refer to rows of earlier statements or to       *)
(* earlier rows of their own, an UPDATE has met the rows it changes, and   *)
(* the lines of every journal balance.                                     *)
THEOREM SeedLoadKeepsKeys == SeedSpec => []SeedKeepsKeys
<1> DEFINE Within == written \in 0..56
<1>1. WriteInit => Within
  BY DEF WriteInit
<1>2. Within /\ [WriteStatement]_written => Within'
  BY LoadIs DEF WriteStatement
<1>3. Within => SeedKeepsKeys
  <2> SUFFICES ASSUME Within, written > 0
               PROVE  KeysAreOwn(written) /\ RefersBack(written) /\ Balances(written)
    BY DEF SeedKeepsKeys
  <2>1. written \in 1..56
    OBVIOUS
  <2> QED
    BY <2>1, EveryStatementKeeps
<1> QED
  BY <1>1, <1>2, <1>3, PTL DEF SeedSpec
=============================================================================
