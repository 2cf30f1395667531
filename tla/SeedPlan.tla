------------------------------ MODULE SeedPlan ------------------------------
(***************************************************************************)
(* What the seed-data generator writes (tools/generate-data.py): the       *)
(* statements of the load in file order, and for every row its key and the *)
(* rows it refers to.  A row is known by its number r; the generated block *)
(* computes every key and reference from r alone, and everything else from *)
(* a pseudo-random sequence, which is left out: where it decides whether a *)
(* reference is there at all, the reference is taken to be there.          *)
(* Countries, tiers, carriers and reasons are known by their place in      *)
(* their list; currencies, and the dates, names and amounts that nothing   *)
(* refers to, are left out.                                                *)
(***************************************************************************)
EXTENDS Integers, Sequences, SequencesExt

CONSTANT Scale  \* --scale: small, medium or large

ScaleFactor == [small |-> 1, medium |-> 40, large |-> 200]
BatchSize == [small |-> 2000, medium |-> 5000, large |-> 10000]
ASSUME ScaleAssumption == Scale \in {"small", "medium", "large"}

Fixed == [currency |-> 24, country |-> 40, exchange_rate |-> 2920, calendar_day |-> 1096,
          tax_rate |-> 160, region |-> 525, warehouse |-> 120, product_category |-> 246,
          loyalty_tier |-> 5, carrier |-> 12, return_reason |-> 24, gl_account |-> 180,
          gl_period |-> 36, app_parameter |-> 40, price_list |-> 48, promotion |-> 60]

Scalable == [address |-> 1200, store |-> 140, employee |-> 420, brand |-> 60, product |-> 1100,
             product_variant |-> 2400, supplier |-> 120, supplier_product |-> 1600,
             customer |-> 2000, customer_address |-> 2400, loyalty_account |-> 1400,
             loyalty_transaction |-> 2800, price_list_item |-> 2000, promotion_product |-> 300,
             coupon |-> 600, sales_order |-> 2400, sales_order_line |-> 5600,
             order_payment |-> 2600, shipment |-> 1600, shipment_line |-> 2800,
             inventory_location |-> 800, inventory_stock |-> 3200, inventory_movement |-> 4000,
             purchase_order |-> 600, purchase_order_line |-> 1800, goods_receipt |-> 1200,
             return_request |-> 280, return_line |-> 400, gl_journal |-> 800,
             gl_journal_line |-> 2400]

\* build_row_plan: Planned[table] rows are planned.
Planned == [t \in DOMAIN Fixed \cup DOMAIN Scalable |->
        IF t \in DOMAIN Fixed THEN Fixed[t] ELSE Scalable[t] * ScaleFactor[Scale]]

(***************************************************************************)
(* Rows.  `unique' is the other unique key of the table, where it has one  *)
(* that does not just spell r.                                             *)
(***************************************************************************)
Row(key, refs) == [key |-> key, unique |-> key, refs |-> refs]
RowBut(key, unique, refs) == [Row(key, refs) EXCEPT !.unique = unique]

To(table, id) == {<<table, <<id>>>>}
Cycle(table, k) == To(table, 1 + (k % Planned[table]))
AnyOf(table) == UNION {To(table, i) : i \in 1..Planned[table]}

\* bulk_block: batches of BatchSize rows, the last one shorter.
Bulk(rows) ==
  LET size == BatchSize[Scale]
      batch(b) == LET left == Len(rows) - b * size
                  IN [i \in 1..(IF left < size THEN left ELSE size) |-> rows[b * size + i]]
  IN FlattenSeq([b \in 1..(1 + (Len(rows) - 1) \div size) |-> batch(b - 1)])

Listed(table) == [r \in 1..Planned[table] |-> Row(<<r>>, {})]  \* spelled out in the source

(***************************************************************************)
(* 02 Reference data.                                                      *)
(***************************************************************************)
currency == Listed("currency")
country == Listed("country")
exchange_rate == Bulk([r \in 1..Planned.exchange_rate |-> Row(<<(r - 1) \div 4, (r - 1) % 4>>, {})])
calendar_day == Bulk([r \in 1..Planned.calendar_day |-> Row(<<r>>, {})])

tax_rate == Bulk([r \in 1..Planned.tax_rate |->
  LET ci == 1 + ((r - 1) % 40)
  IN RowBut(<<r>>, <<ci, 1 + (r - 1) \div 40>>, To("country", ci))])

loyalty_tier == Listed("loyalty_tier")
carrier == Listed("carrier")
return_reason == Listed("return_reason")
app_parameter == Listed("app_parameter")

\* An account: its code, and its parent's code without the last digit.
CodeOf(a, b, c, d) == a * 10000 + b * 1000 + c * 100 + d * 10

Roots == [j \in 1..5 |-> Row(<<CodeOf(j, 0, 0, 0)>>, {})]
Groups == [j \in 1..25 |->
  LET a == 1 + ((j - 1) % 5)
  IN Row(<<CodeOf(a, 1 + (j - 1) \div 5, 0, 0)>>, To("gl_account", CodeOf(a, 0, 0, 0)))]
Classes == [j \in 1..50 |->
  LET a == 1 + ((j - 1) % 5)  b == 1 + ((j - 1) % 25) \div 5
  IN Row(<<CodeOf(a, b, 1 + (j - 1) \div 25, 0)>>, To("gl_account", CodeOf(a, b, 0, 0)))]

\* A postable account by its number from 0; journal lines compute it again.
Leaf(x) == CodeOf(1 + (x % 5), 1 + ((x \div 5) % 5), 1 + ((x \div 25) % 2), 1 + ((x \div 50) % 2))
Postable == [j \in 1..100 |->
  LET code == Leaf(j - 1)
  IN Row(<<code>>, To("gl_account", code - (code % 100)))]
gl_account == Roots \o Groups \o Classes \o Postable

gl_period == [p \in 1..Planned.gl_period |->
  RowBut(<<p>>, <<2024 + (p - 1) \div 12, 1 + ((p - 1) % 12)>>, {})]

(***************************************************************************)
(* 03 Geography, 04 employees and the circular references.                 *)
(***************************************************************************)
\* A region's parent and country: GLOBAL, AREA, COUNTRY, DISTRICT, CLUSTER.
RegionRefs(r) ==
  CASE r = 1         -> To("country", 1)
    [] r \in 2..5    -> To("region", 1) \cup To("country", 1 + ((r - 2) % 40))
    [] r \in 6..45   -> To("region", 2 + ((r - 6) % 4)) \cup To("country", r - 5)
    [] r \in 46..165 -> LET p == (r - 46) % 40
                        IN To("region", 6 + p) \cup To("country", p + 1)
    [] r > 165       -> LET p == (r - 166) % 120
                        IN To("region", 46 + p) \cup To("country", 1 + (p % 40))
region == Bulk([r \in 1..Planned.region |-> Row(<<r>>, RegionRefs(r))])

address == Bulk([r \in 1..Planned.address |-> Row(<<r>>, Cycle("country", r - 1))])

warehouse == Bulk([r \in 1..Planned.warehouse |->
  Row(<<r>>, To("region", 5 + 1 + ((r - 1) % 40)) \cup Cycle("address", r - 1))])

store == Bulk([r \in 1..Planned.store |->
  Row(<<r>>, To("region", 166 + ((r - 1) % 360)) \cup Cycle("address", r * 7 - 1))])

employee == Bulk([r \in 1..Planned.employee |->
  LET managed == r \div (3 + (r % 3))
  IN Row(<<r>>,
         (IF r % 7 = 0 THEN {} ELSE Cycle("store", r - 1))
         \cup (IF r = 1 THEN {} ELSE To("employee", IF managed < 1 THEN 1 ELSE managed)))])

\* Two UPDATEs close the circle region -> employee -> store -> region.
region_manager == [i \in 1..(Planned.region - 5) |-> Row(<<i + 5>>, Cycle("employee", (i + 5) * 3))]
\* Every eighth store keeps no manager: id is the i-th of the others.
store_manager == [i \in 1..(Planned.store - Planned.store \div 8) |->
  LET id == i + (i - 1) \div 7
  IN Row(<<id>>, Cycle("employee", id * 5))]

(***************************************************************************)
(* 05 Catalogue, 06 suppliers.                                             *)
(***************************************************************************)
CategoryRefs(r) ==
  CASE r <= 6        -> {}
    [] r \in 7..30   -> To("product_category", 1 + ((r - 7) % 6))
    [] r \in 31..102 -> To("product_category", 7 + ((r - 31) % 24))
    [] r > 102       -> To("product_category", 31 + ((r - 103) % 72))
product_category == Bulk([r \in 1..Planned.product_category |-> Row(<<r>>, CategoryRefs(r))])

brand == Bulk([r \in 1..Planned.brand |-> Row(<<r>>, {})])

product == Bulk([r \in 1..Planned.product |->
  Row(<<r>>, To("product_category", 103 + ((r - 1) % 144)) \cup Cycle("brand", r - 1))])

\* Size and colour are made of the place of the variant within its product.
product_variant == Bulk([r \in 1..Planned.product_variant |->
  RowBut(<<r>>, <<1 + ((r - 1) % Planned.product), (r - 1) \div Planned.product>>, Cycle("product", r - 1))])

supplier == Bulk([r \in 1..Planned.supplier |-> Row(<<r>>, Cycle("address", r * 3 - 1))])

\* is_own_label is 'Y' on every fourth brand.
brand_owner == [i \in 1..(Planned.brand - Planned.brand \div 4) |->
  LET id == i + (i - 1) \div 3
  IN Row(<<id>>, Cycle("supplier", id * 3))]

\* Two tables whose pairs form a grid: the first cycles fastest.
Grid(rows, first, second, refs(_)) ==
  Bulk([r \in 1..rows |->
    LET a == 1 + ((r - 1) % Planned[first])  b == 1 + (((r - 1) \div Planned[first]) % Planned[second])
    IN Row(<<a, b>>, To(first, a) \cup To(second, b) \cup refs(r))])

supplier_product == Grid(Planned.supplier_product, "supplier", "product_variant", LAMBDA r : {})

(***************************************************************************)
(* 07 Customers and loyalty, 08 pricing.                                   *)
(***************************************************************************)
customer == Bulk([r \in 1..Planned.customer |->
  Row(<<r>>, Cycle("country", r - 1) \cup Cycle("store", r - 1) \cup Cycle("address", r * 5 - 1))])

customer_address == Bulk([r \in 1..Planned.customer_address |->
  LET seq == (r - 1) \div Planned.customer
      cust == 1 + ((r - 1) % Planned.customer)
      addr == 1 + ((cust * 3 + seq * 11) % Planned.address)
      type == IF seq < 3 THEN seq ELSE 3  \* HOME, WORK, BILLING, OTHER
  IN Row(<<cust, addr, type>>, To("customer", cust) \cup To("address", addr))])

loyalty_account == Bulk([r \in 1..Planned.loyalty_account |->
  Row(<<r>>, To("customer", r) \cup AnyOf("loyalty_tier"))])

\* The order of a transaction is no foreign key: orders are loaded later.
loyalty_transaction == Bulk([r \in 1..Planned.loyalty_transaction |->
  Row(<<r, (r - 1) % 5>>, Cycle("loyalty_account", r - 1))])

price_list == Bulk([r \in 1..Planned.price_list |-> Row(<<r>>, Cycle("country", r - 1))])

promotion == Bulk([r \in 1..Planned.promotion |-> Row(<<r>>, Cycle("country", r - 1))])

price_list_item == Grid(Planned.price_list_item, "price_list", "product_variant",
                        LAMBDA r : Cycle("tax_rate", r - 1))

promotion_product == Grid(Planned.promotion_product, "promotion", "product_variant", LAMBDA r : {})

coupon == Bulk([r \in 1..Planned.coupon |->
  Row(<<r>>, Cycle("promotion", r - 1) \cup (IF r % 3 = 0 THEN {} ELSE Cycle("customer", r - 1)))])

(***************************************************************************)
(* 09 Inventory, 10 orders and fulfilment.                                 *)
(***************************************************************************)
inventory_location ==
  LET roots == IF Planned.inventory_location < 4 THEN 1 ELSE Planned.inventory_location \div 4
  IN Bulk([r \in 1..Planned.inventory_location |->
       Row(<<r>>, Cycle(IF r % 2 = 0 THEN "warehouse" ELSE "store", r - 1)
                  \cup (IF r <= roots THEN {} ELSE To("inventory_location", 1 + (r % roots))))])

inventory_stock == Grid(Planned.inventory_stock, "inventory_location", "product_variant", LAMBDA r : {})

inventory_movement == Bulk([r \in 1..Planned.inventory_movement |->
  LET type == 1 + ((r - 1) % 7)  \* RECEIPT SALE RETURN TRANSFER ADJUST SHRINK COUNT
  IN Row(<<r>>, Cycle("product_variant", r - 1)
                \cup (IF type \in {2, 4, 6} THEN Cycle("inventory_location", r - 1) ELSE {})
                \cup (IF type \in {1, 3, 4, 5} THEN Cycle("inventory_location", r * 3 - 1) ELSE {}))])

sales_order == Bulk([r \in 1..Planned.sales_order |->
  Row(<<r>>, (UNION {Cycle(t, r - 1) : t \in {"customer", "store", "promotion", "coupon", "employee"}})
             \cup Cycle("address", r * 3 - 1) \cup Cycle("address", r * 7 - 1))])

\* The lines of a header table: header cycles fastest, so that every header
\* has its first line before any has its second.
HeaderOf(header, r) == 1 + ((r - 1) % Planned[header])
LineOf(header, r) == <<HeaderOf(header, r), 1 + (r - 1) \div Planned[header]>>

sales_order_line == Bulk([r \in 1..Planned.sales_order_line |->
  Row(LineOf("sales_order", r),
      Cycle("sales_order", r - 1) \cup Cycle("product_variant", r * 13 - 1)
      \cup Cycle("tax_rate", r - 1) \cup Cycle("inventory_location", r - 1))])

order_payment == Bulk([r \in 1..Planned.order_payment |-> Row(<<r>>, Cycle("sales_order", r - 1))])

shipment == Bulk([r \in 1..Planned.shipment |->
  Row(<<r>>, Cycle("sales_order", r - 1) \cup AnyOf("carrier")
             \cup Cycle("inventory_location", r * 2 - 1))])

\* Mutant: three lines of an order are taken to be there.
shipment_line_of_three == Bulk([r \in 1..Planned.shipment_line |->
  LET ship == HeaderOf("shipment", r)
  IN Row(LineOf("shipment", r),
         To("shipment", ship)
         \cup {<<"sales_order_line", <<HeaderOf("sales_order", ship), 1 + ((r - 1) % 3)>>>>})])

shipment_line == Bulk([r \in 1..Planned.shipment_line |->
  LET ship == HeaderOf("shipment", r)
  IN Row(LineOf("shipment", r),
         To("shipment", ship)
         \cup {<<"sales_order_line", <<HeaderOf("sales_order", ship), 1 + ((r - 1) % 2)>>>>})])

(***************************************************************************)
(* 11 Procurement, 12 returns, 13 finance.                                 *)
(***************************************************************************)
purchase_order == Bulk([r \in 1..Planned.purchase_order |->
  Row(<<r>>, Cycle("supplier", r - 1) \cup Cycle("warehouse", r - 1) \cup Cycle("employee", r - 1))])

purchase_order_line == Bulk([r \in 1..Planned.purchase_order_line |->
  Row(LineOf("purchase_order", r),
      Cycle("purchase_order", r - 1) \cup Cycle("product_variant", r * 11 - 1))])

goods_receipt == Bulk([r \in 1..Planned.goods_receipt |->
  LET po == HeaderOf("purchase_order", r)
  IN Row(<<r>>, {<<"purchase_order_line", <<po, 1 + ((r - 1) % 3)>>>>}
                \cup Cycle("warehouse", po - 1) \cup Cycle("employee", r - 1))])

return_request == Bulk([r \in 1..Planned.return_request |->
  Row(<<r>>, UNION {Cycle(t, r - 1) : t \in {"sales_order", "customer", "store", "employee"}})])

return_line == Bulk([r \in 1..Planned.return_line |->
  LET ret == HeaderOf("return_request", r)
  IN Row(LineOf("return_request", r),
         To("return_request", ret)
         \cup {<<"sales_order_line", <<HeaderOf("sales_order", ret), 1 + ((r - 1) % 2)>>>>}
         \cup Cycle("product_variant", r * 17 - 1) \cup AnyOf("return_reason"))])

gl_journal == Bulk([r \in 1..Planned.gl_journal |->
  Row(<<r>>, Cycle("gl_period", r - 1) \cup (IF r > 10 THEN To("gl_journal", r - 5) ELSE {}))])

\* ValueError: a journal line count that is no multiple of the journal count.
LinesPerJournal == Planned.gl_journal_line \div Planned.gl_journal
CanBalance == Planned.gl_journal_line % Planned.gl_journal = 0

\* Amounts in hundredths; 335761 is the factor 2654435761 modulo 900000.
Amount(j, l) == 100 + ((j * 335761 + l * 40503) % 900000)

\* The last line of a journal offsets the sum of the others.
Total(amounts) ==
  LET sum[l \in 0..Len(amounts)] == IF l = 0 THEN 0 ELSE sum[l - 1] + amounts[l]
  IN sum[Len(amounts)]
LineAmount(j, l) ==
  IF l < LinesPerJournal THEN Amount(j, l)
  ELSE Total([k \in 1..(LinesPerJournal - 1) |-> Amount(j, k)])
OnDebit(j, l) == (j % 2 = 1) <=> (l # LinesPerJournal)

gl_journal_line == Bulk([r \in 1..Planned.gl_journal_line |->
  Row(LineOf("gl_journal", r),
      Cycle("gl_journal", r - 1) \cup Cycle("store", r - 1) \cup To("gl_account", Leaf((r * 7) % 100)))])

(***************************************************************************)
(* 14 The deliberate mess, with keys from MESS_BASE on.  A row here refers *)
(* to the first rows of other tables.                                      *)
(***************************************************************************)
MESS_BASE == 900000000
Probes(ids, refs) == [i \in 1..Len(ids) |-> Row(<<MESS_BASE + ids[i]>>, refs)]

mess_address == Probes(<<1, 2, 3, 4, 5, 6>>, AnyOf("country"))
mess_customer == Probes(<<1, 2>> \o [i \in 1..10 |-> 99 + i], AnyOf("country"))
mess_order == Probes([i \in 1..6 |-> 199 + i], To("store", 1))
mess_movement == Probes(<<1, 2, 3, 4>>, To("product_variant", 1))
mess_loyalty == <<Row(<<MESS_BASE + 1, 1>>, To("loyalty_account", 1)),
                  Row(<<MESS_BASE + 2, 3>>, To("loyalty_account", 1))>>
mess_padded == Probes(<<7>>, AnyOf("country"))
mess_journal == Probes(<<1>>, To("gl_period", 1))

(***************************************************************************)
(* The load: what each statement writes, in the order of the files.        *)
(***************************************************************************)
Insert(table, rows) == [table |-> table, update |-> FALSE, rows |-> rows]
Update(table, rows) == [table |-> table, update |-> TRUE, rows |-> rows]

Load == <<
  Insert("currency", currency), Insert("country", country), Insert("exchange_rate", exchange_rate),
  Insert("calendar_day", calendar_day), Insert("tax_rate", tax_rate),
  Insert("loyalty_tier", loyalty_tier), Insert("carrier", carrier),
  Insert("return_reason", return_reason), Insert("app_parameter", app_parameter),
  Insert("gl_account", gl_account), Insert("gl_period", gl_period),
  Insert("region", region), Insert("address", address), Insert("warehouse", warehouse),
  Insert("store", store), Insert("employee", employee),
  Update("region", region_manager), Update("store", store_manager),
  Insert("product_category", product_category), Insert("brand", brand),
  Insert("product", product), Insert("product_variant", product_variant),
  Insert("supplier", supplier), Update("brand", brand_owner),
  Insert("supplier_product", supplier_product),
  Insert("customer", customer), Insert("customer_address", customer_address),
  Insert("loyalty_account", loyalty_account), Insert("loyalty_transaction", loyalty_transaction),
  Insert("price_list", price_list), Insert("promotion", promotion),
  Insert("price_list_item", price_list_item), Insert("promotion_product", promotion_product),
  Insert("coupon", coupon),
  Insert("inventory_location", inventory_location), Insert("inventory_stock", inventory_stock),
  Insert("inventory_movement", inventory_movement),
  Insert("sales_order", sales_order), Insert("sales_order_line", sales_order_line),
  Insert("order_payment", order_payment), Insert("shipment", shipment),
  Insert("shipment_line", shipment_line),
  Insert("purchase_order", purchase_order), Insert("purchase_order_line", purchase_order_line),
  Insert("goods_receipt", goods_receipt),
  Insert("return_request", return_request), Insert("return_line", return_line),
  Insert("gl_journal", gl_journal), Insert("gl_journal_line", gl_journal_line),
  Insert("address", mess_address), Insert("customer", mess_customer),
  Insert("sales_order", mess_order), Insert("inventory_movement", mess_movement),
  Insert("loyalty_transaction", mess_loyalty), Insert("address", mess_padded),
  Insert("gl_journal", mess_journal)>>

(***************************************************************************)
(* The files are run one statement after the other.                        *)
(***************************************************************************)
VARIABLE written  \* statements of the load that have been run

WriteInit == written = 0
WriteStatement == written < Len(Load) /\ written' = written + 1
SeedSpec == WriteInit /\ [][WriteStatement]_written

(***************************************************************************)
(* Properties.                                                             *)
(***************************************************************************)
KeysOf == [p \in DOMAIN Load |-> {Load[p].rows[i].key : i \in DOMAIN Load[p].rows}]
Earlier(p, table) == {q \in 1..(p - 1) : Load[q].table = table}
Present(p, table, key) == \E q \in Earlier(p, table) : key \in KeysOf[q]

(* As many rows as are planned, each under keys of its own that nothing    *)
(* has taken; an UPDATE meets the rows it changes.                         *)
KeysAreOwn(p) ==
  LET rows == Load[p].rows  table == Load[p].table
  IN /\ Earlier(p, table) = {} => Len(rows) = Planned[table]
     /\ \A keys \in {KeysOf[p], {rows[i].unique : i \in DOMAIN rows}} :
          Cardinality(keys) = Len(rows)
     /\ \A key \in KeysOf[p] : Present(p, table, key) = Load[p].update

(* A row refers to rows of earlier statements or to earlier rows of its own. *)
Meets(p, i, ref) ==
  \/ Present(p, ref[1], ref[2])
  \/ ref[1] = Load[p].table /\ \E j \in 1..i : Load[p].rows[j].key = ref[2]
RefersBack(p) == \A i \in DOMAIN Load[p].rows : \A ref \in Load[p].rows[i].refs : Meets(p, i, ref)

(* What the lines of a journal come to on one side.                        *)
Side(p, j, debit) ==
  Total([l \in 1..LinesPerJournal |->
    IF <<j, l>> \in KeysOf[p] /\ OnDebit(j, l) = debit THEN LineAmount(j, l) ELSE 0])
Balances(p) ==
  Load[p].table = "gl_journal_line" =>
    CanBalance /\ \A j \in 1..Planned.gl_journal : Side(p, j, TRUE) = Side(p, j, FALSE)

(* generate-data.py: the seed load never breaks a key.  Each statement     *)
(* writes the planned rows with keys of their own, none of them taken; a   *)
(* row refers only to rows of earlier statements or to earlier rows of its *)
(* own; an UPDATE meets the rows it changes; the lines of every journal    *)
(* balance.                                                                *)
SeedKeepsKeys ==
  written > 0 => KeysAreOwn(written) /\ RefersBack(written) /\ Balances(written)
=============================================================================
