---------------------------- MODULE ValueMapping ----------------------------
(***************************************************************************)
(* How one value of an Oracle row becomes a value of a PostgreSQL column   *)
(* (data_loader.py).  encode_field shapes the decoded value for the type   *)
(* of the column, _transport wraps what JSON would confuse, _json_encode   *)
(* writes the batch, and the INSERT makes the column's value of it: as a   *)
(* field of json_to_recordset, or through _project_sql when the type has a *)
(* json leaf anywhere.  The trouble is null: a column without a value, a   *)
(* JSON document that says null, and a member that is absent are three     *)
(* things, and each layer has one word for them.                           *)
(*                                                                         *)
(* Values are records with a tag `is'.  Numbers, texts and bytes stand for *)
(* themselves: which digits they have is not at stake.                     *)
(***************************************************************************)
EXTENDS LoadPlan

RECURSIVE Encode(_, _), PlainJson(_), ContainsJson(_), Transport(_, _),
          Serializable(_), Written(_), Project(_, _), Recordset(_, _)

Null == [is |-> "null"]
JsonNull == [is |-> "JSON_NULL"]              \* the sentinel of encode_field
Blocked == [is |-> "blocked"]                 \* MappingBlocker
Item(kind, x) == [is |-> kind, x |-> x]       \* text, number, bytes, bool
Dict(at) == [is |-> "dict", at |-> at]        \* an object, by attribute
List(of) == [is |-> "list", of |-> of]        \* a collection

\* Types: [kind: "scalar", name], [kind: "domain", base],
\* [kind: "array", element], [kind: "composite", fields] with fields a
\* function from names to types.

AllOf(members, result) ==
  IF \E m \in members : m.is = "blocked" THEN Blocked ELSE result
Members(s) == {s[i] : i \in DOMAIN s}
Values(f) == {f[x] : x \in DOMAIN f}

(***************************************************************************)
(* encode_field.                                                           *)
(***************************************************************************)
PlainJson(v) ==     \* _to_plain_json
  CASE v.is = "bytes" -> Item("text", v.x)
    [] v.is = "list" -> List([i \in DOMAIN v.of |-> PlainJson(v.of[i])])
    [] v.is = "dict" -> Dict([a \in DOMAIN v.at |-> PlainJson(v.at[a])])
    [] OTHER -> v

\* A text of a json column is parsed: `null' is a document of its own.
Parsed(v) == CASE v.x = "null" -> JsonNull
               [] v.x = "not json" -> Blocked
               [] OTHER -> v

EncodeScalar(v, name) ==
  CASE name = "json" -> IF v.is = "text" THEN Parsed(v) ELSE PlainJson(v)
    [] v.is \in {"dict", "list"} -> Blocked
    [] name = "bytea" -> IF v.is = "bytes" THEN Item("text", v.x) ELSE Blocked
    [] name = "bool" -> IF v.is = "number" THEN Item("text", IF v.x # "0" THEN "true" ELSE "false")
                        ELSE Item("text", v.x)
    [] OTHER -> IF v.is = "number" THEN Item("text", v.x) ELSE v

Encode(v, t) ==
  IF v = Null THEN Null
  ELSE CASE t.kind = "domain" -> Encode(v, t.base)
         [] t.kind = "array" ->
              IF v.is # "list" THEN Blocked
              ELSE LET of == [i \in DOMAIN v.of |-> Encode(v.of[i], t.element)]
                   IN AllOf(Members(of), List(of))
         [] t.kind = "composite" ->
              IF v.is # "dict" THEN Blocked
              ELSE LET From(f) == Resolved(f, DOMAIN v.at, Unmapped)
                       at == [f \in DOMAIN t.fields |->
                                IF From(f) = {} THEN Blocked
                                ELSE Encode(v.at[CHOOSE a \in From(f) : TRUE], t.fields[f])]
                   IN AllOf(Values(at), Dict(at))
         [] t.kind = "scalar" -> EncodeScalar(v, t.name)

(***************************************************************************)
(* _transport and _json_encode: the JSON text of a batch, as a tree.  Only *)
(* a json leaf of a column known to contain one is wrapped.                *)
(***************************************************************************)
\* Mutant: only a column that is json itself is known to contain json.
RECURSIVE ContainsJsonAtTop(_)
ContainsJsonAtTop(t) ==
  \/ t.kind = "scalar" /\ t.name = "json"
  \/ t.kind = "domain" /\ ContainsJsonAtTop(t.base)

ContainsJson(t) ==
  \/ t.kind = "scalar" /\ t.name = "json"
  \/ t.kind = "domain" /\ ContainsJson(t.base)
  \/ t.kind = "composite" /\ \E f \in DOMAIN t.fields : ContainsJson(t.fields[f])
  \/ t.kind = "array" /\ ContainsJson(t.element)

Wrap(e) == [is |-> "wrap", json |-> e] \* {"__loader_json_wrap__": x}

Transport(e, t) ==
  CASE t.kind = "domain" -> Transport(e, t.base)
    [] e = Null -> Null
    [] t.kind = "scalar" -> IF t.name = "json" THEN Wrap(IF e = JsonNull THEN Null ELSE e) ELSE e
    [] t.kind = "composite" -> Dict([f \in DOMAIN t.fields |-> Transport(e.at[f], t.fields[f])])
    [] t.kind = "array" -> List([i \in DOMAIN e.of |-> Transport(e.of[i], t.element)])

\* _json_encode raises for raw bytes and for numbers JSON has no word for.
Serializable(e) ==
  CASE e.is = "bytes" -> FALSE
    [] e.is = "number" -> e.x # "NaN"
    [] e.is = "list" -> \A m \in Members(e.of) : Serializable(m)
    [] e.is = "dict" -> \A m \in Values(e.at) : Serializable(m)
    [] e.is = "wrap" -> Serializable(e.json)
    [] OTHER -> TRUE

\* What is written: the sentinel, wherever it is left, becomes a bare null.
Written(e) ==
  CASE e = JsonNull -> Null
    [] e.is = "list" -> List([i \in DOMAIN e.of |-> Written(e.of[i])])
    [] e.is = "dict" -> Dict([a \in DOMAIN e.at |-> Written(e.at[a])])
    [] e.is = "wrap" -> Wrap(Written(e.json))
    [] OTHER -> e

(***************************************************************************)
(* The server's side: a typed field of json_to_recordset takes JSON null   *)
(* for SQL NULL at every level; _project_sql unwraps json leaves.          *)
(***************************************************************************)
Document(j) == [is |-> "document", json |-> j] \* a json value in the table

Recordset(j, t) ==
  CASE t.kind = "domain" -> Recordset(j, t.base)
    [] j = Null -> Null
    [] t.kind = "composite" -> Dict([f \in DOMAIN t.fields |-> Recordset(j.at[f], t.fields[f])])
    [] t.kind = "array" -> List([i \in DOMAIN j.of |-> Recordset(j.of[i], t.element)])
    [] t.kind = "scalar" -> IF t.name = "json" THEN Document(j) ELSE j

Project(j, t) ==
  CASE t.kind = "domain" -> Project(j, t.base)
    [] t.kind = "scalar" -> IF t.name # "json" THEN j
                            ELSE IF j.is = "wrap" THEN Document(j.json) ELSE Null
    [] j = Null -> Null
    [] t.kind = "composite" -> Dict([f \in DOMAIN t.fields |-> Project(j.at[f], t.fields[f])])
    [] t.kind = "array" -> List([i \in DOMAIN j.of |-> Project(j.of[i], t.element)])

\* _insert_table, for one value of one column.
Stored(v, t) ==
  LET e == Encode(v, t)
      sent == IF ContainsJson(t) THEN Transport(e, t) ELSE e
  IN IF e.is = "blocked" \/ ~Serializable(sent) THEN Blocked
     ELSE IF ContainsJson(t) THEN Project(Written(sent), t) ELSE Recordset(Written(sent), t)
=============================================================================
