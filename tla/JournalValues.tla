--------------------------- MODULE JournalValues ---------------------------
(***************************************************************************)
(* Contract states for the instances of EventStore: JSON values with       *)
(* objects, arrays and primitives, and what the journal's default diff,    *)
(* applier and redactions (JsonPatch) make of them.                        *)
(***************************************************************************)
EXTENDS Integers, Sequences, TLC

J == INSTANCE JsonPatch

V(x) == J!Val(x)
Rec(x) == J!Obj([id |-> V(x), secret |-> V("s")])

\* The document that the event at each height leaves: values that change, arrays
\* that grow, shrink by two and change inside, keys that come and go, a value
\* that becomes a container.
Documents ==
  << [name |-> V("a")],
     [name |-> V("b"), items |-> J!Arr(<< Rec("x") >>)],
     [name |-> V("b"), items |-> J!Arr(<< Rec("x"), Rec("y"), Rec("z") >>)],
     [items |-> J!Arr(<< Rec("y") >>), keys |-> J!Obj([x |-> V("1")])],
     [items |-> J!Obj([x |-> V("2")]), keys |-> J!Obj([y |-> V("1")])],
     [name |-> J!Null, items |-> J!Arr(<<>>)] >>

Pending == [_volatile |-> J!Obj([pendingKeyRevocations |-> V("k")])]

Clean == {J!Obj(Documents[i]) : i \in 1 .. Len(Documents)}
         \cup {J!Obj([name |-> V("none")])}
Marked(s) == J!Obj(Pending @@ s.obj)
Plain == Clean \cup {Marked(s) : s \in Clean}

Redactions ==
  << [path |-> <<"items", "*", "secret">>, redact |-> "mask"],
     [path |-> <<"items", "x">>, redact |-> "throws"],
     [path |-> <<"absent", "x">>, redact |-> "throws"] >>
Redacted(s) == J!applyRedactions(s, Redactions)

(***************************************************************************)
(* A state is its place in Values and a patch the two places it was made   *)
(* from; what the JSON functions make of them is tabulated once.           *)
(***************************************************************************)
Values ==
  J!FoldSet(LAMBDA v, s : Append(s, v), <<>>, Plain \cup {Redacted(s) : s \in Plain})
N == Len(Values)
\* SubSeq makes TLC evaluate the table at once.
Table(f(_)) == SubSeq([i \in 1 .. N |-> f(i)], 1, N)
Place(v) ==
  LET at == {i \in 1 .. N : Values[i] = v}
  IN  IF at = {} THEN 0 ELSE CHOOSE i \in at : TRUE

PatchOf == Table(LAMBDA b : Table(LAMBDA a : J!defaultDiff(Values[b], Values[a])))
RedactedAt == Table(LAMBDA s : Place(Redacted(Values[s])))
MarkedAt == Table(LAMBDA s :
  IF Values[s] \in Clean THEN Place(Marked(Values[s])) ELSE s)
Unmarked == Table(LAMBDA s : "_volatile" \notin DOMAIN Values[s].obj)
DocAt == Table(LAMBDA i :
  IF i <= Len(Documents) THEN Place(J!Obj(Documents[i])) ELSE 0)
=============================================================================
