----------------------------- MODULE JsonPatch -----------------------------
(***************************************************************************)
(* The journal's default diff, its applier and its redactions              *)
(* (src/src/journal.ts): pure functions over JSON values, checked, never   *)
(* proved about.  A JSON value is [obj |-> f] with f a function from keys, *)
(* [arr |-> s] with s a sequence, or [val |-> v] with v a primitive.  A    *)
(* path is the sequence of its segments: the escaping of JSON pointers is  *)
(* a bijection and is left out, as are the token "-" and malformed ops,    *)
(* which the differ never produces.                                        *)
(***************************************************************************)
EXTENDS Integers, Sequences, SequencesExt

LOCAL INSTANCE Functions

Obj(f) == [obj |-> f]
Arr(s) == [arr |-> s]
Val(v) == [val |-> v]
Undefined == [undefined |-> TRUE]
Null == Val("null")
Unpatchable == [corrupt |-> TRUE]   \* what a throwing applier leaves

IsObj(j) == "obj" \in DOMAIN j
IsArr(j) == "arr" \in DOMAIN j
Keys(j) == DOMAIN j.obj
Least(a, b) == IF a < b THEN a ELSE b

Without(f, k) == Restrict(f, DOMAIN f \ {k})
With(f, k, v) == (k :> v) @@ f

\* The segments of a path: an array's index, an object's key.
At(i) == [index |-> i]
Named(k) == [key |-> k]

Added(path, v) == [op |-> "add", path |-> path, value |-> v]
Replaced(path, v) == [op |-> "replace", path |-> path, value |-> v]
Removed(path) == [op |-> "remove", path |-> path, value |-> Undefined]

(***************************************************************************)
(* defaultDiff.                                                            *)
(***************************************************************************)
Concat(S, part(_)) == FoldSet(LAMBDA k, ops : ops \o part(k), <<>>, S)

RECURSIVE DiffInto(_, _, _)
DiffArr(b, a, path) ==
  LET common == Least(Len(b), Len(a)) IN
    FlattenSeq([i \in 1 .. common |-> DiffInto(b[i], a[i], Append(path, At(i)))])
    \o [i \in 1 .. Len(a) - common |->
          Added(Append(path, At(common + i)), a[common + i])]
    \o [i \in 1 .. Len(b) - common |-> Removed(Append(path, At(Len(b) + 1 - i)))]

DiffObj(b, a, path) ==
  Concat(DOMAIN b \ DOMAIN a, LAMBDA k : << Removed(Append(path, Named(k))) >>)
  \o Concat(DOMAIN a, LAMBDA k :
       IF k \in DOMAIN b THEN DiffInto(b[k], a[k], Append(path, Named(k)))
                         ELSE << Added(Append(path, Named(k)), a[k]) >>)

DiffInto(b, a, path) ==
  CASE b = a -> <<>>
    [] b = Undefined /\ a # Undefined -> << Added(path, a) >>
    [] a = Undefined /\ b # Undefined ->
         IF path = <<>> THEN << Replaced(path, Null) >> ELSE << Removed(path) >>
    [] IsArr(b) /\ IsArr(a) /\ b # a -> DiffArr(b.arr, a.arr, path)
    [] IsObj(b) /\ IsObj(a) /\ b # a -> DiffObj(b.obj, a.obj, path)
    [] OTHER -> << Replaced(path, a) >>

defaultDiff(before, after) == DiffInto(before, after, <<>>)

(***************************************************************************)
(* defaultApplyPatch: applyOne walks to the parent of the place and edits  *)
(* it there; whatever is missing or out of bounds makes it throw.          *)
(***************************************************************************)
EditArr(s, i, p) ==
  CASE p.op = "add" /\ i <= Len(s) + 1 -> Arr(InsertAt(s, i, p.value))
    [] p.op = "replace" /\ i <= Len(s) -> Arr(ReplaceAt(s, i, p.value))
    [] p.op = "remove" /\ i <= Len(s) -> Arr(RemoveAt(s, i))
    [] OTHER -> Unpatchable

EditObj(f, k, p) ==
  CASE p.op = "add" -> Obj(With(f, k, p.value))
    [] p.op = "replace" /\ k \in DOMAIN f -> Obj(With(f, k, p.value))
    [] p.op = "remove" /\ k \in DOMAIN f -> Obj(Without(f, k))
    [] OTHER -> Unpatchable

RECURSIVE EditAt(_, _, _)
Inside(child, rest, p, put(_)) ==
  LET edited == EditAt(child, rest, p)
  IN  IF edited = Unpatchable THEN Unpatchable ELSE put(edited)

EditAt(j, path, p) ==
  LET rest == Tail(path)
      i == Head(path).index
      k == Head(path).key
      inArr == IsArr(j) /\ "index" \in DOMAIN Head(path)
      inObj == IsObj(j) /\ "key" \in DOMAIN Head(path)
  IN  CASE inArr /\ rest = <<>> -> EditArr(j.arr, i, p)
        [] inObj /\ rest = <<>> -> EditObj(j.obj, k, p)
        [] inArr /\ rest # <<>> /\ i \in DOMAIN j.arr ->
             Inside(j.arr[i], rest, p, LAMBDA v : Arr(ReplaceAt(j.arr, i, v)))
        [] inObj /\ rest # <<>> /\ k \in DOMAIN j.obj ->
             Inside(j.obj[k], rest, p, LAMBDA v : Obj(With(j.obj, k, v)))
        [] OTHER -> Unpatchable

applyOne(root, p) ==
  CASE root = Unpatchable -> Unpatchable
    [] root # Unpatchable /\ p.path # <<>> -> EditAt(root, p.path, p)
    [] root # Unpatchable /\ p.path = <<>> ->
         IF p.op = "remove" THEN Unpatchable ELSE p.value

defaultApplyPatch(doc, patches) == FoldLeft(applyOne, doc, patches)

(***************************************************************************)
(* applyRedactions.  A redaction is a path, whose segment "*" stands for   *)
(* every key or index, and a redactor: a function of the value, or         *)
(* "throws", which leaves the sentinel in the value's place.               *)
(***************************************************************************)
Sentinel == Val("[REDACTION_ERROR]")
Mask == Val("[REDACTED]")

Redactor(name, v) == CASE name = "throws" -> Sentinel
                       [] name = "mask" -> Mask
                       [] name = "keep" -> v

RECURSIVE Walk(_, _, _)
RedactIn(v, path, name) ==
  IF Len(path) = 1 THEN Redactor(name, v) ELSE Walk(v, Tail(path), name)

Walk(j, path, name) ==
  CASE IsObj(j) ->
         Obj([k \in DOMAIN j.obj |->
                IF Head(path) \in {"*", k} THEN RedactIn(j.obj[k], path, name)
                                           ELSE j.obj[k]])
    [] IsArr(j) ->
         Arr([i \in DOMAIN j.arr |->
                IF Head(path) = "*" THEN RedactIn(j.arr[i], path, name)
                                    ELSE j.arr[i]])
    [] ~IsObj(j) /\ ~IsArr(j) -> j

applyRedactions(doc, redactions) ==
  FoldLeft(LAMBDA j, r : IF r.path = <<>> THEN j ELSE Walk(j, r.path, r.redact),
           doc, redactions)
=============================================================================
