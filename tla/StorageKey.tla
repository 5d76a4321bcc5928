----------------------------- MODULE StorageKey -----------------------------
(***************************************************************************)
(* Which keys the blob stores accept, and where an object goes.            *)
(*                                                                         *)
(* A key is the sequence of its segments: both kinds of separator split    *)
(* it, as validateKey makes them one before it looks.  A key that starts   *)
(* with a separator starts with the segment "".                            *)
(***************************************************************************)
EXTENDS Integers, SequencesExt

CONSTANTS
    Names,         \* ordinary segments
    MaxSegments    \* bound: the longest key that is checked

ASSUME StorageKeyAssumption ==
    /\ Names \cap {"", ".", ".."} = {}
    /\ MaxSegments \in Nat

Drive == "C:"

Segments == Names \cup {"", ".", "..", Drive}

KeysUpTo(n) == UNION {[1 .. i -> Segments] : i \in 1 .. n}

\* path.Clean on a relative path: "" stands for two separators in a row, "."
\* for the directory itself, ".." takes back the segment before it if there
\* is one.  <<>> is the path ".".
AddSegment(path, segment) ==
    CASE segment \in {"", "."} -> path
      [] segment = ".." /\ path # <<>> /\ Last(path) # ".." -> Front(path)
      [] OTHER -> Append(path, segment)

Clean(path) == FoldLeft(AddSegment, <<>>, path)

Blank(key) == key = <<"">>

\* MUTANT of ValidateKey: the traversal check looks at the key as it came.
ValidateKeyUncleaned(key) ==
    /\ ~ Blank(key)
    /\ Head(key) \notin {"", Drive}
    /\ Head(key) # ".."

ValidateKey(key) ==
    /\ ~ Blank(key)
    /\ Head(key) \notin {"", Drive}
    /\ Clean(key) = <<>> \/ Head(Clean(key)) # ".."

\* The join in Local.resolve cleans again.
Resolve(root, key) == Clean(root \o Clean(key))

\* Resolve's own check refuses the path.  It compares with the root followed by
\* a separator: "//" when the root is "/", here <<>>, with which no path starts.
Escapes(root, path) == path # root /\ (root = <<>> \/ ~ IsPrefix(root, path))

\* MUTANT of ObjectKey: without a prefix, the key is used as it came.
ObjectKeyUncleaned(prefix, key) ==
    IF prefix = <<>> THEN key ELSE Clean(prefix \o Clean(key))

ObjectKey(prefix, key) ==
    IF prefix = <<>> THEN Clean(key) ELSE Clean(prefix \o Clean(key))

----------------------------------------------------------------------------
(* Properties.                                                             *)

\* How many of the first n segments are in S.
Count(key, n, S) == Cardinality({i \in 1 .. n : key[i] \in S})

\* How deep below the root a walk along the key stands after n segments.
Depth(key, n) == Count(key, n, Names \cup {Drive}) - Count(key, n, {".."})

\* A key is accepted exactly when it is relative and a walk along it never
\* leaves the root; its object then lies below the prefix and its file below
\* the root ("must not let a key escape the store's own namespace", storage.go),
\* so that resolve's own check never fires, unless the root is "/".
KeysStayInside ==
    \A key \in KeysUpTo(MaxSegments) :
        /\ ValidateKey(key) =
              /\ Head(key) \notin {"", Drive}
              /\ \A n \in 1 .. Len(key) : Depth(key, n) >= 0
        /\ ValidateKey(key) =>
              \A top \in {<<>>, <<"top">>, <<"top", "sub">>} :
                  /\ IsPrefix(top, Resolve(top, key))
                  /\ IsPrefix(top, ObjectKey(top, key))
                  /\ top = <<>> \/ ~ Escapes(top, Resolve(top, key))

\* "the same upload" must not "behave differently depending on which backend is
\* configured" (storage.go): two keys name one file exactly when they name one
\* object, with a prefix or without.
StoresAgree ==
    LET accepted == {key \in KeysUpTo(MaxSegments - 1) : ValidateKey(key)} IN
    \A key, other \in accepted : \A prefix \in {<<>>, <<"top">>} :
        (Resolve(<<"root">>, key) = Resolve(<<"root">>, other))
            = (ObjectKey(prefix, key) = ObjectKey(prefix, other))
=============================================================================
