---------------------------- MODULE MCWebDAVTree ----------------------------
(***************************************************************************)
(* Instances of WebDAVTree for TLC: two collections that may hold one file *)
(* each, or be files themselves, below the root of a mount.                *)
(***************************************************************************)
EXTENDS WebDAVTree, TLC

CONSTANTS c1, c2, c3

d == <<"d">>
dx == <<"d", "x">>
e == <<"e">>
ex == <<"e", "x">>

TwoDirs == {<<>>, d, dx, e, ex}
AncestorPairs == {<<p, q>> \in TwoDirs \X TwoDirs : IsPrefix(q, p)}

TwoNames == {"d", "e", "x"}

File(b) == [kind |-> "file", body |-> b]
Dir == [kind |-> "dir", body |-> 0]

Holding(S) == [p \in TwoDirs |-> IF p \in DOMAIN S THEN S[p] ELSE None]

\* A marked collection with a file; one without a marker beside another; nothing.
StartTrees ==
    {Holding((d :> Dir) @@ (dx :> File(100))),
     Holding((dx :> File(100)) @@ (ex :> File(200))),
     Holding(<<>>)}

\* On the mount, on a collection with its tree, on a file, on a collection alone.
LocksOfOldRun == {<<<<>>, "infinity">>, <<d, "infinity">>, <<dx, "zero">>, <<e, "zero">>}

Ask(by, op, path, dst, over) == [by |-> by, op |-> op, path |-> path, dst |-> dst, over |-> over]

DavRequests ==
    {Ask("dav", "put", dx, dx, FALSE), Ask("dav", "put", d, d, FALSE),
     Ask("dav", "mkcol", d, d, FALSE),
     Ask("dav", "delete", d, d, FALSE), Ask("dav", "delete", dx, dx, FALSE),
     Ask("dav", "lock", d, d, FALSE), Ask("dav", "lock", dx, dx, FALSE),
     Ask("dav", "copy", d, e, TRUE), Ask("dav", "move", d, e, TRUE)}

OtherRequests ==
    {Ask("fm", "put", dx, dx, TRUE), Ask("fm", "delete", dx, dx, FALSE),
     Ask("fm", "move", dx, ex, TRUE),
     Ask("job", "delete", d, d, FALSE), Ask("job", "move", d, e, TRUE)}

AllRequests == DavRequests \union OtherRequests

\* The marker of a collection, in another bucket than the file.
MarkerBucket == {d}

AnyClient == Permutations(Clients)
=============================================================================
