----------------------------- MODULE MCDocuments -----------------------------
(***************************************************************************)
(* Small instances of Documents: the schemas, the databases the server is  *)
(* started on and the bulk requests that the configurations choose from.   *)
(***************************************************************************)
EXTENDS Documents, TLC

CONSTANTS b1, b2    \* two bodies

Ref(c, f, t, o) == [coll |-> c, field |-> f, target |-> t, onDelete |-> o]

\* users (plain) and posts (vector); the posts have an author.
UsersPosts == {"users", "posts"}
Posts == {"posts"}
AuthorSetNull == {Ref("posts", "author", "users", "set_null")}
AuthorRestrict == {Ref("posts", "author", "users", "restrict")}
\* A post has an author and an editor: one is nulled, the other one blocks.
Mixed == {Ref("posts", "author", "users", "set_null"),
          Ref("posts", "editor", "users", "restrict")}
BothSetNull == {Ref("posts", "author", "users", "set_null"),
                Ref("posts", "editor", "users", "set_null")}
\* A post may reply to another post.
ParentRestrict == {Ref("posts", "parent", "posts", "restrict")}
NoRefs == {}

Parent == {"parent"}
Author == {"author"}
AuthorEditor == {"author", "editor"}

Unset == [f \in Fields |-> None]
EmptyTable == [i \in Ids |-> None]
Empty == {[c \in Colls |-> EmptyTable]}

\* Two users, and posts that may point at either of them.
UserRow == [body |-> b1, kind |-> "object", data |-> Unset]
Loaded ==
    {[c \in Colls |-> IF c = "users" THEN [i \in Ids |-> UserRow]
                                     ELSE posts] :
        posts \in [Ids -> {None} \cup
                             [body : {b1}, kind : {"object"}, data : Values]]}

\* Bulk requests of two documents, the first with an automatic id; the second
\* one may ask for the very id the first one gets.
Pairs ==
    {<<[id |-> None, body |-> b1, kind |-> "object", data |-> Unset],
       [id |-> i, body |-> b1, kind |-> "object", data |-> v]>> :
        v \in {Unset, [Unset EXCEPT !["parent"] = 1]}, i \in {None, 1, 2}}
PlainPairs ==
    {<<[id |-> None, body |-> x, kind |-> "object", data |-> Unset],
       [id |-> i, body |-> y, kind |-> "object", data |-> Unset]>> :
        x, y \in Bodies, i \in {None, 1, 2}}
NoBatches == {}

ProcSymmetry == Permutations(Procs)
BodySymmetry == Permutations(Procs) \cup Permutations(Bodies)

=============================================================================
