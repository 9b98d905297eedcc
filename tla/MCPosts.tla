------------------------------ MODULE MCPosts ------------------------------
(***************************************************************************)
(* The post repository for TLC.                                            *)
(***************************************************************************)
EXTENDS PostRepository, TLC

CONSTANTS rootPost, replyPost, tailPage, threadPage, c1, c2

\* A root post and a reply to it.
ThreadRoot   == [p \in Posts |-> IF p = replyPost THEN rootPost ELSE NoPost]
Times        == [p \in Posts |-> IF p = rootPost THEN 1 ELSE 2]
ThreadCovers == [x \in Pages |-> IF x = tailPage THEN Posts \ {replyPost} ELSE Posts]

\* No property tells the calls of loadPost apart.
Callers      == Permutations(Loads)

=============================================================================
