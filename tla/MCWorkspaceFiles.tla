--------------------------- MODULE MCWorkspaceFiles ---------------------------
(* A player p, another version of it in a file of the same name and one in      *)
(* another file, a unit u and a later version of it that needs the new player, a *)
(* booklet b and another file with the same id, and a Testtakers file.           *)
EXTENDS WorkspaceFiles, TLC
Somebody == Permutations(Admins)
Document(level, name, id, needs) == [level |-> level, name |-> name, id |-> id, needs |-> needs]
p == Document(0, "p", "p", {})
newP == Document(0, "p", "p2", {})
twinP == Document(0, "twin", "p", {})
u == Document(1, "u", "u", {"p"})
newU == Document(1, "u", "u", {"p2"})
b == Document(2, "b", "b", {"u"})
copy == Document(2, "copy", "b", {"u"})
t == Document(3, "t", "t", {"b"})
MCDocuments == {p, newP, twinP, u, newU, b, copy, t}
MCFirst == {p, u, b, t}
MCUploads == {{newP, newU}, {twinP, u}, {copy}, {b, t}}
MCDeletions == {{Key(p)}, {Key(p), Key(u)}, {Key(b), Key(t)}}
===============================================================================
