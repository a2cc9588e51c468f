-------------------------- MODULE MCOfficialAddons --------------------------
(* Two pages with a vault of up to two names, or another add-on.           *)
EXTENDS OfficialAddons

(* Four changes of a presence: two timers in one window, and a change      *)
(* between them.                                                           *)
TheActs == [a \in Apps |-> IF a = "presence" THEN 4 ELSE 2]

TheSize(v) == IF v = "huge" THEN 2 ELSE 1
Id == <<"a">>
(* Its id begins with the vault's. *)
LongerId == <<"a", "b">>
TheNames == {<<"x">>, <<"b", " ", "a">>}
SnapshotKey == <<"s">>

(* A frame is read as it was written; what is too short is not read.       *)
ASSUME FramesRoundTrip ==
    LET strings == UNION {[1 .. n -> {0, 1, 7}] : n \in 0 .. 3} IN
    /\ \A name, body \in strings : Unframed(Frame(name, body)) = {<<name, body>>}
    /\ \A s \in strings : Unframed(s) # {} => Len(s) >= 2

(* A key that starts with U+FFFF is neither listed nor cleared.            *)
ASSUME TopKeysUnlisted ==
    LET box == [k \in {NamespaceKey(Id, <<Top, "x">>)} |-> "v"]
    IN  ListedKeys(box, Id) = {} /\ After(box, [addon |-> Id, op |-> "clear"]) = box
=============================================================================
