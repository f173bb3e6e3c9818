---------------------------- MODULE MCRailLayoutSync ----------------------------
(* Small instances of RailLayoutSync: one or two accounts, few edits. *)
EXTENDS RailLayoutSync

CONSTANTS a1, a2

\* One account that edits twice, in flight together or one after the other.
MCEditor ==
    [nip44 |-> {a1}, edits |-> 2, others |-> 1, switches |-> 1,
     failures |-> 1, ahead |-> 2, time |-> 1]
\* Edits once while accounts are switched there and back.
MCSwitcher ==
    [nip44 |-> {a1, a2}, edits |-> 1, others |-> 1, switches |-> 3,
     failures |-> 0, ahead |-> 0, time |-> 0]
\* Edits again after the switch.
MCReturner == [MCSwitcher EXCEPT !.edits = 2, !.others = 0, !.failures = 1]
\* An account, a2, has no NIP-44.
MCWithout == [MCSwitcher EXCEPT !.nip44 = {a1}, !.failures = 1]

MCDevices == {MCEditor, MCSwitcher, MCReturner, MCWithout}
MCUnread == {MCEditor}
=============================================================================
