----------------------------- MODULE MCSession -----------------------------
(* A good job and jobs with a part that is wrong. *)
EXTENDS Session

Good == [object |-> TRUE, rpcFits |-> TRUE, id |-> [len |-> 15, name |-> "a"],
         blob |-> [len |-> 152, hex |-> TRUE, nonce |-> 0, data |-> "blob"],
         target |-> [len |-> 8, hex |-> TRUE, value |-> 1]]

MCParams == {Good,
             [Good EXCEPT !.id.name = "b", !.target.len = 6],
             [Good EXCEPT !.id.name = "c", !.blob.len = 168]}

=============================================================================
