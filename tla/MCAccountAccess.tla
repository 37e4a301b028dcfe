---------------------------- MODULE MCAccountAccess ----------------------------
(* AccountAccess for TLC: an owner from before passwords, invited again to    *)
(* activate the account, and a newcomer invited as owner.                    *)
EXTENDS AccountAccess

CONSTANTS omer, nil, again, new

People == {omer, nil}

Letters == {again, new}

Tenant == [u \in People |-> IF u = omer THEN "OWNER" ELSE "none"]

To == [i \in Letters |-> IF i = again THEN omer ELSE nil]

AsRole == [i \in Letters |-> IF i = new THEN "AGENT" ELSE "OWNER"]
=============================================================================
