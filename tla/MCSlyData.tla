----------------------------- MODULE MCSlyData -----------------------------
(***************************************************************************)
(* An instance of SlyData: a network whose front man and helper call two   *)
(* others, one of which calls the other.  The first two agents may say     *)
(* anything of a few kinds, and the front men of the others what lets      *)
(* nothing, one key, a renamed key or everything through.                  *)
(***************************************************************************)
EXTENDS SlyData, TLC

CONSTANTS main, near, far, front, helper, near_front, far_front, user, k1, k2

MCFrontMan == main :> front @@ near :> near_front @@ far :> far_front
MCAgents == main :> {front, helper} @@ near :> {near_front} @@ far :> {far_front} @@ Client :> {Client}
MCExternal ==
    main :> (front :> {near} @@ helper :> {far})
        @@ near :> (near_front :> {far}) @@ far :> (far_front :> {})
        @@ Client :> (Client :> {main})
MCWrites == main :> {k2} @@ near :> {k1} @@ far :> {k2}

True == [form |-> "true", says |-> <<>>]
False == [form |-> "false", says |-> <<>>]
Only(k) == [form |-> "dict", says |-> <<[from |-> k, to |-> k]>>]
Moved == [form |-> "dict", says |-> <<[from |-> k1, to |-> k2], [from |-> k2, to |-> No]>>]
Both == [form |-> "dict", says |-> <<[from |-> k1, to |-> k2], [from |-> k2, to |-> k2]>>]

NoBlock == [sly_data |-> Unset, to_downstream |-> Unset, from_downstream |-> Unset, to_upstream |-> Unset]
FrontBlocks ==
    {[NoBlock EXCEPT !.sly_data = d[1], !.to_downstream = d[2], !.from_downstream = d[3], !.to_upstream = Only(k2)] :
        d \in {<<Unset, Unset, True>>, <<True, Unset, Unset>>, <<True, Unset, True>>,
               <<True, False, True>>, <<True, Moved, True>>}}
HelperBlocks == {NoBlock, [NoBlock EXCEPT !.to_downstream = Both, !.from_downstream = Only(k2)]}
NearBlocks ==
    {[NoBlock EXCEPT !.sly_data = d[1], !.from_downstream = d[1], !.to_upstream = d[2]] :
        d \in {<<Unset, True>>, <<Only(k2), Unset>>, <<Only(k2), True>>}}
FarBlocks == {[NoBlock EXCEPT !.to_upstream = u] : u \in {Unset, True}}
ClientBlock == [NoBlock EXCEPT !.sly_data = True, !.from_downstream = True]

MCAllowChoices ==
    {front :> f @@ helper :> h @@ near_front :> n @@ far_front :> r @@ Client :> ClientBlock :
        f \in FrontBlocks, h \in HelperBlocks, n \in NearBlocks, r \in FarBlocks}
=============================================================================
