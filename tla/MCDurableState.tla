-------------------------- MODULE MCDurableState --------------------------
(***************************************************************************)
(* What the daemon keeps, for TLC: the durable library state, which is     *)
(* extended (an API caller and another task of the daemon), and the        *)
(* policies kept with the torrents. A behaviour is one of the component    *)
(* `part` names; the variables of Policy are the cells, in the order of    *)
(* the module.                                                             *)
(***************************************************************************)
EXTENDS DurableState, Integers, TLC

CONSTANTS Parts

VARIABLES part, p1, p2, p3, p4, p5, p6, p7, p8, p9, p10, p11, p12

cells == <<p1, p2, p3, p4, p5, p6, p7, p8, p9, p10, p11, p12>>
-----------------------------------------------------------------------------
CONSTANTS t1, t2, api, task

MCTorrents == {t1, t2}
MCSavers == {api, task}
MCMaxRecord == (t1 :> 2) @@ (t2 :> 1)
MCDoes == (api :> ({"add", "remove", "label", "move"} \X {t1}))
       @@ (task :> ({"selfish"} \X {t1} \cup {"add", "release", "limits", "order"} \X {t2}))
-----------------------------------------------------------------------------
CONSTANTS PolicyConfigs, Profiles, Modes, Elsewhere, None, Fallback, MaxEdits,
          MaxPolicyFaults

PO == INSTANCE Policy WITH
        config <- p1, disk_config <- p2, torrent <- p3, disk_torrent <- p4,
        payload <- p5, edit <- p6, move <- p7, engine <- p8, overlapped <- p9,
        leaked <- p10, edits <- p11, policy_faults <- p12

Conf(ps, l, d, g) ==
  [profiles |-> ps, labelled |-> l, dirs |-> [p \in {"p"} |-> d],
   starts |-> [p \in {"p"} |-> "paused"], modes |-> [p \in {"p"} |-> "required"],
   dir |-> g, start |-> "start", mode |-> "preferred"]
MCConfigs == {Conf({}, "-", "-", "g"), Conf({"p"}, "p", "d", "g"),
              Conf({"p"}, "-", "-", "-"), Conf({"p"}, "p", "e", "h")}
-----------------------------------------------------------------------------
mc_vars == <<part, vars, cells>>

MCInit ==
    /\ part \in Parts
    /\ Init
    /\ part # "durable" => file = NoFile
    /\ \/ /\ part = "durable"
          /\ p1 = 0 /\ p2 = 0 /\ p3 = 0 /\ p4 = 0 /\ p5 = 0 /\ p6 = 0
          /\ p7 = 0 /\ p8 = 0 /\ p9 = 0 /\ p10 = 0 /\ p11 = 0 /\ p12 = 0
       \/ /\ part = "policy" /\ PO!PolicyInit

MCNext ==
    /\ UNCHANGED part
    /\ \/ part = "durable" /\ Next /\ UNCHANGED cells
       \/ /\ part = "policy" /\ PO!PolicyNext
          /\ UNCHANGED <<vars>>

MCSpec == MCInit /\ [][MCNext]_mc_vars
-----------------------------------------------------------------------------
(***************************************************************************)
(* Policy: unless a move met an edit, a failed save or a crash, the        *)
(* payload is where the policies resolve to; and every assignment of a     *)
(* label or torrent names a profile that exists. Both components keep      *)
(* their types.                                                            *)
(***************************************************************************)
PoliciesHold ==
    /\ part = "durable" => TypeOK
    /\ part = "policy" => PO!PolicyTypeOK /\ PO!DataIsWhereItResolves /\ PO!AssignmentsExist
=============================================================================
