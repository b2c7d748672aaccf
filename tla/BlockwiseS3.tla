---------------------------- MODULE BlockwiseS3 ----------------------------
(***************************************************************************)
(* What scenario S3 promises of a run: a block after another, each of them *)
(* at once, as DrawdownBlock says.                                         *)
(***************************************************************************)
EXTENDS DrawdownBlock

CONSTANTS Growths       \* interest of a block, per borrow share

VARIABLES cfg,          \* the S3Config
          traj          \* per block: [market, open], open the positions left

vars == <<cfg, traj>>

Init == traj = << >>

Start == traj = << >> /\ Len(traj') = 1 /\ ValidConfig(cfg)

Block ==
    /\ traj # << >> /\ Len(traj) <= cfg.horizon
    /\ \E growth \in Growths :
         traj' = Append(traj, AfterBlock(cfg, traj[1].market.price, Len(traj),
                                         traj[Len(traj)], growth))

Next == (Start \/ Block) /\ UNCHANGED cfg

Spec == Init /\ [][Next]_vars
=============================================================================
