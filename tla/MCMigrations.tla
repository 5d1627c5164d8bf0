---------------------------- MODULE MCMigrations ----------------------------
(***************************************************************************)
(* Two upgrades and a downgrade that overlap, from every revision, with    *)
(* two deliveries of one content.                                          *)
(***************************************************************************)
EXTENDS Migrations

CONSTANTS u1, u2, n1, d1, d2

MCUpgrades == {u1, u2}
MCOneUpgrade == {u1}
MCDowngrades == {n1}
MCNoDowngrades == {}
MCDeliveries == {d1, d2}

MCAnyRevision == 1 .. HeadRevision
MCRevision0002 == {3}
=============================================================================
