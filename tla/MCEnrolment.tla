---------------------------- MODULE MCEnrolment ----------------------------
(***************************************************************************)
(* Small instances of Enrolment.  A scene gives the registrar's options,   *)
(* the hardware of the wallets and the budgets of a behaviour.             *)
(***************************************************************************)
EXTENDS Enrolment

CONSTANTS uid1, w1, w2

Kit(alg, level, uid, chain, split) ==
    [alg |-> alg, level |-> level, uid |-> uid, chain |-> chain, split |-> split]
NoKit == Kit("none", 0, NoBytes, "ecdsa", FALSE)
AllDamages == {"none", "truncated", "short", "link", "signature", "extension", "root", "unsigned"}

Kits(k1, k2) == [w \in {w1, w2} |-> IF w = w1 THEN k1 ELSE k2]

\* The first start of a registrar that may crash; wallets do not attest.
FirstStart(tiers, generate, budget) ==
    [tiers |-> tiers, generate |-> generate, require |-> FALSE, roots |-> FALSE, running |-> FALSE,
     crashes |-> budget, kits |-> Kits(NoKit, NoKit), damages |-> {}, generations |-> 1,
     registrations |-> 2, cards |-> FALSE]

\* A running registrar, and wallets that do.
Attesting(tiers, require, roots, kits, damages, generations) ==
    [tiers |-> tiers, generate |-> TRUE, require |-> require, roots |-> roots, running |-> TRUE,
     crashes |-> 0, kits |-> kits, damages |-> damages, generations |-> generations,
     registrations |-> 1, cards |-> FALSE]

MCScenes ==
    { FirstStart({"Medium"}, TRUE, 2),
      [FirstStart({"Low", "High"}, FALSE, 1) EXCEPT !.running = TRUE],
      Attesting({"Low", "Medium", "High"}, FALSE, TRUE,
                Kits(Kit("android", 1, NoBytes, "rsa", TRUE), NoKit), AllDamages, 2),
      Attesting({}, FALSE, TRUE,
                Kits(Kit("android", 7, uid1, "ecdsa", FALSE), Kit("android", 2, uid1, "ecdsa", TRUE)),
                {"none"}, 2),
      Attesting({"High"}, TRUE, FALSE,
                Kits(Kit("ios", 0, NoBytes, "rsa", TRUE), Kit("android", 0, NoBytes, "ecdsa", FALSE)),
                {"none", "root"}, 1),
      Attesting({"Medium"}, TRUE, TRUE, Kits(Kit("ios", 1, NoBytes, "ecdsa", FALSE), NoKit),
                AllDamages, 2),
      [Attesting({}, TRUE, TRUE, Kits(Kit("card", 1, NoBytes, "ecdsa", FALSE), NoKit),
                 {"none", "signature", "root"}, 1) EXCEPT !.cards = TRUE] }
=============================================================================
