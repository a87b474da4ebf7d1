-------------------------- MODULE MCLanguageService --------------------------
(* Small instances of LanguageService for TLC: a member b that depends on   *)
(* a, a member c whose id clashes with that of a, one file each for a and b *)
(* and a second file of a that is not on disk at the start.                 *)
EXTENDS LanguageService, TLC

CONSTANTS s1, s2, a, b, c, fa1, fa2, fb, r1, e1

MCOwner == (fa1 :> a @@ fa2 :> a @@ fb :> b)
MCBaseIds == (a :> {} @@ b :> {a} @@ c :> {})
MCOwnerTwo == (fa1 :> a @@ fb :> b)
MCBaseIdsTwo == (a :> {} @@ b :> {a})
MCMembers == (s1 :> {a, b} @@ s2 :> {b} @@ NoSolution :> {})
(* The new text of fa2 declares a node twice; the new texts of fa1 and fb   *)
(* declare the same one.                                                    *)
MCColliding == {{<<fa2, 2>>}, {<<fa1, 2>>, <<fb, 2>>}}
MCBroken == {ms \in SUBSET Members : {a, c} \subseteq ms}

(* What is combined: keystrokes in any file around a switch, a warmup that  *)
(* fails and a read; members opened and closed around keystrokes, and       *)
(* around a switch; and a change of references beside failing warmups, a    *)
(* read and compiled packages, without a switch, since ReadyIsActive needs  *)
(* that.                                                                    *)
MCMixes == {{fa1, fb, "switch", "warm", "request"}, {fa1, fa2, "switch"},
            {fa1, "switch", "insert"}, {fa1, "switch", "remove"},
            {fa1, fb, "remove"}, {fa1, "insert", "remove"},
            {"references", "warm", "request", "compile"}}

(* Two members and no file, for changes of references by themselves.        *)
MCOwnerNone == [f \in {} |-> a]
MCMixesEvents == {{"references"}}
MCMembersTwo == (s1 :> {a, b} @@ NoSolution :> {})

(* One member and one file, for the run that lets every awaited read fail.  *)
MCOwnerOne == (fa1 :> a)
MCBaseIdsOne == (a :> {})
MCMembersOne == (s1 :> {a} @@ NoSolution :> {})
MCMixesOne == {{fa1, "switch", "warm", "read", "references", "request"},
               {"switch", "read", "references", "remove"}, {"switch", "read", "disk"}}
==============================================================================
