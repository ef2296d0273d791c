------------------------------- MODULE MCSeeds -------------------------------
(* Overlapping lists, one of them with AWS in it; one manual request, two   *)
(* observers, and a file with the requested channel and another.            *)
EXTENDS FolderWatch, TLC

CONSTANTS a1, o1, o2, noTier, noHandle

MCNorm == noHandle :> noHandle @@ "@AWS" :> "aws" @@ "AWS" :> "aws" @@ "@X" :> "x"
          @@ "x" :> "x" @@ "@Hype" :> "hype" @@ "Y" :> "y"
          @@ "Replit" :> "replit" @@ "Wyss" :> "wyss" @@ "Z" :> "z"
MCCandidates == << [handle |-> "@AWS", category |-> "vendor"] >>
\* Another spelling of the same handle, another channel's handle, or null.
MCAnswers == [h \in DOMAIN MCNorm |-> IF h = "@AWS" THEN {"AWS", "@X", noHandle} ELSE {}]
MCTierOf == "vendor" :> "vendor_official" @@ "hype" :> noTier
MCTop50 == << [handle |-> "x", videos |-> 0], [handle |-> "Y", videos |-> 200] >>
MCSubscribed == << [handle |-> "x", domain |-> "entrepreneurship", tier |-> "practitioner", videos |-> 9],
                   [handle |-> "Z", domain |-> "entrepreneurship", tier |-> "practitioner", videos |-> 0] >>
MCChannels == {"more", "new"}
MCLists == {<<"more", "new">>}
=============================================================================
