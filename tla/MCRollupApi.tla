----------------------------- MODULE MCRollupApi ----------------------------
(* RollupApi on small instances: a finish gives up after two rounds        *)
(* instead of fifty, and two finishes can be under way.  And the answers   *)
(* of /gio, over small block numbers.                                      *)
EXTENDS RollupApi, DataAvailability

MCInputIndex == {0, 1}

MCBlocks   == 0 .. 3
MCIds      == [valid : BOOLEAN, maxBlockNumber : MCBlocks, height : MCBlocks]
MCInputs   == {Missing} \cup {<<i>> : i \in [blockNumber : MCBlocks]}
MCHeaders  == {Missing, <<Missing>>} \cup {<< <<l1>> >> : l1 \in MCBlocks}
MCServices == [latest : {Missing} \cup {<<h>> : h \in MCBlocks}, header : MCHeaders]

(* fetchContext refuses what is not of a later epoch than the current      *)
(* input, Fetch what is: of one request, one of the two always refuses.    *)
ASSUME EspressoIsNeverAsked ==
  \A id \in MCIds, input \in MCInputs : \A s, t \in MCServices :
    EspressoFetch(id, input, <<s>>) = EspressoFetch(id, input, <<t>>)

(* A round of the loop ends with an error, or waits for a higher block.    *)
ASSUME RoundWaitsOrFails ==
  \A id \in MCIds, s \in MCServices :
    LET result == Round(id, s)
    IN  /\ result.kind # "data"
        /\ result = Waits => s.latest # Missing /\ id.height > s.latest[1]
=============================================================================
