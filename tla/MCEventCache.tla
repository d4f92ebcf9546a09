---------------------------- MODULE MCEventCache ----------------------------
(* EventCache on a chain of blocks with one pair, or with an index and two   *)
(* pairs registered by one transaction.                                      *)
EXTENDS EventCache

MCContents ==
    { <<[kind |-> "pair", tx |-> 1]>>,
      <<[kind |-> "index", tx |-> 1], [kind |-> "pair", tx |-> 1], [kind |-> "pair", tx |-> 1]>> }
=============================================================================
