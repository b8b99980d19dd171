----------------------------- MODULE MCQueries ------------------------------
(* Queries with two inputs and walks over three tables, forward and        *)
(* backward, with filters whose rows stay and filters whose rows do not.   *)
EXTENDS Queries

MCInputIndex == {0, 1}

Walk(table, filter, direction, size) ==
  [table |-> table, filter |-> filter, direction |-> direction, size |-> size]

SomeAddress == CHOOSE p \in Payload : TRUE

MCWalks ==
  << Walk("vouchers", <<[field |-> "Executed", eq |-> "false"]>> \o OfInput(0),
          "forward", <<1>>),
     Walk("inputs",   <<[field |-> "Index", lt |-> 2], [field |-> "Status", ne |-> "unprocessed"]>>,
          "backward", <<1>>),
     Walk("reports",  <<>>, "backward", <<2>>) >>

MCFaultyWalks ==
  << Walk("vouchers", <<>>, "forward", <<1>>),
     Walk("vouchers", <<[field |-> "Destination", eq |-> [checksummed |-> TRUE, address |-> SomeAddress]]>>,
          "backward", <<1>>) >>
=============================================================================
