---------------------------- MODULE MCBrokerUsage ----------------------------
(* Two providers with different limits, on a clock of three ticks a day and a  *)
(* window of one; money in units of half a budget or less.                     *)
EXTENDS BrokerUsage, TLC

CONSTANTS openai, tavily

MCProviders == {openai, tavily}
MCRates == openai :> 2 @@ tavily :> 1
MCDailyCosts == openai :> 5 @@ tavily :> 2
===============================================================================
