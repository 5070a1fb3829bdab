------------------------------ MODULE MCTimezone ------------------------------
(***************************************************************************)
(* Nine zones, of which two start another, and everything of up to three      *)
(* bytes to ask for: what lies before, between and behind them, prefixes of    *)
(* none, one and several, and more than a whole zone.                        *)
(***************************************************************************)
EXTENDS Timezone

MCList ==
  << <<1, 0>>,      \* America/Araguaina
     <<1, 1>>,      \* America/Bahia
     <<1, 1, 2>>,   \* America/Bahia_Banderas
     <<1, 2>>,      \* America/Barbados
     <<1, 3>>,      \* America/Dawson
     <<1, 3, 0>>,   \* America/Dawson_Creek
     <<2, 2>>,      \* Europe/London
     <<3, 0, 1>>,   \* Pacific/Wake
     <<3, 0, 2>> >> \* Pacific/Wallis

MCPrefixes == UNION {[1 .. n -> 0 .. 4] : n \in 0 .. 3}
=============================================================================
