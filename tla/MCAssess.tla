------------------------------ MODULE MCAssess -------------------------------
EXTENDS Assess

(* What the adapters produce.  USGS GeoJSON and a curated JSON file publish  *)
(* neither an uncertainty nor how a depth was found; ISC QuakeML may publish *)
(* both; a FIRMS detection has no depth and a pixel for an uncertainty.      *)
Usgs ==
    [source : {"usgs"}, class : {"instrumental"}, type : {"earthquake", "explosion"},
     format : {"json"}, depth : {0, 1, 5}, declared : {"nothing"},
     uncertainty : {None}, place : {"plain"}, suspected : {FALSE}]

Isc ==
    [source : {"isc"}, class : {"instrumental"}, type : {"earthquake", "explosion"},
     format : {"quakeml"}, depth : {1, 5}, declared : {"assigned", "solved"},
     uncertainty : {None, 6}, place : {"plain"}, suspected : {FALSE}]
    \cup
    [source : {"isc"}, class : {"instrumental"}, type : {"explosion", "industrial"},
     format : {"quakeml"}, depth : {0}, declared : {"nothing"},
     uncertainty : {5, 101}, place : {"none", "working-hours"}, suspected : {TRUE}]
    \cup
    [source : {"isc"}, class : {"instrumental"}, type : {"earthquake", "other"},
     format : {"quakeml"}, depth : {1}, declared : {"nothing"},
     uncertainty : {None}, place : {"plain"}, suspected : {FALSE}]
    \cup
    [source : {"isc"}, class : {"instrumental"}, type : {"other"},
     format : {"quakeml"}, depth : {None, 3}, declared : {"solved"},
     uncertainty : {31}, place : {"none", "plain"}, suspected : {FALSE}]

Firms ==
    [source : {"firms"}, class : {"instrumental"}, type : {"other", "industrial"},
     format : {"csv"}, depth : {None}, declared : {"nothing"},
     uncertainty : {1}, place : {"plain"}, suspected : {FALSE}]

Seed ==
    [source : {"seed"}, class : {"reporting"}, type : {"explosion", "other"},
     format : {"json"}, depth : {None, 1}, declared : {"nothing"},
     uncertainty : {None}, place : {"plain", "working-hours"}, suspected : {FALSE}]

UniverseDef == Usgs \cup Isc \cup Firms \cup Seed
=============================================================================
