------------------------------ MODULE MCReports ------------------------------
(* Two symbols; fills of one or two units at two prices. *)
EXTENDS Reports

MCFills == [symbol : Symbols, direction : Directions, quantity : {1, 2},
            fill_price : {6, 10}, commission : {1}]
=============================================================================
