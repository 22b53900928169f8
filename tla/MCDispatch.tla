----------------------------- MODULE MCDispatch -----------------------------
(***************************************************************************)
(* Instances of Dispatch for TLC.                                          *)
(***************************************************************************)
EXTENDS Dispatch

Grid4x2x1 == <<4, 2, 1>>

\* Slices of two by two workgroups; grids from empty to several slices, with
\* and without a remainder in either direction.
SquareSlices == <<2, 2, 1>>
SmallGrids == ((0 .. 4) \X (1 .. 4) \X {1}) \cup {<<2, 2, 2>>, <<3, 2, 2>>, <<1, 3, 3>>}
=============================================================================
