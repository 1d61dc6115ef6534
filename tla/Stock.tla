------------------------------- MODULE Stock -------------------------------
(***************************************************************************)
(* The tables that sales and stock corrections share: the stock of each    *)
(* ingredient and the branch's setting.                                    *)
(***************************************************************************)
EXTENDS Integers, FiniteSets

CONSTANTS Ingredients,
          Need,           \* Need[i]: what an order, or a corrected item, takes of i
          Opening,        \* Opening[i]: stock at the start
          Keys            \* values of x-idempotency-key

VARIABLES
  stock,    \* stock[i]: ingredients.quantity_on_hand
  negative  \* branch_inventory_settings.allow_negative_stock
=============================================================================
