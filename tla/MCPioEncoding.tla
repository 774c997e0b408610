--------------------------- MODULE MCPioEncoding ---------------------------
(* Boundary operands of every field.                                       *)
EXTENDS PioEncoding

Boundary == [
    pin |-> {0, 18, 31},      side_count |-> {0, 1, 2, 5},
    set_count |-> {1, 5},     out_count |-> {1, 32},
    threshold |-> {1, 32},    count |-> {1, 8, 32},
    divisor |-> {1, 65535},   fraction |-> {0, 255},
    level |-> {0, 15},        irq |-> {0, 7},
    delay |-> {1, 7, 15, 31}, side |-> {0, 1, 3, 15, 31}]
=============================================================================
