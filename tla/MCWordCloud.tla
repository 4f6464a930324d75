---------------------------- MODULE MCWordCloud ----------------------------
(* A canvas of three by two pixels, each in halves, and three words: one in *)
(* whole pixels or half a column narrower than its bitmap, one scaled both  *)
(* ways or whose rows are padded, and one just fitting or wider than the    *)
(* canvas by half a pixel or by two.  Not all of their pixels are inked.    *)
EXTENDS WordCloud

CONSTANTS calm, hike, everything

Drawing(w, h, s, blank) ==
    LET columns == (w + Unit - 1) \div Unit
        rows == (h + Unit - 1) \div Unit
    IN  [width |-> w, height |-> h, columns |-> columns, rows |-> rows, stride |-> s,
         ink |-> ((0..columns - 1) \X (0..rows - 1)) \ blank]

MCWords == {calm, hike, everything}
MCDrawingsOf ==
    [word \in MCWords |->
        CASE word = calm -> {Drawing(2, 2, 1, {}), Drawing(3, 2, 2, {})}
          [] word = hike -> {Drawing(3, 3, 2, {<<1, 0>>}), Drawing(4, 4, 3, {<<1, 0>>})}
          [] word = everything ->
                {Drawing(6, 2, 3, {<<1, 0>>}), Drawing(7, 2, 4, {<<1, 0>>, <<2, 0>>}),
                 Drawing(10, 4, 5, {<<1, 1>>})}]
=============================================================================
