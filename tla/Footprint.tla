------------------------------ MODULE Footprint ------------------------------
(***************************************************************************)
(* How the footprints of kernels are written down.  An array is a name and *)
(* its cells are pairs <<name, index>>, with the flat index arithmetic of  *)
(* the code.  Only arrays that some item writes have cells: what a kernel  *)
(* merely reads cannot change under it.                                    *)
(***************************************************************************)
EXTENDS Integers

\* The cells a[from] .. a[from + n - 1].
Span(a, from, n) == {<<a, x>> : x \in from .. (from + n - 1)}

\* A region of count items: item i writes writes[i], and reads none of what
\* the region writes.
Region(count, route, writes, out) ==
  [count |-> count, grain |-> 1, route |-> route,
   cells |-> out \cup UNION {writes[i] : i \in 0 .. (count - 1)},
   reads |-> [i \in 0 .. (count - 1) |-> {}], writes |-> writes, out |-> out,
   input |-> [i \in 0 .. (count - 1) |-> {}],
   bad |-> {}, onBad |-> "return", polls |-> FALSE]

\* A region whose items update cells in place: item i also reads reads[i].
UpdatingRegion(count, route, reads, writes, out) ==
  [Region(count, route, writes, out) EXCEPT !.reads = reads]

\* The items of bad raise the kernel's invalid flag, and their callback returns;
\* with polls, it also returns when it finds the flag raised before an item.
Checked(k, bad, polls) == [k EXCEPT !.bad = bad, !.polls = polls]

\* The same for a callback that goes on after an invalid item.
Flagged(k, bad) == [k EXCEPT !.bad = bad, !.onBad = "continue"]

\* A call in place: its outputs hold its input.  An index takes grain turns of the
\* kernel's loops: turn i loads loads[i] of the input, and reads[i] of what the kernel
\* has stored itself, before it stores writes[i].
InPlace(count, grain, route, loads, reads, writes, out) ==
  LET turns == 0 .. (count * grain - 1)
  IN [count |-> count, grain |-> grain, route |-> route,
      cells |-> out \cup UNION {writes[i] : i \in turns},
      reads |-> [i \in turns |-> loads[i] \cup reads[i]], writes |-> writes, out |-> out,
      input |-> loads,
      bad |-> {}, onBad |-> "return", polls |-> FALSE]

\* What one turn does, in the cells <<array, column>> of its row.
Turn(loads, reads, writes) == [loads |-> loads, reads |-> reads, writes |-> writes]

\* An index is a row of the arrays, planes[a] cells wide in array a, and all rows go
\* through the same turns: program[0] .. program[grain - 1].
RowsInPlace(rows, grain, route, planes, program) ==
  LET turns == 0 .. (rows * grain - 1)
      Placed(cells, row) == {<<c[1], row * planes[c[1]] + c[2]>> : c \in cells}
  IN InPlace(rows, grain, route,
       [i \in turns |-> Placed(program[i % grain].loads, i \div grain)],
       [i \in turns |-> Placed(program[i % grain].reads, i \div grain)],
       [i \in turns |-> Placed(program[i % grain].writes, i \div grain)],
       UNION {Span(a, 0, rows * planes[a]) : a \in DOMAIN planes})

\* Every turn updates one cell.
UpdatedInPlace(count, route, a) ==
  RowsInPlace(count, 1, route, [x \in {a} |-> 1],
    [j \in {0} |-> Turn({<<a, 0>>}, {}, {<<a, 0>>})])

\* A row is loaded whole into a buffer, and stored from there.
BufferedInPlace(rows, width, route, a) ==
  LET row == Span(a, 0, width)
  IN RowsInPlace(rows, 2, route, [x \in {a} |-> width],
       [j \in 0 .. 1 |-> IF j = 0 THEN Turn(row, {}, {}) ELSE Turn({}, {}, row)])

\* A plain loop instead of parallel_ranges.
Serial(k) == [k EXCEPT !.route = "serial"]

\* The commonest kernel: item i fills row i of its outputs.  planes[a] is the
\* width of a row of array a.
RowRegion(count, planes) ==
  Region(count, "parallel",
    [i \in 0 .. (count - 1) |->
       UNION {Span(a, i * planes[a], planes[a]) : a \in DOMAIN planes}],
    UNION {Span(a, 0, count * planes[a]) : a \in DOMAIN planes})

\* Every item fills one cell of each array.
Elementwise(count, arrays) == RowRegion(count, [a \in arrays |-> 1])

\* A serial loop whose every item adds to the same width cells of the arrays.
Accumulation(count, arrays, width) ==
  LET all == UNION {Span(a, 0, width) : a \in arrays}
  IN UpdatingRegion(count, "serial", [i \in 0 .. (count - 1) |-> all],
                    [i \in 0 .. (count - 1) |-> all], all)

Least(x, y) == IF x <= y THEN x ELSE y

\* Tasks that are tiles of a matrix of this many rows: task t is the tile of row
\* t \div columnTiles and column t % columnTiles, clipped at the last row and column.
\* planes[a] gives array a its columns and the width of its tiles.
TileRegion(rows, tileRows, columnTiles, planes) ==
  LET tasks == ((rows + tileRows - 1) \div tileRows) * columnTiles
      Tile(a, task) ==
        LET rowBegin == (task \div columnTiles) * tileRows
            columnBegin == (task % columnTiles) * planes[a].width
        IN UNION {Span(a, (rowBegin + row) * planes[a].columns + columnBegin,
                       Least(planes[a].width, planes[a].columns - columnBegin)) :
                    row \in 0 .. (Least(tileRows, rows - rowBegin) - 1)}
  IN Region(tasks, "parallel",
       [task \in 0 .. (tasks - 1) |-> UNION {Tile(a, task) : a \in DOMAIN planes}],
       UNION {Span(a, 0, rows * planes[a].columns) : a \in DOMAIN planes})
=============================================================================
