---------------------------- MODULE WindowGeometry ----------------------------
(***************************************************************************)
(* How many windows a convolution, a pooling or a patch extraction places  *)
(* along an axis.  An axis is a record of its input length and of the      *)
(* window's kernel, stride, pad and dilation.                              *)
(***************************************************************************)
EXTENDS Integers, Sequences
LOCAL INSTANCE SequencesExt

\* Integer division as the code has it: towards zero.
Quotient(a, b) == IF a >= 0 THEN a \div b ELSE -((-a) \div b)

\* patch_output.  A kernel longer than the padded input by less than the stride still
\* gets a window, since the division rounds up then.
PatchOutput(axis) == Quotient(axis.input + 2 * axis.pad - axis.kernel, axis.stride) + 1

\* pool_output; ceilMode keeps a window that is only partly inside.
PoolOutput(axis, ceilMode) ==
  LET slack == IF ceilMode THEN axis.stride - 1 ELSE 0
  IN  Quotient(axis.input - axis.kernel + slack, axis.stride) + 1

\* What a dilated kernel spans.
Extent(axis) == axis.dilation * (axis.kernel - 1) + 1

\* convolution_output, of an axis it accepts: the padded input spans the kernel.
ConvolutionOutput(axis) ==
  ((axis.input + 2 * axis.pad - Extent(axis)) \div axis.stride) + 1

\* conv_output of the audio kernels, which accept the others too.
AudioConvOutput(axis) ==
  Quotient(axis.input + 2 * axis.pad - Extent(axis), axis.stride) + 1

Volume(lengths) == FoldLeft(LAMBDA product, n : product * n, 1, lengths)

\* The windows of a grid of axes, and the cells of one.
PatchWindows(axes) == Volume([i \in DOMAIN axes |-> PatchOutput(axes[i])])
PoolWindows(axes, ceilMode) == Volume([i \in DOMAIN axes |-> PoolOutput(axes[i], ceilMode)])
ConvolutionWindows(axes) == Volume([i \in DOMAIN axes |-> ConvolutionOutput(axes[i])])
KernelCells(axes) == Volume([i \in DOMAIN axes |-> axes[i].kernel])
=============================================================================
