---------------------------- MODULE MobileNetV2 ----------------------------
(***************************************************************************)
(* examples/MobileNetV2/MobileNetV2.cpp: the calls MobileNetV2 makes on    *)
(* the graph builder, and the weight files it reads, for its three model  *)
(* variants.  As in ResNet, shapes and option values are left out and a   *)
(* path is the sequence of the parts the code concatenates.  MobileNetV2.h *)
(* is not in the repository; the calls that omit arguments take its        *)
(* defaults shouldAdd = true, strides = true, options = nullptr, biasName  *)
(* = "" and subNameIndex = -1.                                             *)
(***************************************************************************)
EXTENDS Integers, ExampleGraph

CONSTANTS
  mFused,              \* the --fused option
  mLayout              \* "nchw" or "nhwc"

\* BuildConstantFromNpy (41-46): npy_load(path), then utils::BuildConstant.
BuildConstantFromNpy(B, path) == ConstantFromFile(B, path)

\* BuildConv's weight and bias paths (lines 54-63).
ConvWeightsPath(convIndex) ==
  IF mLayout = "nchw" THEN <<"conv_", convIndex, "_weight.npy">>
                      ELSE <<"Const_", convIndex, ".npy">>
ConvBiasPath(convIndex, biasName) ==
  (IF mLayout = "nchw" THEN <<"conv_", convIndex>> ELSE <<"MobilenetV2_">>)
  \o biasName \o <<"_bias.npy">>

\* Mutant of BuildConv: the unfused path returns the bare convolution and
\* leaves the bias Add (and its Clamp) out of the result.
BuildConvNoBias(B, input, convIndex, relu6, biasName) ==
  LET x == Resolve(B, input)
      B1 == BuildConstantFromNpy(B, ConvWeightsPath(convIndex))
      B2 == BuildConstantFromNpy(B1, ConvBiasPath(convIndex, biasName))
  IN  IF ~mFused
        THEN Conv2d(Reshape(B2, Last), x, Operand(B, 1), <<>>)
        ELSE Conv2d(B2, x, Operand(B, 1), <<Last>>)

\* BuildConv (48-91): weight and bias constants; unfused, the bias is
\* reshaped and added and a Clamp(0, 6) follows if relu6; fused, the bias is
\* an option and the clamp a fused activation.
BuildConv(B, input, convIndex, relu6, biasName) ==
  LET x == Resolve(B, input)
      B1 == BuildConstantFromNpy(B, ConvWeightsPath(convIndex))
      B2 == BuildConstantFromNpy(B1, ConvBiasPath(convIndex, biasName))
  IN  IF ~mFused
        THEN LET B3 == Reshape(B2, Last)
                 B4 == Conv2d(B3, x, Operand(B, 1), <<>>)
                 B5 == Add(B4, Last, Operand(B, 3))
             IN  IF relu6 THEN Clamp(B5, Last) ELSE B5
        ELSE Conv2d(B2, x, Operand(B, 1), <<Last>>)

\* BuildConvBatchNorm (93-130): weights, mean and variance, the convolution,
\* gamma and beta, then BatchNorm of the convolution and, unfused, a Relu
\* if asked.
BuildConvBatchNorm(B, input, nameIndex, relu, subNameIndex) ==
  LET x == Resolve(B, input)
      prefix == <<"mobilenetv20_features">>
                \o (IF subNameIndex # -1
                      THEN <<"_linearbottleneck", subNameIndex>> ELSE <<>>)
      bn == prefix \o <<"_batchnorm", nameIndex>>
      B1 == BuildConstantFromNpy(B, prefix \o <<"_conv", nameIndex, "_weight.npy">>)
      B2 == BuildConstantFromNpy(B1, bn \o <<"_running_mean.npy">>)
      B3 == BuildConstantFromNpy(B2, bn \o <<"_running_var.npy">>)
      B4 == Conv2d(B3, x, Operand(B, 1), <<>>)
      B5 == BuildConstantFromNpy(B4, bn \o <<"_gamma.npy">>)
      B6 == BuildConstantFromNpy(B5, bn \o <<"_beta.npy">>)
      B7 == BatchNorm(B6, Operand(B, 4), Operand(B, 2), Operand(B, 3),
                      <<Operand(B, 5), Last>>)
  IN  IF ~mFused /\ relu THEN Relu(B7, Last) ELSE B7

\* BuildGemm (132-144): weights and bias, the bias as option c.
BuildGemm(B, input, gemmIndex) ==
  LET x == Resolve(B, input)
      suffix == IF mLayout = "nchw" THEN "_weight.npy" ELSE "_kernel.npy"
      B1 == BuildConstantFromNpy(B, <<"gemm_", gemmIndex, suffix>>)
      B2 == BuildConstantFromNpy(B1, <<"gemm_", gemmIndex, "_bias.npy">>)
  IN  Gemm(B2, x, Operand(B, 1), <<Last>>)

\* BuildFire (146-166): 1x1, 3x3 and unclamped 1x1 convolutions, the last
\* added to the input when shouldAdd.
BuildFire(B, input, convIndexes, shouldAdd) ==
  LET x == Resolve(B, input)
      B1 == BuildConv(B, x, convIndexes[1], TRUE, <<>>)
      B2 == BuildConv(B1, Last, convIndexes[2], TRUE, <<>>)
      B3 == BuildConv(B2, Last, convIndexes[3], FALSE, <<>>)
  IN  IF shouldAdd THEN Add(B3, x, Last) ELSE B3

\* BuildBatchNormFire (168-177).
BuildBatchNormFire(B, input, subNameIndex) ==
  LET B1 == BuildConvBatchNorm(B, input, 0, TRUE, subNameIndex)
      B2 == BuildConvBatchNorm(B1, Last, 1, TRUE, subNameIndex)
  IN  BuildConvBatchNorm(B2, Last, 2, FALSE, subNameIndex)

\* BuildLinearBottleneck (179-203): the same three convolutions, NHWC, with
\* bias names from expanded_conv_<biasIndex>.
BuildLinearBottleneck(B, input, convIndexes, biasIndex, shouldAdd) ==
  LET x == Resolve(B, input)
      bias(part) == <<"expanded_conv_", biasIndex, part>>
      B1 == BuildConv(B, x, convIndexes[1], TRUE, bias("_expand_Conv2D"))
      B2 == BuildConv(B1, Last, convIndexes[2], TRUE, bias("_depthwise_depthwise"))
      B3 == BuildConv(B2, Last, convIndexes[3], FALSE, bias("_project_Conv2D"))
  IN  IF shouldAdd THEN Add(B3, x, Last) ELSE B3

\* BuildFireMore (205-226): consecutive triples of convIndexes make fires,
\* each on the output of the one before; the first does not add, the
\* others do.  As a loader's statements: the fires it runs, in order.
FireStmt(convIndexes, k, add) ==
  Stmt("fire", add, FALSE, SubSeq(convIndexes, k, k + 2))

BuildFireMore(convIndexes) ==
  <<FireStmt(convIndexes, 1, FALSE), FireStmt(convIndexes, 4, TRUE)>>
  \o (IF Len(convIndexes) >= 9
        THEN <<FireStmt(convIndexes, 7, TRUE)>>
             \o (IF Len(convIndexes) = 12
                   THEN <<FireStmt(convIndexes, 10, TRUE)>> ELSE <<>>)
        ELSE <<>>)

\* LoadNCHW (243-251): the conv indexes of the five BuildFireMore calls.
NchwProgram(softmax) ==
  <<Stmt("nchwStem", FALSE, FALSE, 0)>>
  \o BuildFireMore(<<5, 7, 9, 10, 12, 14>>)
  \o BuildFireMore(<<16, 18, 20, 21, 23, 25, 27, 29, 31>>)
  \o BuildFireMore(<<33, 35, 37, 38, 40, 42, 44, 46, 48, 50, 52, 54>>)
  \o BuildFireMore(<<56, 58, 60, 61, 63, 65, 67, 69, 71>>)
  \o BuildFireMore(<<73, 75, 77, 78, 80, 82, 84, 86, 88>>)
  \o <<Stmt("nchwHead", softmax, FALSE, 0)>>

\* LoadNCHW lines 228-242: input and conv0, conv2, conv4.
NchwStem(B) ==
  LET B1 == Input(B)
      B2 == BuildConv(B1, Last, 0, TRUE, <<>>)
      B3 == BuildConv(B2, Last, 2, TRUE, <<>>)
  IN  BuildConv(B3, Last, 4, FALSE, <<>>)

\* LoadNCHW lines 252-259: a fire that does not add, conv95, average pool,
\* reshape, gemm104 and the optional softmax.
NchwHead(B, softmax) ==
  LET B1 == BuildFire(B, Last, <<90, 92, 94>>, FALSE)
      B2 == BuildConv(B1, Last, 95, TRUE, <<>>)
      B3 == AveragePool2d(B2, Last)
      B4 == Reshape(B3, Last)
      B5 == BuildGemm(B4, Last, 104)
  IN  IF softmax THEN Softmax(B5, Last) ELSE B5

\* LoadNHWC (288-365): bottleneck0 .. bottleneck15 as (convIndexes,
\* biasIndex, shouldAdd); biasIndex is the position plus one.
NhwcBottlenecks ==
  <<<<<<165, 99, 73>>, FALSE>>, <<<<3, 119, 115>>, TRUE>>,
    <<<<255, 216, 157>>, FALSE>>, <<<<227, 221, 193>>, TRUE>>,
    <<<<243, 102, 215>>, TRUE>>, <<<<226, 163, 229>>, FALSE>>,
    <<<<104, 254, 143>>, TRUE>>, <<<<25, 142, 202>>, TRUE>>,
    <<<<225, 129, 98>>, TRUE>>, <<<<169, 2, 246>>, FALSE>>,
    <<<<162, 87, 106>>, TRUE>>, <<<<52, 22, 40>>, TRUE>>,
    <<<<114, 65, 242>>, FALSE>>, <<<<203, 250, 92>>, TRUE>>,
    <<<<133, 130, 258>>, TRUE>>, <<<<60, 248, 100>>, FALSE>>>>

NhwcProgram(softmax) ==
  <<Stmt("nhwcStem", FALSE, FALSE, 0)>>
  \o [k \in 1..16 |-> Stmt("bottleneck", NhwcBottlenecks[k][2], FALSE,
                           <<NhwcBottlenecks[k][1], k>>)]
  \o <<Stmt("nhwcHead", softmax, FALSE, 0)>>

\* LoadNHWC lines 262-286: input and three convolutions.
NhwcStem(B) ==
  LET B1 == Input(B)
      B2 == BuildConv(B1, Last, 90, TRUE, <<"Conv_Conv2D">>)
      B3 == BuildConv(B2, Last, 238, TRUE, <<"expanded_conv_depthwise_depthwise">>)
  IN  BuildConv(B3, Last, 167, FALSE, <<"expanded_conv_project_Conv2D">>)

\* LoadNHWC lines 366-385: conv3, average pool, conv4, reshape, softmax.
NhwcHead(B, softmax) ==
  LET B1 == BuildConv(B, Last, 71, TRUE, <<"Conv_1_Conv2D">>)
      B2 == AveragePool2d(B1, Last)
      B3 == BuildConv(B2, Last, 222, FALSE, <<"Logits_Conv2d_1c_1x1_Conv2D">>)
      B4 == Reshape(B3, Last)
  IN  IF softmax THEN Softmax(B4, Last) ELSE B4

\* LoadBatchNormNCHW (397-457): fire0 .. fire16, where a fire after the
\* first of its group is added to its own input (add0 = fire1 + fire2,
\* add1 = fire3 + fire4, add2 = add1 + fire5, ...); n is subNameIndex.
BatchNormProgram(softmax) ==
  LET Fire(k) == Stmt("bnFire", FALSE, FALSE, k)
      Res(k)  == Stmt("residual", FALSE, FALSE, k)
  IN  <<Stmt("bnStem", FALSE, FALSE, 0), Fire(0), Fire(1), Res(2),
        Fire(3), Res(4), Res(5), Fire(6), Res(7), Res(8), Res(9),
        Fire(10), Res(11), Res(12), Fire(13), Res(14), Res(15), Fire(16),
        Stmt("bnHead", softmax, FALSE, 0)>>

\* LoadBatchNormNCHW lines 388-396.
BatchNormStem(B) ==
  LET B1 == Input(B) IN BuildConvBatchNorm(B1, Last, 0, TRUE, -1)

\* A residual fire (e.g. lines 408-409): fire = BuildBatchNormFire(x);
\* Add(x, fire).
Residual(B, subNameIndex) ==
  LET B1 == BuildBatchNormFire(B, Last, subNameIndex)
  IN  Add(B1, Out(B), Last)

\* LoadBatchNormNCHW lines 458-466.
BatchNormHead(B, softmax) ==
  LET B1 == BuildConvBatchNorm(B, Last, 1, TRUE, -1)
      B2 == AveragePool2d(B1, Last)
      B3 == BuildConstantFromNpy(B2, <<"mobilenetv20_output_pred_weight.npy">>)
      B4 == Conv2d(B3, Out(B2), Last, <<>>)
      B5 == Reshape(B4, Last)
  IN  IF softmax THEN Softmax(B5, Last) ELSE B5

\* main: the layout, and the batch-norm variant of the NCHW model.
Layouts == {"nchw", "nhwc", "nchwBatchNorm"}

Program(layout, softmax) ==
  CASE layout = "nchw" -> NchwProgram(softmax)
    [] layout = "nhwc" -> NhwcProgram(softmax)
    [] OTHER           -> BatchNormProgram(softmax)

\* Running one statement of a loader.
Exec(B, st) ==
  CASE st.kind = "nchwStem"   -> NchwStem(B)
    [] st.kind = "fire"       -> BuildFire(B, Last, st.n, st.x)
    [] st.kind = "nchwHead"   -> NchwHead(B, st.x)
    [] st.kind = "nhwcStem"   -> NhwcStem(B)
    [] st.kind = "bottleneck" -> BuildLinearBottleneck(B, Last, st.n[1], st.n[2], st.x)
    [] st.kind = "nhwcHead"   -> NhwcHead(B, st.x)
    [] st.kind = "bnStem"     -> BatchNormStem(B)
    [] st.kind = "bnFire"     -> BuildBatchNormFire(B, Last, st.n)
    [] st.kind = "residual"   -> Residual(B, st.n)
    [] st.kind = "bnHead"     -> BatchNormHead(B, st.x)

=============================================================================
