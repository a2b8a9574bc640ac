------------------------------- MODULE ResNet -------------------------------
(***************************************************************************)
(* examples/ResNet/ResNet.cpp: the calls ResNet makes on the graph         *)
(* builder, and the weight files it reads, for either layout.  Shapes and *)
(* option values only select data and are left out; what stays is which   *)
(* operands each helper creates, in which order, what feeds what, and the  *)
(* path of every file (without the common mWeightsPath prefix).  NCHW     *)
(* name indices are numbers (atoi/to_string round-trip them); NHWC ones    *)
(* are strings, as the code passes them.  A stageName "" is 0.  ResNet.h  *)
(* is not in the repository; the calls that omit arguments take its        *)
(* defaults relu = true, downsample = false, shortcut = true.              *)
(***************************************************************************)
EXTENDS ExampleGraph

CONSTANT mFused        \* the --fused option

\* BuildConstantFromNpy (40-45): npy_load(path), then utils::BuildConstant.
BuildConstantFromNpy(B, path) == ConstantFromFile(B, path)

\* BuildNchwConv (47-62): the weights of conv name, then Conv2d, no bias.
BuildNchwConv(B, input, name, stageName) ==
  LET x == Resolve(B, input)
      prefix == IF stageName # 0 THEN <<"stage", stageName, "_conv", name>>
                                 ELSE <<"conv", name>>
      B1 == BuildConstantFromNpy(B, prefix \o <<"_weight.npy">>)
  IN  Conv2d(B1, x, Last, <<>>)

\* BuildNhwcConv (64-106): weight and bias constants; unfused, the bias is
\* reshaped and added and Relu follows if asked; fused, the bias is an
\* option of Conv2d and the Relu a fused activation.
BuildNhwcConv(B, input, nameIndices, relu) ==
  LET x == Resolve(B, input)
      prefix ==
        (IF nameIndices[1] # "" /\ nameIndices[2] # ""
           THEN <<"block", nameIndices[1], "_unit_", nameIndices[2],
                  "_bottleneck_v2_">>
           ELSE <<>>)
        \o (CASE nameIndices[3] = "shortcut" -> <<"shortcut">>
              [] nameIndices[3] = "logits"   -> <<nameIndices[3]>>
              [] OTHER                       -> <<"conv", nameIndices[3]>>)
      B1 == BuildConstantFromNpy(B, prefix \o <<"_weights.npy">>)
      B2 == BuildConstantFromNpy(B1, prefix \o <<"_Conv2D_bias.npy">>)
  IN  IF ~mFused
        THEN LET B3 == Reshape(B2, Last)
                 B4 == Conv2d(B3, x, Operand(B, 1), <<>>)
                 B5 == Add(B4, Last, Operand(B, 3))
             IN  IF relu THEN Relu(B5, Last) ELSE B5
        ELSE Conv2d(B2, x, Operand(B, 1), <<Last>>)

\* BuildBatchNorm (108-138): gamma, beta, mean and variance, then BatchNorm,
\* followed by Relu when unfused and asked.
BuildBatchNorm(B, input, name, stageName, relu) ==
  LET x == Resolve(B, input)
      prefix == IF stageName # 0 THEN <<"stage", stageName, "_batchnorm", name>>
                                 ELSE <<"batchnorm", name>>
      B1 == BuildConstantFromNpy(B, prefix \o <<"_gamma.npy">>)
      B2 == BuildConstantFromNpy(B1, prefix \o <<"_beta.npy">>)
      B3 == BuildConstantFromNpy(B2, prefix \o <<"_running_mean.npy">>)
      B4 == BuildConstantFromNpy(B3, prefix \o <<"_running_var.npy">>)
      B5 == BatchNorm(B4, x, Operand(B, 3), Last, <<Operand(B, 1), Operand(B, 2)>>)
  IN  IF ~mFused /\ relu THEN Relu(B5, Last) ELSE B5

\* BuildFusedBatchNorm (140-154): Relu(Add(Mul(input, mul), add)).
BuildFusedBatchNorm(B, input, nameIndices) ==
  LET x == Resolve(B, input)
      prefix ==
        IF nameIndices[1] = "postnorm" THEN <<"postnorm">>
        ELSE <<"block", nameIndices[1], "_unit_", nameIndices[2],
               "_bottleneck_v2_preact">>
      B1 == BuildConstantFromNpy(B, prefix \o <<"_FusedBatchNorm_mul_0_param.npy">>)
      B2 == BuildConstantFromNpy(B1, prefix \o <<"_FusedBatchNorm_add_param.npy">>)
      B3 == Mul(B2, x, Operand(B, 1))
      B4 == Add(B3, Last, Operand(B, 2))
  IN  Relu(B4, Last)

\* BuildGemm (156-168): weights and bias, the bias as option c.
BuildGemm(B, input, name) ==
  LET x == Resolve(B, input)
      B1 == BuildConstantFromNpy(B, <<"dense", name, "_weight.npy">>)
      B2 == BuildConstantFromNpy(B1, <<"dense", name, "_bias.npy">>)
  IN  Gemm(B2, x, Operand(B, 1), <<Last>>)

\* BuildNchwBottlenectV2 (170-200): three batch-norm/conv pairs named from
\* nameIndices; with downsample the residual is a conv of the first batch
\* norm, named nameIndices[0] + 3; otherwise it is the input.
BuildNchwBottlenectV2(B, input, stageName, nameIndices, downsample) ==
  LET x == Resolve(B, input)
      bn(G, k) == BuildBatchNorm(G, Last, nameIndices[1] + k, stageName, TRUE)
      conv(G, y, name) == BuildNchwConv(G, y, name, stageName)
      B1 == bn(B, 0)
      bn1 == Out(B1)
      B2 == conv(B1, Last, nameIndices[2])
      B3 == bn(B2, 1)
      B4 == conv(B3, Last, nameIndices[3])
      B5 == bn(B4, 2)
      B6 == conv(B5, Last, nameIndices[4])
      conv3 == Out(B6)
      B7 == IF downsample THEN conv(B6, bn1, nameIndices[1] + 3) ELSE B6
  IN  Add(B7, conv3, IF downsample THEN Last ELSE x)

\* BuildNhwcBottlenectV2 (207-255).  With downsample the residual is a
\* shortcut conv of the batch norm; without downsample but with shortcut it
\* is a MaxPool2d of the input and conv1 is padded before conv2.
BuildNhwcBottlenectV2(B, input, nameIndices, downsample, shortcut) ==
  LET x == Resolve(B, input)
      conv(G, y, name, relu) ==
        BuildNhwcConv(G, y, Append(nameIndices, name), relu)
      pooled == ~downsample /\ shortcut
      B1 == BuildFusedBatchNorm(B, x, nameIndices)
      preact == Out(B1)
      B2 == conv(B1, Last, "1", TRUE)
      conv1 == Out(B2)
      B3 == IF downsample THEN conv(B2, preact, "shortcut", FALSE) ELSE B2
      B4 == IF pooled THEN MaxPool2d(B3, x) ELSE B3
      B5 == IF pooled THEN Constant(B4) ELSE B4
      B6 == IF pooled THEN Pad(B5, conv1, Last) ELSE B5
      B7 == conv(B6, IF pooled THEN Last ELSE conv1, "2", TRUE)
      B8 == conv(B7, Last, "3", FALSE)
      \* residual: the input, replaced by the shortcut conv or the max pool,
      \* whichever was made (B4 returned it).
      residual == IF downsample \/ pooled THEN Out(B4) ELSE x
  IN  Add(B8, Last, residual)

NchwUnit(stageName, nameIndices, downsample) ==
  Stmt("nchwUnit", downsample, FALSE, <<stageName, nameIndices>>)
NhwcUnit(nameIndices, d, s) == Stmt("nhwcUnit", d, s, nameIndices)

\* std::to_string on the unit numbers loop renders.
Decimal ==
  <<"1", "2", "3", "4", "5", "6", "7", "8", "9", "10", "11", "12",
    "13", "14", "15", "16", "17", "18", "19", "20", "21", "22", "23">>

\* Mutant of loop: the recursion stops one unit late.
loopOffByOne(num) ==
  LET RECURSIVE Go(_)
      Go(k) == IF k > 23 THEN <<>>
               ELSE <<NhwcUnit(<<"3", Decimal[k]>>, FALSE, FALSE)>> \o Go(k + 1)
  IN  Go(num)

\* loop (257-268): the bottleneck calls it makes from unit num on; past unit
\* 22 it returns, otherwise it adds unit {"3", num} of block 3, fed the
\* previous node, and calls itself with num + 1.
RECURSIVE loop(_)
loop(num) ==
  IF num > 22 THEN <<>>
  ELSE <<NhwcUnit(<<"3", Decimal[num]>>, FALSE, FALSE)>> \o loop(num + 1)

\* LoadNCHW (286-325): the units of a stage; the first, {"0","0","1","2"},
\* downsamples, and unit k > 1 is named from 3(k-1) on ({"3","4","5","6"},
\* {"6","7","8","9"}, ...).
NchwStage(stageName, units) ==
  [k \in 1..units |->
     NchwUnit(stageName,
              IF k = 1 THEN <<0, 0, 1, 2>>
                       ELSE [i \in 1..4 |-> 3 * (k - 1) + i - 1],
              k = 1)]

NchwProgram(softmax) ==
  <<Stmt("nchwStem", FALSE, FALSE, 0)>>
  \o NchwStage(1, 3) \o NchwStage(2, 4) \o NchwStage(3, 6) \o NchwStage(4, 3)
  \o <<Stmt("nchwHead", softmax, FALSE, 0)>>

\* LoadNCHW lines 270-284: input, batchnorm0 without relu, conv0,
\* batchnorm1, max pool.
NchwStem(B) ==
  LET B1 == Input(B)
      B2 == BuildBatchNorm(B1, Last, 0, 0, FALSE)
      B3 == BuildNchwConv(B2, Last, 0, 0)
      B4 == BuildBatchNorm(B3, Last, 1, 0, TRUE)
  IN  MaxPool2d(B4, Last)

\* LoadNCHW lines 326-332.
NchwHead(B, softmax) ==
  LET B1 == BuildBatchNorm(B, Last, 2, 0, TRUE)
      B2 == AveragePool2d(B1, Last)
      B3 == Reshape(B2, Last)
      B4 == BuildGemm(B3, Last, 0)
  IN  IF softmax THEN Softmax(B4, Last) ELSE B4

\* LoadNHWC (358-383): units are (nameIndices, downsample, shortcut), the
\* defaults being (FALSE, TRUE); block 3 runs loop(bottleneck8, 2).
NhwcProgram(softmax) ==
  <<Stmt("nhwcStem", FALSE, FALSE, 0),
    NhwcUnit(<<"1", "1">>, TRUE, TRUE), NhwcUnit(<<"1", "2">>, FALSE, FALSE),
    NhwcUnit(<<"1", "3">>, FALSE, TRUE),
    NhwcUnit(<<"2", "1">>, TRUE, TRUE), NhwcUnit(<<"2", "2">>, FALSE, FALSE),
    NhwcUnit(<<"2", "3">>, FALSE, FALSE), NhwcUnit(<<"2", "4">>, FALSE, TRUE),
    NhwcUnit(<<"3", "1">>, TRUE, TRUE)>>
  \o loop(2)
  \o <<NhwcUnit(<<"3", "23">>, FALSE, TRUE),
      NhwcUnit(<<"4", "1">>, TRUE, TRUE), NhwcUnit(<<"4", "2">>, FALSE, FALSE),
      NhwcUnit(<<"4", "3">>, FALSE, FALSE),
      Stmt("nhwcHead", softmax, FALSE, 0)>>

\* LoadNHWC lines 335-356: input, padding constant, Pad, conv1, max pool.
NhwcStem(B) ==
  LET B1 == Input(B)
      B2 == Constant(B1)
      B3 == Pad(B2, Operand(B, 1), Last)
      B4 == BuildNhwcConv(B3, Last, <<"", "", "1">>, FALSE)
  IN  MaxPool2d(B4, Last)

\* LoadNHWC lines 384-400.
NhwcHead(B, softmax) ==
  LET B1 == BuildFusedBatchNorm(B, Last, <<"postnorm">>)
      B2 == ReduceMean(B1, Last)
      B3 == BuildNhwcConv(B2, Last, <<"", "", "logits">>, FALSE)
      B4 == Reshape(B3, Last)
  IN  IF softmax THEN Softmax(B4, Last) ELSE B4

\* main: mLayout selects LoadNCHW or LoadNHWC.
Program(layout, softmax) ==
  IF layout = "nchw" THEN NchwProgram(softmax) ELSE NhwcProgram(softmax)

Layouts == {"nchw", "nhwc"}

\* Running one statement of a loader.
Exec(B, st) ==
  CASE st.kind = "nchwStem" -> NchwStem(B)
    [] st.kind = "nhwcStem" -> NhwcStem(B)
    [] st.kind = "nchwUnit" -> BuildNchwBottlenectV2(B, Last, st.n[1], st.n[2], st.x)
    [] st.kind = "nhwcUnit" -> BuildNhwcBottlenectV2(B, Last, st.n, st.x, st.y)
    [] st.kind = "nchwHead" -> NchwHead(B, st.x)
    [] st.kind = "nhwcHead" -> NhwcHead(B, st.x)

=============================================================================
